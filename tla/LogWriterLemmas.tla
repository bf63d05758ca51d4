--------------------------- MODULE LogWriterLemmas --------------------------
(***************************************************************************)
(* Facts about LogWriter's operators; that its steps keep the types; what  *)
(* a step of one run leaves alone; and that a PUT that reaches the store,  *)
(* in time or late, keeps IInv: for any number of runs, any retry budgets  *)
(* and any number of segments.                                             *)
(***************************************************************************)
EXTENDS LogWriterInv, TLAPS

\* A leaf is tried with Zenon, then with SMT.
USE ZenonT(4), SMTT(30)

-----------------------------------------------------------------------------
(* The operations on manifest values and on the stored object.             *)

\* A location names its run and the ordinal there.
LEMMA LocationFields ==
  ASSUME NEW r, NEW n
  PROVE  Location(r, n).run = r /\ Location(r, n).ordinal = n
  BY DEF Location

\* An empty manifest is a manifest.
LEMMA NewManifestType == NewManifest \in Manifests
  BY DEF NewManifest, Manifests, NoSnapshot

\* The parts of a manifest and of its entries.
LEMMA ManifestShape ==
  ASSUME NEW mf \in Manifests
  PROVE  /\ mf.entries \in Seq(Entries) /\ Len(mf.entries) \in Nat
         /\ DOMAIN mf.entries = 1..Len(mf.entries)
         /\ mf.entries = <<>> <=> Len(mf.entries) = 0
         /\ mf.nextSequence \in Nat /\ mf.epoch \in Nat
         /\ \A i \in 1..Len(mf.entries) :
              /\ mf.entries[i] \in Entries
              /\ mf.entries[i].Location \in Locations
              /\ mf.entries[i].Location.run \in Runs
              /\ mf.entries[i].Location.ordinal \in Nat
<1>1. mf.entries \in Seq(Entries) /\ mf.nextSequence \in Nat /\ mf.epoch \in Nat
  BY DEF Manifests
<1>2. \A i \in 1..Len(mf.entries) : mf.entries[i] \in Entries
  BY <1>1
<1>3. \A e \in Entries : /\ e.Location \in Locations
                         /\ e.Location.run \in Runs /\ e.Location.ordinal \in Nat
  BY DEF Entries, Locations
<1>4. /\ Len(mf.entries) \in Nat /\ DOMAIN mf.entries = 1..Len(mf.entries)
      /\ mf.entries = <<>> <=> Len(mf.entries) = 0
  BY <1>1
<1>5. QED
  BY <1>1, <1>2, <1>3, <1>4

\* SetEpoch changes the epoch and nothing else.
LEMMA SetEpochFacts ==
  ASSUME NEW mf \in Manifests, NEW e \in Nat
  PROVE  /\ SetEpoch(mf, e) \in Manifests
         /\ SetEpoch(mf, e).epoch = e
         /\ SetEpoch(mf, e).entries = mf.entries
         /\ SetEpoch(mf, e).nextSequence = mf.nextSequence
  BY DEF SetEpoch, Manifests

\* Manifest.Append adds one entry, at nextSequence, and keeps the others.
LEMMA AppendEntryFacts ==
  ASSUME NEW mf \in Manifests, NEW seg \in Segments
  PROVE  LET new == AppendEntry(mf, seg.Location, seg.Count)
             n == Len(mf.entries)
         IN  /\ new \in Manifests
             /\ new.epoch = mf.epoch
             /\ new.nextSequence = mf.nextSequence + seg.Count
             /\ Len(new.entries) = n + 1
             /\ \A i \in 1..n : new.entries[i] = mf.entries[i]
             /\ new.entries[n + 1] = [Sequence |-> mf.nextSequence,
                                      Count |-> seg.Count,
                                      Location |-> seg.Location]
             /\ new.entries[n + 1].Sequence = mf.nextSequence
             /\ new.entries[n + 1].Location = seg.Location
<1> DEFINE e == [Sequence |-> mf.nextSequence, Count |-> seg.Count,
                 Location |-> seg.Location]
<1>1. e \in Entries /\ mf.entries \in Seq(Entries) /\ mf.nextSequence \in Nat
  BY DEF Manifests, Segments, Entries
<1> DEFINE es == Append(mf.entries, e)
           new == AppendEntry(mf, seg.Location, seg.Count)
<1>2. /\ es \in Seq(Entries) /\ Len(es) = Len(mf.entries) + 1
      /\ \A i \in 1..Len(mf.entries) : es[i] = mf.entries[i]
      /\ es[Len(mf.entries) + 1] = e
  BY <1>1
<1>3. mf.nextSequence + seg.Count \in Nat
  BY <1>1, SMTT(30) DEF Segments
<1>4. /\ new \in Manifests /\ new.entries = es /\ new.epoch = mf.epoch
      /\ new.nextSequence = mf.nextSequence + seg.Count
  <2> HIDE DEF e
  <2>1. new = [mf EXCEPT !.entries = es, !.nextSequence = mf.nextSequence + seg.Count]
    BY DEF AppendEntry, e
  <2> HIDE DEF es, new
  <2>2. QED
    BY <1>2, <1>3, <2>1 DEF Manifests
<1>5. e.Sequence = mf.nextSequence /\ e.Location = seg.Location
  OBVIOUS
<1>6. QED
  BY <1>2, <1>4, <1>5

\* What harvestCommitted looks at are entries of the manifest.
LEMMA TailEntries ==
  ASSUME NEW mf \in Manifests, NEW k \in Nat
  PROVE  \A e \in TailLocations(mf, k) : e \in Entries
<1> DEFINE n == Len(mf.entries)
           from == IF n > k THEN n - k + 1 ELSE 1
<1>1. n \in Nat /\ \A i \in 1..n : mf.entries[i] \in Entries
  BY ManifestShape
<1>2. \A i \in from..n : i \in 1..n
  <2> HIDE DEF n
  <2>1. QED
    BY <1>1
<1>3. QED
  BY <1>1, <1>2 DEF TailLocations

\* A conditional write replaces the object exactly when it is answered "ok".
LEMMA PutFacts ==
  ASSUME NEW obj \in [exists : BOOLEAN, etag : Nat, data : Manifests],
         obj.exists <=> obj.etag # 0,
         NEW v \in Nat, NEW mf \in Manifests
  PROVE  /\ PutResult(obj, v) \in {"ok", "exists", "precondition"}
         /\ PutResult(obj, v) = "ok" <=> v = obj.etag
         /\ v = obj.etag => PutOpts(obj, v, mf) =
                              [exists |-> TRUE, etag |-> obj.etag + 1, data |-> mf]
         /\ v # obj.etag => PutOpts(obj, v, mf) = obj
  BY DEF PutResult, PutOpts, NoVersion

-----------------------------------------------------------------------------
(* Soundness of manifest values.                                           *)

\* A run that takes an epoch, or names more segments, does not disturb the
\* manifests already written: none of their entries belongs to a run without
\* an epoch.
LEMMA SoundStable ==
  ASSUME NEW mf \in Manifests,
         NEW ep \in [Runs -> Nat], NEW ep2 \in [Runs -> Nat],
         NEW ord \in [Runs -> Nat], NEW ord2 \in [Runs -> Nat],
         \A s \in Runs : ep[s] # 0 => ep2[s] = ep[s],
         \A s \in Runs : ord[s] <= ord2[s],
         Sound(mf, ep, ord)
  PROVE  Sound(mf, ep2, ord2)
<1>1. \A i \in DOMAIN mf.entries :
        /\ mf.entries[i].Location.run \in Runs
        /\ mf.entries[i].Location.ordinal \in Nat
        /\ ep2[mf.entries[i].Location.run] = ep[mf.entries[i].Location.run]
  <2>1. \A i \in DOMAIN mf.entries : mf.entries[i] \in Entries
    BY SMTT(30) DEF Manifests
  <2>2. \A i \in DOMAIN mf.entries : 0 < ep[mf.entries[i].Location.run]
    BY DEF Sound, Owned
  <2>3. QED
    BY <2>1, <2>2, SMTT(30) DEF Entries, Locations
<1>2. OwnersGrow(mf, ep2)
  BY <1>1 DEF Sound, OwnersGrow
<1>3. Owned(mf, ep2, ord2)
  BY <1>1, SMTT(30) DEF Sound, Owned, Manifests
<1>4. QED
  BY <1>2, <1>3 DEF Sound

\* The empty manifest is sound.
LEMMA NewManifestSound ==
  ASSUME NEW ep, NEW ord
  PROVE  Sound(NewManifest, ep, ord)
<1>1. NewManifest.entries = <<>> /\ NewManifest.nextSequence = 0
  BY DEF NewManifest
<1>2. DOMAIN <<>> = {} /\ Len(<<>>) = 0
  OBVIOUS
<1>3. QED
  BY <1>1, <1>2 DEF Sound, Dense, Tiles, Unique, InOrder, OwnersGrow, Owned

\* Raising the epoch, as claim does, keeps a manifest sound.
LEMMA SetEpochSound ==
  ASSUME NEW mf \in Manifests, NEW e \in Nat, e >= mf.epoch,
         NEW ep \in [Runs -> Nat], NEW ord \in [Runs -> Nat],
         Sound(mf, ep, ord)
  PROVE  Sound(SetEpoch(mf, e), ep, ord)
<1> DEFINE new == SetEpoch(mf, e)
<1>1. new.entries = mf.entries /\ new.nextSequence = mf.nextSequence /\ new.epoch = e
  BY SetEpochFacts
<1>2. mf.epoch \in Nat /\ \A i \in DOMAIN mf.entries : mf.entries[i].Location.run \in Runs
  <2>1. \A i \in DOMAIN mf.entries : mf.entries[i] \in Entries
    BY SMTT(30) DEF Manifests
  <2>2. QED
    BY <2>1 DEF Manifests, Entries, Locations
<1> HIDE DEF new
<1>3. Dense(new) /\ Unique(new) /\ InOrder(new) /\ OwnersGrow(new, ep)
  BY <1>1 DEF Sound, Dense, Tiles, Unique, InOrder, OwnersGrow
<1>4. Owned(new, ep, ord)
  BY <1>1, <1>2 DEF Sound, Owned
<1>5. QED
  BY <1>3, <1>4 DEF Sound, new

\* Appending the next segment of the run that owns the manifest keeps it
\* sound, if the segment is new and its predecessor is there.
LEMMA AppendSound ==
  ASSUME NEW mf \in Manifests, NEW seg \in Segments,
         NEW ep \in [Runs -> Nat], NEW ord \in [Runs -> Nat],
         Sound(mf, ep, ord),
         ep[seg.Location.run] = mf.epoch, mf.epoch > 0,
         seg.Location.ordinal < ord[seg.Location.run],
         \A i \in 1..Len(mf.entries) : mf.entries[i].Location # seg.Location,
         seg.Location.ordinal > 0 =>
           \E i \in 1..Len(mf.entries) :
             mf.entries[i].Location = Location(seg.Location.run, seg.Location.ordinal - 1)
  PROVE  Sound(AppendEntry(mf, seg.Location, seg.Count), ep, ord)
<1> DEFINE n == Len(mf.entries)
           new == AppendEntry(mf, seg.Location, seg.Count)
           es == new.entries
<1>1. /\ n \in Nat /\ mf.nextSequence \in Nat /\ mf.epoch \in Nat
      /\ \A i \in 1..n : /\ mf.entries[i] \in Entries
                         /\ mf.entries[i].Location.run \in Runs
                         /\ mf.entries[i].Location.ordinal \in Nat
      /\ DOMAIN mf.entries = 1..n
      /\ mf.entries = <<>> <=> n = 0
  BY ManifestShape
<1>2. /\ Len(es) = n + 1 /\ DOMAIN es = 1..n + 1 /\ es # <<>>
      /\ \A i \in 1..n : es[i] = mf.entries[i]
      /\ es[n + 1].Sequence = mf.nextSequence
      /\ es[n + 1].Count = seg.Count
      /\ es[n + 1].Location = seg.Location
      /\ new.nextSequence = mf.nextSequence + seg.Count
      /\ new.epoch = mf.epoch
  <2>1. /\ new \in Manifests
        /\ new.epoch = mf.epoch
        /\ new.nextSequence = mf.nextSequence + seg.Count
        /\ Len(es) = n + 1
        /\ \A i \in 1..n : es[i] = mf.entries[i]
        /\ es[n + 1] = [Sequence |-> mf.nextSequence, Count |-> seg.Count,
                        Location |-> seg.Location]
    BY AppendEntryFacts, ZenonT(30)
  <2> HIDE DEF new
  <2>2. DOMAIN es = 1..Len(es) /\ (es = <<>> <=> Len(es) = 0)
    BY <2>1, ManifestShape
  <2>3. QED
    BY <2>1, <2>2, <1>1, SMTT(30)
<1>3. seg.Count \in Nat \ {0} /\ seg.Location.run \in Runs /\ seg.Location.ordinal \in Nat
  BY DEF Segments, Locations
<1>4. Dense(new)
  <2> HIDE DEF new
  <2>1. \A i \in 1..n : End(es[i]) = End(mf.entries[i])
    BY <1>2
  <2>2. End(es[n + 1]) = new.nextSequence
    BY <1>2, <1>3 DEF End, RangeSize
  <2>3. n # 0 => mf.nextSequence = End(mf.entries[n])
    BY <1>1 DEF Sound, Dense, Tiles
  <2>4. \A i \in 1..n : es[i + 1].Sequence = End(es[i])
    <3>1. TAKE i \in 1..n
    <3>2. CASE i = n
      BY <3>2, <1>1, <1>2, <2>1, <2>3, SMTT(30)
    <3>3. CASE i < n
      <4>1. i \in 1..n - 1 /\ i + 1 \in 1..n
        BY <3>3, <1>1, SMTT(30)
      <4>2. mf.entries[i + 1].Sequence = End(mf.entries[i])
        BY <4>1 DEF Sound, Dense, Tiles
      <4>3. QED
        BY <4>1, <4>2, <1>2, <2>1
    <3>4. QED
      BY <3>2, <3>3, <1>1
  <2>5. es[1].Sequence = 0
    <3>1. CASE n = 0
      BY <3>1, <1>1, <1>2, SMTT(30) DEF Sound, Dense
    <3>2. CASE n # 0
      BY <3>2, <1>1, <1>2, SMTT(30) DEF Sound, Dense
    <3>3. QED
      BY <3>1, <3>2
  <2>6. QED
    BY <1>1, <1>2, <2>2, <2>4, <2>5, SMTT(30) DEF Dense, Tiles
<1> HIDE DEF new
<1>s. \A i \in 1..n + 1 : i \in 1..n \/ i = n + 1
  BY <1>1, SMTT(30)
<1>5. Unique(new)
  <2>1. \A i, j \in 1..n : mf.entries[i].Location = mf.entries[j].Location => i = j
    BY <1>1 DEF Sound, Unique
  <2>2. \A i, j \in 1..n + 1 : es[i].Location = es[j].Location => i = j
    <3>1. TAKE i, j \in 1..n + 1
    <3>2. CASE i \in 1..n /\ j \in 1..n
      BY <3>2, <1>2, <2>1
    <3>3. CASE i \in 1..n /\ j = n + 1
      BY <3>3, <1>2
    <3>4. CASE i = n + 1 /\ j \in 1..n
      BY <3>4, <1>2
    <3>5. QED
      BY <3>2, <3>3, <3>4, <1>s
  <2>3. QED
    BY <1>2, <2>2 DEF Unique
<1>6. InOrder(new)
  <2>1. SUFFICES ASSUME NEW i \in 1..n + 1, es[i].Location.ordinal > 0
                 PROVE  \E j \in 1..i - 1 :
                          es[j].Location = Location(es[i].Location.run,
                                                    es[i].Location.ordinal - 1)
    BY <1>2 DEF InOrder
  <2>2. CASE i = n + 1
    BY SMTT(30), <2>1, <2>2, <1>1, <1>2
  <2>3. CASE i \in 1..n
    <3>1. \E j \in 1..i - 1 :
            mf.entries[j].Location = Location(mf.entries[i].Location.run,
                                              mf.entries[i].Location.ordinal - 1)
      BY <2>1, <2>3, <1>1, <1>2 DEF Sound, InOrder
    <3>2. \A j \in 1..i - 1 : j \in 1..n
      BY <2>3, <1>1, SMTT(30)
    <3>3. QED
      BY <2>3, <3>1, <3>2, <1>2
  <2>4. QED
    BY <2>2, <2>3, <1>1, SMTT(30)
<1>7. OwnersGrow(new, ep)
  <2>1. \A i \in 1..n : ep[mf.entries[i].Location.run] <= ep[seg.Location.run]
    BY <1>1 DEF Sound, Owned
  <2>2. \A i, j \in 1..n :
          i < j => ep[mf.entries[i].Location.run] <= ep[mf.entries[j].Location.run]
    BY <1>1 DEF Sound, OwnersGrow
  <2>3. ASSUME NEW i \in 1..n + 1, NEW j \in 1..n + 1, i < j
        PROVE  ep[es[i].Location.run] <= ep[es[j].Location.run]
    <3>1. i \in 1..n
      BY <2>3, <1>1, SMTT(30)
    <3>2. CASE j \in 1..n
      BY <2>2, <2>3, <3>1, <3>2, <1>2
    <3>3. CASE j = n + 1
      BY <2>1, <3>1, <3>3, <1>2
    <3>4. QED
      BY <3>2, <3>3, <1>s
  <2>4. QED
    BY <1>2, <2>3 DEF OwnersGrow
<1>8. Owned(new, ep, ord)
  <2>1. \A i \in 1..n : /\ 0 < ep[mf.entries[i].Location.run]
                         /\ ep[mf.entries[i].Location.run] <= mf.epoch
                         /\ mf.entries[i].Location.ordinal < ord[mf.entries[i].Location.run]
    BY <1>1 DEF Sound, Owned
  <2>2. \A i \in 1..n + 1 : /\ 0 < ep[es[i].Location.run]
                             /\ ep[es[i].Location.run] <= mf.epoch
                             /\ es[i].Location.ordinal < ord[es[i].Location.run]
    <3>1. TAKE i \in 1..n + 1
    <3>2. CASE i \in 1..n
      BY <3>2, <1>2, <2>1
    <3>3. CASE i = n + 1
      BY <3>3, <1>1, <1>2, <1>3, SMTT(30)
    <3>4. QED
      BY <3>2, <3>3, <1>s
  <2>3. QED
    BY <1>2, <2>2 DEF Owned
<1>9. QED
  BY <1>4, <1>5, <1>6, <1>7, <1>8 DEF Sound, new

-----------------------------------------------------------------------------
(* Types.                                                                  *)

\* The initial state has the types TypeOK gives.
LEMMA TypeInit == Init => TypeOK
<1>1. <<>> \in Seq(Segments) /\ <<>> \in Seq(Nat)
  OBVIOUS
<1>2. Missing(NewManifest) \in [exists : BOOLEAN, etag : Nat, data : Manifests]
  BY NewManifestType DEF Missing, NoVersion
<1>3. QED
  BY <1>1, <1>2, NewManifestType, SMTT(30) DEF Init, TypeOK, NoVersion, Phases, Replies

\* The store holds a well-typed manifest after any well-typed PUT.
LEMMA PutType ==
  ASSUME TypeOK, NEW v \in Nat, NEW mf \in Manifests
  PROVE  /\ PutOpts(object, v, mf) \in [exists : BOOLEAN, etag : Nat, data : Manifests]
         /\ PutResult(object, v) \in {"ok", "exists", "precondition"}
  BY SMTT(30) DEF TypeOK, PutOpts, PutResult, NoVersion

\* What a returning call, and the end of an attempt, leave behind is typed.
LEMMA ReturnType ==
  ASSUME TypeOK, NEW r \in Runs,
         NEW to \in Phases
  PROVE  /\ Return(r, to) =>
              /\ pc' \in [Runs -> Phases]
              /\ attempts' \in [Runs -> Nat] /\ conflicts' \in [Runs -> Nat]
              /\ unknown' \in [Runs -> BOOLEAN] /\ plans' \in [Runs -> Seq(Segments)]
         /\ DropAttempt(r) =>
              /\ m' \in [Runs -> Manifests] /\ ver' \in [Runs -> Nat]
              /\ reply' \in [Runs -> Replies]
              /\ seqs' \in [Runs -> Seq(Nat)]
<1>1. <<>> \in Seq(Segments) /\ <<>> \in Seq(Nat)
  OBVIOUS
<1>2. ASSUME Return(r, to)
      PROVE  /\ pc' \in [Runs -> Phases] /\ plans' \in [Runs -> Seq(Segments)]
             /\ attempts' \in [Runs -> Nat] /\ conflicts' \in [Runs -> Nat]
  BY <1>1, <1>2 DEF TypeOK, Return
<1>3. Return(r, to) => unknown' \in [Runs -> BOOLEAN]
  BY DEF TypeOK, Return
<1>4. ASSUME DropAttempt(r)
      PROVE  /\ m' \in [Runs -> Manifests] /\ ver' \in [Runs -> Nat]
             /\ reply' \in [Runs -> Replies] /\ seqs' \in [Runs -> Seq(Nat)]
  BY <1>1, <1>4, NewManifestType DEF TypeOK, DropAttempt, NoVersion, Replies
<1>5. QED
  BY <1>2, <1>3, <1>4

\* A request on its way is typed.
LEMMA AbandonType ==
  ASSUME TypeOK, NEW r \in Runs, Abandon(r)
  PROVE  late' \subseteq [run : Runs, ver : Nat, m : Manifests]
  BY SMTT(30) DEF TypeOK, Abandon, Request

\* A counted failure leaves the call's variables typed.
LEMMA TransientType ==
  ASSUME TypeOK, NEW r \in Runs, NEW u \in BOOLEAN, Transient(r, u)
  PROVE  /\ pc' \in [Runs -> Phases]
         /\ attempts' \in [Runs -> Nat] /\ conflicts' \in [Runs -> Nat]
         /\ unknown' \in [Runs -> BOOLEAN] /\ plans' \in [Runs -> Seq(Segments)]
<1>1. CASE Halt(r)
  BY <1>1, ReturnType DEF Halt, Phases
<1>2. CASE ~Halt(r)
  <2>1. unknown' \in [Runs -> BOOLEAN]
    BY <1>2 DEF TypeOK, Transient
  <2>2. /\ pc' = [pc EXCEPT ![r] = "load"] /\ attempts' = [attempts EXCEPT ![r] = @ + 1]
        /\ conflicts' = conflicts /\ plans' = plans
    BY <1>2 DEF Transient
  <2>3. QED
    BY <2>1, <2>2, SMTT(30) DEF TypeOK, Phases
<1>3. QED
  BY <1>1, <1>2

\* So does another round of the claim loop.
LEMMA ClaimAgainType ==
  ASSUME TypeOK, NEW r \in Runs, ClaimAgain(r)
  PROVE  /\ pc' \in [Runs -> Phases]
         /\ attempts' \in [Runs -> Nat] /\ conflicts' \in [Runs -> Nat]
         /\ unknown' \in [Runs -> BOOLEAN] /\ plans' \in [Runs -> Seq(Segments)]
  BY SMTT(30) DEF TypeOK, ClaimAgain, Phases

\* The typed state a step starts from, without its Boolean component.
LEMMA TypeParts ==
  ASSUME TypeOK, NEW r \in Runs
  PROVE  /\ pc[r] \in Phases /\ reply[r] \in Replies
         /\ epoch[r] \in Nat /\ ordinal[r] \in Nat /\ ver[r] \in Nat
         /\ attempts[r] \in Nat /\ conflicts[r] \in Nat
         /\ m[r] \in Manifests
         /\ plans[r] \in Seq(Segments) /\ seqs[r] \in Seq(Nat)
         /\ unknown[r] \in BOOLEAN
         /\ object.data \in Manifests /\ object.etag \in Nat /\ object.exists \in BOOLEAN
  BY DEF TypeOK

\* Every step of the claim keeps the types.
LEMMA ClaimType ==
  ASSUME TypeOK, NEW r \in Runs, Claim(r)
  PROVE  TypeOK'
<1>1. CASE ClaimLoad(r)
  <2>1. SetEpoch(object.data, object.data.epoch + 1) \in Manifests
    <3>1. object.data \in Manifests
      BY TypeParts
    <3>2. object.data.epoch + 1 \in Nat
      BY <3>1, ManifestShape
    <3>3. QED
      BY <3>1, <3>2, SetEpochFacts
  <2>2. /\ m' \in [Runs -> Manifests] /\ ver' \in [Runs -> Nat] /\ pc' \in [Runs -> Phases]
    BY <1>1, <2>1, TypeParts DEF ClaimLoad, TypeOK, Phases
  <2>3. QED
    BY <1>1, <2>2 DEF ClaimLoad, TypeOK, callVars
<1>2. CASE ClaimLoadFails(r)
  BY <1>2, ClaimAgainType, ReturnType DEF ClaimLoadFails, TypeOK, attemptVars, Phases
<1>3. CASE ClaimExhausted(r)
  BY <1>3, ReturnType DEF ClaimExhausted, TypeOK, attemptVars, Phases
<1>4. CASE ClaimWon(r)
  <2>1. epoch' \in [Runs -> Nat]
    BY <1>4, TypeParts, ManifestShape DEF ClaimWon, TypeOK
  <2>2. QED
    BY <1>4, <2>1, ReturnType DEF ClaimWon, TypeOK, Phases
<1>5. CASE ClaimLost(r)
  BY <1>5, ClaimAgainType, ReturnType DEF ClaimLost, TypeOK, Phases
<1>6. CASE ClaimFails(r)
  BY <1>6, ClaimAgainType, ReturnType, AbandonType DEF ClaimFails, TypeOK, Phases
<1>7. QED
  BY <1>1, <1>2, <1>3, <1>4, <1>5, <1>6 DEF Claim

\* Every step of a commit keeps the types. AppendPlan reads the plan after
\* the last sequence assigned: Control says there is one.
LEMMA CommitType ==
  ASSUME TypeOK, NEW r \in Runs, Commit(r), Control(r)
  PROVE  TypeOK'
<1>1. CASE LoadFails(r)
  BY <1>1, TransientType, TypeParts DEF LoadFails, TypeOK, attemptVars
<1>2. CASE Fenced(r)
  BY <1>2, ReturnType DEF Fenced, Halt, TypeOK, attemptVars, Phases
<1>3. CASE Harvest(r)
  <2>1. acked' \subseteq [Location : Locations, Sequence : Nat]
    <3>1. \A e \in TailLocations(object.data, 4 * Len(plans[r])) :
            e.Location \in Locations /\ e.Sequence \in Nat
      <4>1. Len(plans[r]) \in Nat /\ object.data \in Manifests
        BY TypeParts
      <4>2. 4 * Len(plans[r]) \in Nat
        BY <4>1
      <4>3. QED
        BY <4>1, <4>2, TailEntries DEF Entries
    <3>2. CASE acked' = acked
      BY <3>2 DEF TypeOK
    <3>3. CASE acked' # acked
      <4>1. acked' = acked \cup
               {[Location |-> e.Location, Sequence |-> e.Sequence] :
                  e \in {f \in TailLocations(object.data, 4 * Len(plans[r])) :
                           \E i \in DOMAIN plans[r] : f.Location = plans[r][i].Location}}
        BY <1>3, <3>3 DEF Harvest
      <4>2. QED
        BY <3>1, <4>1, SMTT(30) DEF TypeOK
    <3>4. QED
      BY <3>2, <3>3
  <2>2. QED
    BY <1>3, <2>1, ReturnType DEF Harvest, Halt, TypeOK, attemptVars, Phases
<1>4. CASE Load(r)
  BY <1>4, TypeParts DEF Load, TypeOK, callVars, Phases
<1>5. CASE AppendPlan(r)
  <2> DEFINE i == Len(seqs[r]) + 1
  <2>1. plans[r][i] \in Segments
    BY <1>5, TypeParts DEF Control, AppendPlan
  <2>2. AppendEntry(m[r], plans[r][i].Location, plans[r][i].Count) \in Manifests
    BY <2>1, TypeParts, AppendEntryFacts
  <2>3. Append(seqs[r], m[r].nextSequence) \in Seq(Nat)
    BY TypeParts, ManifestShape, SMTT(30)
  <2>4. m' \in [Runs -> Manifests] /\ seqs' \in [Runs -> Seq(Nat)] /\ pc' \in [Runs -> Phases]
    BY <1>5, <2>2, <2>3 DEF AppendPlan, TypeOK, Phases
  <2>5. QED
    BY <1>5, <2>4 DEF AppendPlan, TypeOK, callVars
<1>6. CASE CommitOk(r)
  <2>1. acked' \subseteq [Location : Locations, Sequence : Nat]
    <3>1. \A i \in DOMAIN plans[r] : plans[r][i].Location \in Locations /\ seqs[r][i] \in Nat
      <4>1. plans[r] \in Seq(Segments) /\ seqs[r] \in Seq(Nat) /\ Len(seqs[r]) = Len(plans[r])
        BY <1>6, TypeParts DEF CommitOk, Control
      <4>2. \A i \in DOMAIN plans[r] : plans[r][i] \in Segments /\ i \in DOMAIN seqs[r]
        BY <4>1
      <4>3. QED
        BY <4>1, <4>2, SMTT(30) DEF Segments
    <3>2. acked' = acked \cup {[Location |-> plans[r][i].Location,
                               Sequence |-> seqs[r][i]] : i \in DOMAIN plans[r]}
      BY <1>6 DEF CommitOk
    <3>3. QED
      BY <3>1, <3>2, SMTT(30) DEF TypeOK
  <2>2. QED
    BY <1>6, <2>1, ReturnType DEF CommitOk, TypeOK, Phases
<1>7. CASE CommitConflict(r)
  <2>1. CASE Halt(r)
    BY <1>7, <2>1, ReturnType DEF CommitConflict, Halt, TypeOK, Phases
  <2>2. CASE ~Halt(r)
    <3>1. /\ conflicts' = [conflicts EXCEPT ![r] = @ + 1] /\ pc' = [pc EXCEPT ![r] = "load"]
          /\ UNCHANGED <<attempts, unknown, plans>>
      BY <1>7, <2>2 DEF CommitConflict
    <3>2. conflicts' \in [Runs -> Nat] /\ pc' \in [Runs -> Phases]
      BY <3>1, SMTT(30) DEF TypeOK, Phases
    <3>3. QED
      BY <1>7, <3>1, <3>2, ReturnType DEF CommitConflict, TypeOK, Phases
  <2>3. QED
    BY <2>1, <2>2
<1>8. CASE CommitRefused(r)
  BY <1>8, TransientType, ReturnType, TypeParts DEF CommitRefused, TypeOK, Phases
<1>9. CASE CommitUnknown(r)
  BY <1>9, TransientType, ReturnType, AbandonType DEF CommitUnknown, TypeOK, Phases
<1>10. QED
  BY <1>1, <1>2, <1>3, <1>4, <1>5, <1>6, <1>7, <1>8, <1>9 DEF Commit

\* A group handed to commitEntries is typed.
LEMMA BeginCommitType ==
  ASSUME TypeOK, NEW r \in Runs, BeginCommit(r)
  PROVE  TypeOK'
<1>0. PICK n \in 1..ManifestAppendBatchSize : \E count \in [1..n -> Counts] :
        /\ plans' = [plans EXCEPT ![r] =
             [i \in 1..n |-> [Location |-> Location(r, ordinal[r] + i - 1),
                              Count    |-> count[i]]]]
        /\ ordinal' = [ordinal EXCEPT ![r] = @ + n]
  BY DEF BeginCommit
<1>1. PICK count \in [1..n -> Counts] :
        /\ plans' = [plans EXCEPT ![r] =
             [i \in 1..n |-> [Location |-> Location(r, ordinal[r] + i - 1),
                              Count    |-> count[i]]]]
        /\ ordinal' = [ordinal EXCEPT ![r] = @ + n]
  BY <1>0
<1>2. n \in Nat /\ ordinal[r] \in Nat
  BY BudgetAssumption, TypeParts, SMTT(30)
<1>3. \A i \in 1..n : [Location |-> Location(r, ordinal[r] + i - 1), Count |-> count[i]]
                        \in Segments
  <2>1. TAKE i \in 1..n
  <2>2. count[i] \in Nat \ {0}
    BY CountAssumption
  <2>3. ordinal[r] + i - 1 \in Nat
    BY <1>2
  <2>4. QED
    BY <2>2, <2>3 DEF Segments, Location, Locations
<1>4. [i \in 1..n |-> [Location |-> Location(r, ordinal[r] + i - 1), Count |-> count[i]]]
        \in Seq(Segments)
  BY <1>2, <1>3
<1>5. plans' \in [Runs -> Seq(Segments)] /\ ordinal' \in [Runs -> Nat]
  BY <1>1, <1>2, <1>4, SMTT(30) DEF TypeOK
<1>6. pc' \in [Runs -> Phases]
  BY DEF BeginCommit, TypeOK, Phases
<1>7. QED
  BY <1>5, <1>6 DEF BeginCommit, TypeOK, attemptVars

\* Every step keeps the types.
LEMMA TypeStep ==
  ASSUME TypeOK, \A r \in Runs : Control(r), [Next]_vars
  PROVE  TypeOK'
<1>1. ASSUME NEW r \in Runs, Arrive(r) PROVE TypeOK'
  <2>1. /\ PutOpts(object, ver[r], m[r]) \in [exists : BOOLEAN, etag : Nat, data : Manifests]
        /\ PutResult(object, ver[r]) \in {"ok", "exists", "precondition"}
    BY TypeParts, PutType
  <2>2. reply' \in [Runs -> Replies]
    BY <1>1, <2>1 DEF Arrive, TypeOK, Replies
  <2>3. QED
    BY <1>1, <2>1, <2>2 DEF Arrive, TypeOK, callVars
<1>2. ASSUME NEW r \in Runs, Refuse(r) PROVE TypeOK'
  BY <1>2 DEF Refuse, TypeOK, callVars, Replies
<1>3. ASSUME NEW r \in Runs, Claim(r) PROVE TypeOK'
  BY <1>3, ClaimType
<1>4. ASSUME NEW r \in Runs, BeginCommit(r) PROVE TypeOK'
  BY <1>4, BeginCommitType
<1>5. ASSUME NEW r \in Runs, Commit(r) PROVE TypeOK'
  BY <1>5, CommitType
<1>6. ASSUME NEW r \in Runs, Crash(r) PROVE TypeOK'
  BY <1>6, ReturnType, AbandonType DEF Crash, TypeOK, Phases
<1>7. ASSUME NEW q \in late, ArriveLate(q) PROVE TypeOK'
  <2>1. q.ver \in Nat /\ q.m \in Manifests
    BY DEF TypeOK
  <2>2. PutOpts(object, q.ver, q.m) \in [exists : BOOLEAN, etag : Nat, data : Manifests]
    BY <2>1, PutType
  <2>3. QED
    BY <1>7, <2>2 DEF ArriveLate, TypeOK, attemptVars, callVars
<1>8. CASE UNCHANGED vars
  BY <1>8 DEF vars, attemptVars, callVars, TypeOK
<1>9. QED
  BY <1>1, <1>2, <1>3, <1>4, <1>5, <1>6, <1>7, <1>8 DEF Next

-----------------------------------------------------------------------------
(* What a step of one run leaves alone.                                    *)

\* Run s takes no part in the step.
Same(s) ==
  /\ pc'[s] = pc[s] /\ epoch'[s] = epoch[s] /\ ordinal'[s] = ordinal[s]
  /\ m'[s] = m[s] /\ ver'[s] = ver[s] /\ reply'[s] = reply[s] /\ seqs'[s] = seqs[s]
  /\ unknown'[s] = unknown[s] /\ plans'[s] = plans[s]

\* Manifests stay sound while epochs are only taken and ordinals only grow.
LEMMA SoundFrame ==
  ASSUME IInv, TypeOK',
         \A s \in Runs : epoch[s] # 0 => epoch'[s] = epoch[s],
         \A s \in Runs : ordinal[s] <= ordinal'[s]
  PROVE  /\ Sound(object.data, epoch', ordinal')
         /\ \A s \in Runs : Sound(m[s], epoch', ordinal')
         /\ \A q \in late : Sound(q.m, epoch', ordinal')
<1>1. /\ epoch \in [Runs -> Nat] /\ epoch' \in [Runs -> Nat]
      /\ ordinal \in [Runs -> Nat] /\ ordinal' \in [Runs -> Nat]
      /\ object.data \in Manifests /\ \A s \in Runs : m[s] \in Manifests
      /\ \A q \in late : q.m \in Manifests
  BY DEF IInv, TypeOK
<1>2. Sound(object.data, epoch, ordinal)
  BY DEF IInv, StoreInv
<1>3. \A s \in Runs : Sound(m[s], epoch, ordinal)
  BY DEF IInv, RunInv
<1>4. \A q \in late : Sound(q.m, epoch, ordinal)
  BY DEF IInv, LateInv
<1>5. QED
  BY <1>1, <1>2, <1>3, <1>4, SoundStable

\* A run that takes no part keeps its invariant while the object stays.
LEMMA RunFrame ==
  ASSUME NEW s \in Runs, RunInv(s), Same(s), object' = object,
         Sound(m[s], epoch', ordinal')
  PROVE  RunInv(s)'
<1>1. Sound(m[s], epoch, ordinal)'
  BY DEF Same
<1>2. Control(s)'
  BY DEF RunInv, Same, Control, Working, Base, InPut, Location
<1>3. Attempt(s)'
  BY DEF RunInv, Same, Attempt, Base, Location
<1>4. Outstanding(s)'
  BY DEF RunInv, Same, Outstanding, ClaimOf, SetEpoch, GroupOn, Prefix, Log
<1>5. Answered(s)'
  BY DEF RunInv, Same, Answered, InPut, Prefix, Log
<1>6. Landing(s)'
  BY DEF RunInv, Same, Landing, Working, NotLanded, LandedAt, Base, Log
<1>7. Previous(s)'
  BY DEF RunInv, Same, Previous, Base, Log, Location
<1>8. QED
  BY <1>1, <1>2, <1>3, <1>4, <1>5, <1>6, <1>7 DEF RunInv

\* An abandoned PUT stays harmless while the object stays, if its run does
\* not become idle and keeps the group it works on.
LEMMA LateFrame ==
  ASSUME NEW q, LateInv(q), object' = object,
         Sound(q.m, epoch', ordinal'),
         LateCommit(q) =>
           /\ epoch'[q.run] = epoch[q.run] /\ pc'[q.run] # "idle"
           /\ Working(q.run)' =>
                /\ Working(q.run) /\ plans'[q.run] = plans[q.run]
                /\ unknown[q.run] => unknown'[q.run]
  PROVE  LateInv(q)'
<1>1. LateCommit(q) => LateCommit(q)'
  BY ZenonT(30) DEF LateCommit, GroupOn, Prefix, Log, Working
<1>2. ClaimOf(q.m) => ClaimOf(q.m)'
  BY DEF ClaimOf, SetEpoch
<1>3. QED
  BY <1>1, <1>2 DEF LateInv

\* The request a run is waiting for satisfies the late invariant once the
\* run gives it up, if a commit's run then knows that it may still land.
LEMMA NewLate ==
  ASSUME IInv, TypeOK', NEW r \in Runs, object' = object, epoch' = epoch, ordinal' = ordinal,
         NEW q, q = Request(r), InPut(r), reply[r] = "none", pc'[r] # "idle",
         Working(r)' => Working(r) /\ plans'[r] = plans[r] /\ unknown'[r] = TRUE
  PROVE  LateInv(q)'
<1>1. q.run = r /\ q.ver = ver[r] /\ q.m = m[r]
  BY DEF Request
<1>2. /\ Sound(m[r], epoch, ordinal) /\ Control(r) /\ Attempt(r) /\ Outstanding(r)
  BY DEF IInv, RunInv
<1>3. ver[r] <= object.etag
  BY <1>2 DEF Outstanding, InPut
<1>4. ASSUME ver[r] = object.etag, pc[r] = "claimPut"
      PROVE  m[r] = SetEpoch(object.data, object.data.epoch + 1)
  BY <1>2, <1>4 DEF Outstanding, ClaimOf
<1>5. ASSUME ver[r] = object.etag, pc[r] = "commitPut"
      PROVE  /\ Len(m[r].entries) > Len(Log)
             /\ GroupOn(m[r], Len(m[r].entries) - Len(Log))
             /\ m[r].epoch = epoch[r]
             /\ \A j \in Len(Log) + 1..Len(m[r].entries) : m[r].entries[j].Location.run = r
             /\ Len(m[r].entries) = Len(Log) + Len(plans[r])
             /\ \A i \in 1..Len(plans[r]) :
                  m[r].entries[Len(Log) + i].Location = plans[r][i].Location
  <2> DEFINE n == Len(plans[r])
             l == Len(Log)
  <2>1. /\ n \in Nat /\ n > 0 /\ Len(seqs[r]) = n
        /\ \A i \in 1..n : plans[r][i].Location.run = r
    <3>1. plans[r] \in Seq(Segments)
      BY TypeParts DEF IInv
    <3>2. plans[r] # <<>> /\ Len(seqs[r]) = n
      BY <1>2, <1>5 DEF Control, Working
    <3>3. \A i \in 1..n : plans[r][i].Location = Location(r, Base(r) + i - 1)
      BY <1>2 DEF Control
    <3>4. n \in Nat /\ n > 0
      BY <3>1, <3>2
    <3>5. \A i \in 1..n : plans[r][i].Location.run = r
      BY <3>3, LocationFields, SMTT(30)
    <3>6. QED
      BY <3>2, <3>4, <3>5
  <2>2. GroupOn(m[r], n)
    BY <1>2, <1>5, <2>1 DEF Outstanding
  <2>3. l \in Nat /\ Len(m[r].entries) \in Nat
    BY TypeParts, ManifestShape DEF IInv, Log
  <2>4. Len(m[r].entries) = l + n /\ Len(m[r].entries) > l /\ Len(m[r].entries) - l = n
    BY <2>1, <2>2, <2>3 DEF GroupOn
  <2>5. /\ m[r].epoch = epoch[r]
        /\ \A i \in 1..n : m[r].entries[l + i].Location = plans[r][i].Location
    BY <1>2, <1>5, <2>1, <2>3, <2>4, SMTT(30) DEF Attempt
  <2>6. ASSUME NEW j \in l + 1..Len(m[r].entries) PROVE m[r].entries[j].Location.run = r
    <3>1. j - l \in 1..n /\ j = l + (j - l)
      BY <2>3, <2>4
    <3>2. QED
      BY <2>1, <2>5, <3>1
  <2>7. QED
    BY <2>2, <2>4, <2>5, <2>6
<1>6. ver[r] = object.etag => ClaimOf(q.m)' \/ LateCommit(q)'
  <2>1. CASE pc[r] = "claimPut"
    BY <2>1, <1>1, <1>4 DEF ClaimOf
  <2>2. CASE pc[r] = "commitPut"
    <3>1. ASSUME ver[r] = object.etag PROVE LateCommit(q)'
      <4>1. /\ Len(m[r].entries) > Len(Log)
            /\ GroupOn(m[r], Len(m[r].entries) - Len(Log))
            /\ m[r].epoch = epoch[r]
            /\ \A j \in Len(Log) + 1..Len(m[r].entries) : m[r].entries[j].Location.run = r
            /\ Len(m[r].entries) = Len(Log) + Len(plans[r])
            /\ \A i \in 1..Len(plans[r]) :
                 m[r].entries[Len(Log) + i].Location = plans[r][i].Location
        BY <1>5, <2>2, <3>1
      <4>2. /\ Len(q.m.entries) > Len(Log')
            /\ GroupOn(q.m, Len(q.m.entries) - Len(Log))'
            /\ q.m.epoch = epoch'[q.run]
            /\ \A j \in Len(Log') + 1..Len(q.m.entries) : q.m.entries[j].Location.run = q.run
        BY ZenonT(30), <4>1, <1>1 DEF GroupOn, Log, Prefix
      <4>3. ASSUME Working(q.run)'
            PROVE  /\ unknown'[q.run] = TRUE
                   /\ Len(q.m.entries) = Len(Log') + Len(plans'[q.run])
                   /\ \A i \in 1..Len(plans'[q.run]) :
                         q.m.entries[Len(Log') + i].Location = plans'[q.run][i].Location
        <5>1. Working(r)'
          BY <4>3, <1>1 DEF Working
        <5>2. plans'[q.run] = plans[r] /\ unknown'[q.run] = TRUE /\ Log' = Log
          BY <5>1, <1>1 DEF Log
        <5>3. QED
          BY <5>2, <4>1, <1>1, SMTT(30)
      <4>4. QED
        BY <4>2, <4>3, <1>1 DEF LateCommit
    <3>2. QED
      BY <3>1
  <2>3. QED
    BY <2>1, <2>2 DEF InPut
<1>7. QED
  BY <1>1, <1>2, <1>3, <1>6 DEF LateInv

\* A step of run r that leaves the store alone keeps IInv, if it keeps r's
\* part of it and disturbs no abandoned commit of r.
LEMMA LocalStep ==
  ASSUME IInv, TypeOK', NEW r \in Runs, object' = object,
         \A s \in Runs : epoch[s] # 0 => epoch'[s] = epoch[s],
         \A s \in Runs : ordinal[s] <= ordinal'[s],
         \A s \in Runs \ {r} : Same(s),
         \A q \in late : q.run = r /\ LateCommit(q) =>
           /\ epoch'[r] = epoch[r] /\ pc'[r] # "idle"
           /\ Working(r)' => /\ Working(r) /\ plans'[r] = plans[r]
                             /\ unknown[r] = TRUE => unknown'[r] = TRUE,
         \/ late' \subseteq late
         \/ late' = late \cup {Request(r)} /\ \A q : q = Request(r) => LateInv(q)',
         Holds(r)' \in {Holds(r), 0},
         RunInv(r)', AckedIsDurable'
  PROVE  IInv'
<1>1. /\ Sound(object.data, epoch', ordinal')
      /\ \A s \in Runs : Sound(m[s], epoch', ordinal')
      /\ \A q \in late : Sound(q.m, epoch', ordinal')
  BY SoundFrame
<1>2. StoreInv'
  BY <1>1 DEF IInv, StoreInv
<1>3. \A s \in Runs : RunInv(s)'
  BY <1>1, RunFrame DEF IInv
<1>4. ASSUME NEW q \in late PROVE LateInv(q)'
  <2>1. q.run \in Runs
    BY DEF IInv, TypeOK
  <2>2. CASE q.run = r
    <3>1. LateCommit(q) => (Working(q.run)' => unknown[q.run] = TRUE)
      BY <2>2 DEF LateCommit
    <3>2. LateInv(q) /\ (LateCommit(q) => pc[q.run] # "idle")
      BY DEF IInv, LateCommit
    <3>3. QED
      BY <1>1, <2>2, <3>1, <3>2, LateFrame
  <2>3. CASE q.run # r
    <3>1. Same(q.run)
      BY <2>1, <2>3
    <3>2. LateInv(q) /\ (LateCommit(q) => pc[q.run] # "idle")
      BY DEF IInv, LateCommit
    <3>3. Working(q.run)' => Working(q.run)
      BY <3>1 DEF Same, Working
    <3>4. QED
      BY <1>1, <3>1, <3>2, <3>3, LateFrame DEF Same
  <2>4. QED
    BY <2>2, <2>3
<1>5. \A q \in late' : LateInv(q)'
  <2>1. CASE late' \subseteq late
    BY <2>1, <1>4
  <2>2. CASE ~(late' \subseteq late)
    BY <2>2, <1>4
  <2>3. QED
    BY <2>1, <2>2
<1>6. EpochInv'
  <2>1. \A s \in Runs \ {r} : Holds(s)' = Holds(s)
    BY DEF Same, Holds
  <2>2. \A s \in Runs : Holds(s)' \in {Holds(s), 0}
    BY <2>1
  <2>3. object.data.epoch \in Nat
    BY ManifestShape, TypeParts DEF IInv
  <2> DEFINE h(s) == Holds(s)
             g(s) == Holds(s)'
  <2>4. /\ \A s \in Runs : h(s) <= object.data.epoch
        /\ \A s, t \in Runs : h(s) # 0 /\ h(s) = h(t) => s = t
    BY DEF IInv, EpochInv
  <2>5. \A s \in Runs : g(s) \in {h(s), 0}
    BY <2>2
  <2> HIDE DEF h, g
  <2>6. /\ \A s \in Runs : g(s) <= object.data.epoch
        /\ \A s, t \in Runs : g(s) # 0 /\ g(s) = g(t) => s = t
    BY <2>3, <2>4, <2>5, SMTT(30)
  <2>7. QED
    BY <2>6 DEF g, EpochInv
<1>7. QED
  BY <1>2, <1>3, <1>5, <1>6 DEF IInv

\* The frame of most steps of run r: they leave the store alone, keep the
\* group the run works on, and do not make it idle.
LEMMA CalmStep ==
  ASSUME IInv, TypeOK', NEW r \in Runs,
         object' = object, epoch' = epoch, ordinal' = ordinal, acked' = acked,
         \A s \in Runs \ {r} : Same(s),
         pc'[r] # "idle",
         Working(r)' => /\ Working(r) /\ plans'[r] = plans[r]
                        /\ unknown[r] = TRUE => unknown'[r] = TRUE,
         \/ late' = late
         \/ /\ late' = late \cup {Request(r)} /\ InPut(r) /\ reply[r] = "none"
            /\ Working(r)' => unknown'[r] = TRUE,
         Holds(r)' \in {Holds(r), 0},
         RunInv(r)'
  PROVE  IInv'
<1>1. \A s \in Runs : ordinal[s] <= ordinal'[s]
  BY SMTT(30) DEF IInv, TypeOK
<1>2. AckedIsDurable'
  BY DEF IInv, AckedIsDurable, Log
<1>3. \/ late' = late
      \/ late' = late \cup {Request(r)} /\ \A q : q = Request(r) => LateInv(q)'
  BY NewLate
<1>4. QED
  BY <1>1, <1>2, <1>3, LocalStep

-----------------------------------------------------------------------------
(* What the common parts of the steps do.                                  *)

\* Return ends the call of run r and touches no other run.
LEMMA ReturnFacts ==
  ASSUME TypeOK, NEW r \in Runs, NEW to, Return(r, to)
  PROVE  /\ pc'[r] = to /\ plans'[r] = <<>> /\ unknown'[r] = FALSE
         /\ \A s \in Runs \ {r} :
              pc'[s] = pc[s] /\ unknown'[s] = unknown[s] /\ plans'[s] = plans[s]
  BY DEF TypeOK, Return

\* DropAttempt ends the attempt of run r and touches no other run.
LEMMA DropFacts ==
  ASSUME TypeOK, NEW r \in Runs, DropAttempt(r)
  PROVE  /\ m'[r] = NewManifest /\ reply'[r] = "none" /\ seqs'[r] = <<>>
         /\ \A s \in Runs \ {r} :
              m'[s] = m[s] /\ ver'[s] = ver[s] /\ reply'[s] = reply[s] /\ seqs'[s] = seqs[s]
  BY DEF TypeOK, DropAttempt

\* Another round of the claim loop touches no other run.
LEMMA ClaimAgainFacts ==
  ASSUME TypeOK, NEW r \in Runs, ClaimAgain(r)
  PROVE  /\ pc'[r] = "claim" /\ plans' = plans /\ unknown' = unknown
         /\ \A s \in Runs \ {r} : pc'[s] = pc[s]
  BY DEF TypeOK, ClaimAgain

\* A counted failure of a commit retries it or halts its run.
LEMMA TransientFacts ==
  ASSUME TypeOK, NEW r \in Runs, NEW u \in BOOLEAN, Transient(r, u)
  PROVE  /\ \/ pc'[r] = "load" /\ plans'[r] = plans[r] /\ unknown'[r] = u
            \/ pc'[r] = "halted" /\ plans'[r] = <<>>
         /\ \A s \in Runs \ {r} :
              pc'[s] = pc[s] /\ unknown'[s] = unknown[s] /\ plans'[s] = plans[s]
<1>1. CASE Halt(r)
  BY <1>1, ReturnFacts DEF Halt
<1>2. CASE ~Halt(r)
  <2>1. /\ pc' = [pc EXCEPT ![r] = "load"] /\ unknown' = [unknown EXCEPT ![r] = u]
        /\ plans' = plans
    BY <1>2 DEF Transient
  <2>2. QED
    BY <2>1 DEF TypeOK
<1>3. QED
  BY <1>1, <1>2

\* The run of a claim that has not returned holds no epoch and has no group.
LEMMA ClaimingFacts ==
  ASSUME IInv, NEW r \in Runs, pc[r] \in {"claim", "claimPut"}
  PROVE  /\ epoch[r] = 0 /\ ordinal[r] = 0 /\ plans[r] = <<>> /\ seqs[r] = <<>>
         /\ pc[r] = "claim" => reply[r] = "none"
  BY DEF IInv, RunInv, Control, Working, InPut

-----------------------------------------------------------------------------
(* Kinds of steps that leave the store alone.                              *)

\* A PUT answered that it did not land keeps IInv.
LEMMA RefusedStep ==
  ASSUME IInv, TypeOK', NEW r \in Runs, InPut(r), reply[r] = "none",
         NEW x \in {"conflict", "exists", "precondition"},
         reply' = [reply EXCEPT ![r] = x],
         UNCHANGED <<object, late, pc, epoch, ordinal, m, ver, seqs, callVars, acked>>
  PROVE  IInv'
<1>1. /\ \A s \in Runs \ {r} : Same(s)
      /\ reply'[r] \notin {"none", "ok"}
      /\ pc' = pc /\ plans' = plans /\ unknown' = unknown /\ epoch' = epoch
      /\ ordinal' = ordinal /\ m' = m /\ ver' = ver /\ seqs' = seqs
      /\ object' = object /\ late' = late /\ acked' = acked
  BY DEF IInv, TypeOK, Same, callVars
<1>2. RunInv(r)
  BY DEF IInv
<1>3. Control(r)' /\ Sound(m[r], epoch, ordinal)' /\ Attempt(r)'
  BY ZenonT(30), <1>1, <1>2 DEF RunInv, Control, Working, Base, InPut, Location, Attempt
<1>4. Outstanding(r)' /\ Answered(r)' /\ Previous(r)'
  BY <1>1, <1>2 DEF RunInv, Outstanding, Answered, Previous, Base, Log, Location
<1>5. Landing(r)'
  BY <1>1, <1>2 DEF RunInv, Landing, Working, NotLanded, LandedAt, Base, Log
<1>6. RunInv(r)'
  BY <1>3, <1>4, <1>5 DEF RunInv
<1>7. pc[r] # "idle" /\ (Working(r)' => Working(r))
  BY <1>1 DEF InPut, Working
<1>8. Holds(r)' \in {Holds(r), 0}
  BY <1>1 DEF Holds
<1>9. QED
  BY <1>1, <1>6, <1>7, <1>8, CalmStep

\* While a group is in the log, no abandoned PUT of its run can land.
LEMMA NoLateAfterLanding ==
  ASSUME IInv, NEW r \in Runs, Working(r),
         \A i \in 1..Len(plans[r]) : \E j \in DOMAIN Log : Log[j].Location = plans[r][i].Location,
         NEW q \in late, q.run = r
  PROVE  ~LateCommit(q)
<1>1. SUFFICES ASSUME LateCommit(q) PROVE FALSE
  OBVIOUS
<1>2. /\ q.m \in Manifests /\ Len(Log) \in Nat /\ DOMAIN Log = 1..Len(Log)
      /\ plans[r] \in Seq(Segments) /\ plans[r] # <<>> /\ Unique(q.m)
  <2>1. object.data \in Manifests /\ q.m \in Manifests /\ plans[r] \in Seq(Segments)
    BY DEF IInv, TypeOK
  <2>2. Len(Log) \in Nat /\ DOMAIN Log = 1..Len(Log)
    BY <2>1, ManifestShape DEF Log
  <2>3. plans[r] # <<>> /\ Unique(q.m)
    BY DEF IInv, RunInv, Control, LateInv, Sound
  <2>4. QED
    BY <2>1, <2>2, <2>3
<1>3. Len(plans[r]) \in Nat /\ 1 \in 1..Len(plans[r])
  BY <1>2, SMTT(30)
<1>4. /\ Len(q.m.entries) = Len(Log) + Len(plans[r])
      /\ q.m.entries[Len(Log) + 1].Location = plans[r][1].Location
      /\ \A j \in 1..Len(Log) : q.m.entries[j] = Log[j]
  BY <1>1, <1>3 DEF LateCommit, GroupOn, Prefix
<1>5. PICK j \in 1..Len(Log) : Log[j].Location = plans[r][1].Location
  BY <1>2, <1>3
<1>6. DOMAIN q.m.entries = 1..Len(q.m.entries)
  BY <1>2, ManifestShape
<1>7. j \in DOMAIN q.m.entries /\ Len(Log) + 1 \in DOMAIN q.m.entries /\ j # Len(Log) + 1
  BY <1>2, <1>3, <1>4, <1>6, SMTT(30)
<1>8. QED
  BY <1>2, <1>4, <1>5, <1>7, SMTT(30) DEF Unique

\* A commit whose whole group is in the log may return success.
LEMMA IdleStep ==
  ASSUME IInv, TypeOK', NEW r \in Runs, object' = object, epoch' = epoch,
         ordinal' = ordinal, late' = late, \A s \in Runs \ {r} : Same(s),
         Working(r), pc'[r] = "idle",
         plans'[r] = <<>>, seqs'[r] = <<>>, reply'[r] = "none",
         m'[r] \in {m[r], NewManifest},
         \A i \in 1..Len(plans[r]) : \E j \in DOMAIN Log : Log[j].Location = plans[r][i].Location,
         AckedIsDurable'
  PROVE  IInv'
<1>1. /\ RunInv(r) /\ ordinal[r] \in Nat /\ Len(<<>>) = 0 /\ epoch[r] \in Nat
      /\ plans[r] \in Seq(Segments) /\ plans[r] # <<>> /\ epoch[r] > 0
  BY TypeParts DEF IInv, RunInv, Control, Working
<1>2. Sound(m'[r], epoch, ordinal)
  BY NewManifestSound DEF IInv, RunInv
<1>3. Base(r)' = ordinal[r]
  BY <1>1, SMTT(30) DEF Base
<1>4. Control(r)'
  BY <1>1, <1>3, SMTT(30) DEF Control, Working, InPut
<1>5. Attempt(r)' /\ Outstanding(r)' /\ Answered(r)' /\ Landing(r)'
  BY DEF Attempt, Outstanding, Answered, Landing, Working, InPut
<1>6. Previous(r)'
  <2>1. Len(plans[r]) \in 1..Len(plans[r])
    BY <1>1
  <2>2. plans[r][Len(plans[r])].Location = Location(r, Base(r) + Len(plans[r]) - 1)
    BY <1>1, <2>1 DEF RunInv, Control
  <2>3. Base(r) + Len(plans[r]) - 1 = ordinal[r] - 1
    BY <1>1, SMTT(30) DEF Base
  <2>4. \E j \in DOMAIN Log : Log[j].Location = Location(r, ordinal[r] - 1)
    BY <2>1, <2>2, <2>3
  <2>5. QED
    BY <1>3, <2>4 DEF Previous, Log, Location
<1>7. RunInv(r)'
  BY <1>2, <1>4, <1>5, <1>6 DEF RunInv
<1>8. \A q \in late : q.run = r => ~LateCommit(q)
  BY NoLateAfterLanding
<1>9. Holds(r)' \in {Holds(r), 0}
  BY <1>1 DEF Holds
<1>10. \A s \in Runs : ordinal[s] <= ordinal'[s]
  BY SMTT(30) DEF IInv, TypeOK
<1>11. QED
  BY ZenonT(30), <1>7, <1>8, <1>9, <1>10, LocalStep

-----------------------------------------------------------------------------
(* A PUT that reaches the store, in time or late, keeps IInv.              *)

\* The manifest mf of run w lands: a claim, or a commit of the log's owner.
Lands(w, mf) ==
  /\ mf \in Manifests /\ Sound(mf, epoch, ordinal)
  /\ object' = [exists |-> TRUE, etag |-> object.etag + 1, data |-> mf]
  /\ Prefix(Log, mf.entries)
  /\ \/ mf.epoch = object.data.epoch + 1 /\ Len(mf.entries) = Len(Log)
     \/ /\ mf.epoch = object.data.epoch /\ mf.epoch = epoch[w]
        /\ \A j \in Len(Log) + 1..Len(mf.entries) : mf.entries[j].Location.run = w
  /\ late' \subseteq late
  /\ UNCHANGED <<pc, epoch, ordinal, m, ver, seqs, callVars, acked>>

\* What every landing does to the log.
LEMMA LandsFacts ==
  ASSUME IInv, NEW w \in Runs, NEW mf, Lands(w, mf)
  PROVE  /\ object.data \in Manifests /\ object.etag \in Nat /\ Len(Log) \in Nat
         /\ object'.exists = TRUE /\ object'.etag = object.etag + 1 /\ object'.data = mf
         /\ Log' = mf.entries /\ Len(Log') \in Nat /\ Len(Log) <= Len(Log')
         /\ DOMAIN Log = 1..Len(Log) /\ DOMAIN Log' = 1..Len(Log')
         /\ \A j \in 1..Len(Log) : j \in 1..Len(Log') /\ Log'[j] = Log[j]
         /\ object.data.epoch \in Nat /\ mf.epoch \in Nat /\ object.data.epoch <= mf.epoch
         /\ pc' = pc /\ epoch' = epoch /\ ordinal' = ordinal /\ m' = m /\ ver' = ver
         /\ seqs' = seqs /\ plans' = plans /\ unknown' = unknown /\ acked' = acked
<1>1. /\ object.data \in Manifests /\ object.etag \in Nat
  BY TypeParts DEF IInv
<1>2. object'.exists = TRUE /\ object'.etag = object.etag + 1 /\ object'.data = mf
  BY DEF Lands
<1>3. Log' = mf.entries
  BY <1>2 DEF Log
<1>4. /\ mf \in Manifests /\ Len(Log) <= Len(mf.entries)
      /\ \A j \in 1..Len(Log) : mf.entries[j] = Log[j]
  BY DEF Lands, Prefix
<1>5. /\ Len(Log) \in Nat /\ DOMAIN Log = 1..Len(Log) /\ object.data.epoch \in Nat
      /\ Len(mf.entries) \in Nat /\ DOMAIN mf.entries = 1..Len(mf.entries) /\ mf.epoch \in Nat
  BY <1>1, <1>4, ManifestShape DEF Log
<1>6. object.data.epoch <= mf.epoch
  BY <1>5 DEF Lands
<1>7. /\ pc' = pc /\ epoch' = epoch /\ ordinal' = ordinal /\ m' = m /\ ver' = ver
      /\ seqs' = seqs /\ plans' = plans /\ unknown' = unknown /\ acked' = acked
  BY DEF Lands, callVars
<1>8. \A j \in 1..Len(Log) : j \in 1..Len(mf.entries)
  BY <1>4, <1>5
<1>9. QED
  BY <1>1, <1>2, <1>3, <1>4, <1>5, <1>6, <1>7, <1>8

\* The store, the acknowledgements and the other abandoned PUTs survive it:
\* the old ETag is gone.
LEMMA LandsGlobal ==
  ASSUME IInv, TypeOK', NEW w \in Runs, NEW mf, Lands(w, mf)
  PROVE  StoreInv' /\ AckedIsDurable' /\ \A q \in late' : LateInv(q)'
<1>1. StoreInv'
  BY LandsFacts, SMTT(30) DEF Lands, StoreInv
<1>2. AckedIsDurable'
  <2>1. /\ DOMAIN Log = 1..Len(Log) /\ DOMAIN Log' = 1..Len(Log') /\ acked' = acked
        /\ \A j \in 1..Len(Log) : j \in 1..Len(Log') /\ Log'[j] = Log[j]
    BY LandsFacts
  <2>2. QED
    BY <2>1 DEF IInv, AckedIsDurable
<1>3. ASSUME NEW q \in late' PROVE LateInv(q)'
  <2>1. q \in late /\ q.ver \in Nat /\ q.ver <= object.etag /\ Sound(q.m, epoch, ordinal)
    BY DEF Lands, IInv, TypeOK, LateInv
  <2>2. /\ object.etag \in Nat /\ object'.etag = object.etag + 1
        /\ epoch' = epoch /\ ordinal' = ordinal
    BY LandsFacts
  <2>3. q.ver <= object'.etag /\ q.ver # object'.etag
    BY <2>1, <2>2
  <2>4. QED
    BY <2>1, <2>2, <2>3 DEF LateInv
<1>4. QED
  BY <1>1, <1>2, <1>3

\* A run whose PUT is not the one that lands keeps its invariant, except
\* perhaps for what it knows about its group.
LEMMA LandsRun ==
  ASSUME IInv, TypeOK', NEW w \in Runs, NEW mf, Lands(w, mf),
         NEW s \in Runs, reply'[s] = reply[s]
  PROVE  Landing(s)' => RunInv(s)'
<1>1. RunInv(s)
  BY DEF IInv
<1>2. /\ pc' = pc /\ epoch' = epoch /\ ordinal' = ordinal /\ m' = m /\ ver' = ver
      /\ seqs' = seqs /\ plans' = plans
  BY LandsFacts
<1>3. /\ object.etag \in Nat /\ object'.etag = object.etag + 1 /\ object'.data.epoch = mf.epoch
      /\ Len(Log) \in Nat /\ Len(Log') \in Nat /\ Len(Log) <= Len(Log')
      /\ DOMAIN Log = 1..Len(Log) /\ DOMAIN Log' = 1..Len(Log')
      /\ \A j \in 1..Len(Log) : j \in 1..Len(Log') /\ Log'[j] = Log[j]
      /\ object.data.epoch \in Nat /\ mf.epoch \in Nat /\ object.data.epoch <= mf.epoch
  BY LandsFacts
<1>4. Sound(m[s], epoch, ordinal)'
  BY <1>1, <1>2 DEF RunInv
<1>5. Control(s)' /\ Attempt(s)'
  BY <1>1, <1>2 DEF RunInv, Control, Working, Base, InPut, Location, Attempt
<1>6. Outstanding(s)'
  <2>1. ver[s] \in Nat
    BY TypeParts DEF IInv
  <2>2. ASSUME ver[s] <= object.etag PROVE ver[s] <= object'.etag /\ ver[s] # object'.etag
    BY <2>1, <2>2, <1>3
  <2>3. QED
    BY <1>1, <1>2, <2>2 DEF RunInv, Outstanding
<1>7. Answered(s)'
  <2>1. Len(m[s].entries) \in Nat /\ m[s].epoch \in Nat
    BY TypeParts, ManifestShape DEF IInv
  <2>2. ASSUME Prefix(m[s].entries, Log) PROVE Prefix(m[s].entries, Log')
    <3>1. \A j \in 1..Len(m[s].entries) : j \in 1..Len(Log)
      BY <2>1, <2>2, <1>3 DEF Prefix
    <3>2. QED
      BY <2>1, <2>2, <3>1, <1>3 DEF Prefix
  <2>3. m[s].epoch <= object.data.epoch => m[s].epoch <= object'.data.epoch
    BY <2>1, <1>3
  <2>4. QED
    BY <1>1, <1>2, <2>2, <2>3 DEF RunInv, Answered, InPut, Prefix
<1>8. Previous(s)'
  BY <1>1, <1>2, <1>3 DEF RunInv, Previous, Base, Location
<1>9. QED
  BY <1>4, <1>5, <1>6, <1>7, <1>8 DEF RunInv

\* What another run knows about its group stays true: only the owner of the
\* log commits, and no other run holds its epoch.
LEMMA LandsLanding ==
  ASSUME IInv, TypeOK', NEW w \in Runs, NEW mf, Lands(w, mf),
         NEW s \in Runs, reply'[s] = reply[s],
         s # w \/ mf.epoch = object.data.epoch + 1
  PROVE  Landing(s)'
<1>1. /\ pc' = pc /\ epoch' = epoch /\ ordinal' = ordinal
      /\ plans' = plans /\ unknown' = unknown
  BY LandsFacts
<1>2. /\ object'.data.epoch = mf.epoch /\ object.data.epoch \in Nat
      /\ Len(Log) \in Nat /\ Len(Log') \in Nat /\ Len(Log) <= Len(Log') /\ Log' = mf.entries
      /\ DOMAIN Log = 1..Len(Log) /\ DOMAIN Log' = 1..Len(Log')
      /\ \A j \in 1..Len(Log) : j \in 1..Len(Log') /\ Log'[j] = Log[j]
  BY LandsFacts
<1>3. /\ Control(s) /\ Landing(s) /\ epoch[s] \in Nat /\ epoch[w] \in Nat
      /\ plans[s] \in Seq(Segments) /\ Len(plans[s]) \in Nat
  BY TypeParts DEF IInv, RunInv
<1>4. SUFFICES ASSUME Working(s) PROVE Landing(s)'
  BY <1>1 DEF Landing, Working
<1>5. epoch[s] > 0 /\ epoch[s] <= object.data.epoch
  <2>1. epoch[s] > 0
    BY <1>3, <1>4 DEF Control, Working
  <2>2. Holds(s) = epoch[s]
    BY <1>3, <2>1 DEF Holds
  <2>3. QED
    BY <2>1, <2>2 DEF IInv, EpochInv
<1>6. mf.epoch # epoch[s]
  <2>1. CASE mf.epoch = object.data.epoch + 1
    BY <2>1, <1>2, <1>3, <1>5
  <2>2. CASE s # w /\ mf.epoch # object.data.epoch + 1
    <3>1. mf.epoch = epoch[w]
      BY <2>2 DEF Lands
    <3>2. epoch[w] = epoch[s] => Holds(w) = epoch[w] /\ Holds(s) = epoch[w]
      BY <1>3, <1>5 DEF Holds
    <3>3. epoch[w] = epoch[s] => w = s
      BY <3>2, <1>3, <1>5 DEF IInv, EpochInv
    <3>4. QED
      BY <2>2, <3>1, <3>3
  <2>3. QED
    BY <2>1, <2>2
<1>7. CASE NotLanded(s)
  <2>1. ASSUME NEW j \in 1..Len(Log'), Log'[j].Location.run = s
        PROVE  j \in 1..Len(Log)
    <3>1. CASE Len(mf.entries) = Len(Log)
      BY <3>1, <1>2
    <3>2. CASE Len(mf.entries) # Len(Log)
      <4>1. /\ s # w
            /\ \A i \in Len(Log) + 1..Len(mf.entries) : mf.entries[i].Location.run = w
        BY <3>2, <1>2, SMTT(30) DEF Lands
      <4>2. j \in 1..Len(Log) \/ j \in Len(Log) + 1..Len(mf.entries)
        BY <1>2, SMTT(30)
      <4>3. QED
        BY <2>1, <4>1, <4>2, <1>2
    <3>3. QED
      BY <3>1, <3>2
  <2>2. \A j \in 1..Len(Log') : Log'[j].Location.run = s => Log'[j].Location.ordinal < Base(s)
    BY <1>2, <1>7, <2>1 DEF NotLanded
  <2>3. QED
    BY <1>1, <1>2, <2>2 DEF Landing, NotLanded, Base
<1>8. CASE (unknown[s] \/ reply[s] = "ok") /\ \E k \in 0..Len(Log) : LandedAt(s, k)
  <2>1. PICK k \in 0..Len(Log) : LandedAt(s, k)
    BY <1>8
  <2> DEFINE n == Len(plans[s])
             l == Len(Log)
             l2 == Len(Log')
  <2>2. /\ k \in 0..l /\ l \in Nat /\ l2 \in Nat /\ n \in Nat /\ l <= l2 /\ k + n <= l
    BY <1>2, <1>3, <2>1 DEF LandedAt
  <2>3. k \in 0..l2 /\ k + n <= l2 /\ \A i \in 1..n : k + i \in 1..l
    <3> HIDE DEF n, l, l2
    <3>1. QED
      BY <2>2
  <2>4. ASSUME NEW i \in 1..Len(plans[s]) PROVE Log'[k + i].Location = plans[s][i].Location
    BY <1>2, <2>1, <2>3 DEF LandedAt
  <2>5. LandedAt(s, k)'
    BY <1>1, <1>2, <1>6, <2>3, <2>4 DEF LandedAt
  <2>6. QED
    BY <1>1, <1>8, <2>3, <2>5 DEF Landing
<1>9. QED
  BY <1>3, <1>4, <1>7, <1>8 DEF Landing

\* The run whose whole group lands at the end of the log knows it may have.
LEMMA LandsOwnGroup ==
  ASSUME IInv, TypeOK', NEW r \in Runs, NEW mf, Lands(r, mf),
         unknown'[r] = TRUE \/ reply'[r] = "ok",
         Len(mf.entries) = Len(Log) + Len(plans[r]),
         \A i \in 1..Len(plans[r]) : mf.entries[Len(Log) + i].Location = plans[r][i].Location
  PROVE  Landing(r)'
<1>1. plans' = plans /\ Log' = mf.entries /\ Len(Log) \in Nat /\ Len(Log') \in Nat
  BY LandsFacts
<1>2. Len(plans[r]) \in Nat
  BY TypeParts, SMTT(30) DEF IInv
<1>3. Len(Log) \in 0..Len(Log')
  BY <1>1, <1>2
<1>4. \A k : k = Len(Log) => LandedAt(r, k)'
  BY <1>1, <1>2 DEF LandedAt
<1>5. QED
  BY <1>3, <1>4 DEF Landing

\* A PUT that lands while its run waits for the answer keeps IInv.
LEMMA LandsAnswered ==
  ASSUME IInv, TypeOK', NEW r \in Runs, NEW mf, mf = m[r], Lands(r, mf),
         InPut(r), reply[r] = "none",
         reply'[r] = "ok", \A s \in Runs \ {r} : reply'[s] = reply[s],
         Landing(r)'
  PROVE  IInv'
<1>1. StoreInv' /\ AckedIsDurable' /\ \A q \in late' : LateInv(q)'
  BY LandsGlobal
<1>2. \A s \in Runs \ {r} : RunInv(s)'
  BY LandsRun, LandsLanding
<1>3. /\ pc' = pc /\ epoch' = epoch /\ ordinal' = ordinal /\ m' = m /\ ver' = ver
      /\ seqs' = seqs /\ plans' = plans
  BY LandsFacts
<1>4. /\ Log' = m'[r].entries /\ object'.data.epoch = m'[r].epoch /\ m'[r].epoch \in Nat
      /\ Len(Log') \in Nat /\ DOMAIN Log = 1..Len(Log) /\ DOMAIN Log' = 1..Len(Log')
      /\ \A j \in 1..Len(Log) : j \in 1..Len(Log') /\ Log'[j] = Log[j]
  BY <1>3, LandsFacts
<1>5. RunInv(r)'
  <2>1. RunInv(r)
    BY DEF IInv
  <2>2. Control(r)' /\ Attempt(r)'
    BY <1>3, <2>1 DEF RunInv, Control, Working, Base, InPut, Location, Attempt
  <2>3. Sound(m[r], epoch, ordinal)'
    BY <1>3, <2>1 DEF RunInv
  <2>4. Outstanding(r)'
    BY DEF Outstanding
  <2>5. Answered(r)'
    BY <1>4, SMTT(30) DEF Answered, Prefix
  <2>6. Previous(r)'
    BY <1>3, <1>4, <2>1 DEF RunInv, Previous, Base, Location
  <2>7. QED
    BY <2>2, <2>3, <2>4, <2>5, <2>6 DEF RunInv
<1>6. EpochInv'
  <2>1. \A s \in Runs \ {r} : Holds(s)' = Holds(s)
    BY <1>3 DEF Holds
  <2>2. Holds(r)' = Holds(r) \/ (Holds(r)' = mf.epoch /\ mf.epoch = object.data.epoch + 1)
    <3>1. CASE pc[r] = "claimPut"
      <4>1. epoch[r] = 0
        BY <3>1, ClaimingFacts
      <4>2. Holds(r)' = mf.epoch
        BY <3>1, <4>1, <1>3 DEF Holds
      <4>3. mf.epoch > 0
        BY <3>1 DEF IInv, RunInv, Control
      <4>4. mf.epoch = object.data.epoch + 1
        BY <4>1, <4>3, SMTT(30) DEF Lands
      <4>5. QED
        BY <4>2, <4>4
    <3>2. CASE pc[r] # "claimPut"
      BY <3>2, <1>3 DEF Holds
    <3>3. QED
      BY <3>1, <3>2
  <2>3. object.data.epoch \in Nat /\ object'.data.epoch = mf.epoch /\ object.data.epoch <= mf.epoch
        /\ mf.epoch \in Nat
    BY LandsFacts
  <2> DEFINE h(s) == Holds(s)
             g(s) == Holds(s)'
  <2>4. /\ \A s \in Runs : h(s) <= object.data.epoch
        /\ \A s, t \in Runs : h(s) # 0 /\ h(s) = h(t) => s = t
    BY DEF IInv, EpochInv
  <2>5. \A s \in Runs : h(s) \in Nat
    BY TypeParts, ManifestShape DEF IInv, Holds
  <2>6. /\ \A s \in Runs \ {r} : g(s) = h(s)
        /\ g(r) = h(r) \/ (g(r) = mf.epoch /\ mf.epoch = object.data.epoch + 1)
    BY <2>1, <2>2
  <2> HIDE DEF h, g
  <2>7. \A s \in Runs : g(s) <= mf.epoch
    BY <2>3, <2>4, <2>5, <2>6, SMTT(30)
  <2>8. \A s, t \in Runs : g(s) # 0 /\ g(s) = g(t) => s = t
    <3>1. CASE g(r) = h(r)
      BY <3>1, <2>4, <2>6, ZenonT(30)
    <3>2. CASE g(r) = mf.epoch /\ mf.epoch = object.data.epoch + 1
      <4>1. \A s \in Runs \ {r} : g(s) # g(r)
        BY <3>2, <2>3, <2>4, <2>5, <2>6, SMTT(30)
      <4>2. QED
        BY <4>1, <2>4, <2>6
    <3>3. QED
      BY <3>1, <3>2, <2>6
  <2>9. QED
    BY <2>3, <2>7, <2>8 DEF g, EpochInv
<1>7. QED
  BY <1>1, <1>2, <1>5, <1>6 DEF IInv

\* A claim that lands was made from the stored manifest.
LEMMA ClaimLands ==
  ASSUME IInv, NEW mf, ClaimOf(mf)
  PROVE  /\ mf \in Manifests /\ mf.epoch = object.data.epoch + 1
         /\ mf.entries = Log /\ Prefix(Log, mf.entries)
<1>1. object.data \in Manifests /\ object.data.epoch + 1 \in Nat
  <2>1. object.data \in Manifests
    BY DEF IInv, TypeOK
  <2>2. QED
    BY <2>1, ManifestShape
<1>2. /\ mf \in Manifests /\ mf.epoch = object.data.epoch + 1 /\ mf.entries = Log
  BY <1>1, SetEpochFacts DEF ClaimOf, Log
<1>3. Len(Log) \in Nat
  BY <1>1, ManifestShape DEF Log
<1>4. QED
  BY <1>2, <1>3 DEF Prefix

\* Arrive keeps IInv.
LEMMA ArriveStep ==
  ASSUME IInv, TypeOK', NEW r \in Runs, Arrive(r)
  PROVE  IInv'
<1>1. /\ InPut(r) /\ reply[r] = "none"
      /\ reply' = [reply EXCEPT ![r] = PutResult(object, ver[r])]
      /\ object' = PutOpts(object, ver[r], m[r])
      /\ UNCHANGED <<late, pc, epoch, ordinal, m, ver, seqs, callVars, acked>>
  BY DEF Arrive
<1>2. /\ TypeOK /\ RunInv(r)
      /\ object.exists <=> object.etag # 0
      /\ object \in [exists : BOOLEAN, etag : Nat, data : Manifests]
      /\ ver[r] \in Nat /\ m[r] \in Manifests
  BY DEF IInv, StoreInv, TypeOK
<1>3. CASE ver[r] # object.etag
  <2>1. PutResult(object, ver[r]) \in {"exists", "precondition"} /\ object' = object
    BY <1>1, <1>2, <1>3, PutFacts, SMTT(30)
  <2>2. PICK x \in {"conflict", "exists", "precondition"} : x = PutResult(object, ver[r])
    BY <2>1
  <2>3. reply' = [reply EXCEPT ![r] = x]
    BY <1>1, <2>2
  <2>4. QED
    BY <1>1, <2>1, <2>3, RefusedStep
<1>4. CASE ver[r] = object.etag
  <2>1. PICK mf : mf = m[r]
    OBVIOUS
  <2>2. /\ reply'[r] = "ok" /\ \A s \in Runs \ {r} : reply'[s] = reply[s]
        /\ object' = [exists |-> TRUE, etag |-> object.etag + 1, data |-> mf]
    <3>1. /\ PutResult(object, ver[r]) = "ok"
          /\ object' = [exists |-> TRUE, etag |-> object.etag + 1, data |-> mf]
      <4>1. /\ PutResult(object, ver[r]) = "ok"
            /\ PutOpts(object, ver[r], m[r]) =
                 [exists |-> TRUE, etag |-> object.etag + 1, data |-> m[r]]
        BY <1>2, <1>4 DEF PutResult, PutOpts, NoVersion
      <4>2. QED
        BY <1>1, <2>1, <4>1
    <3>2. QED
      BY <1>1, <1>2, <3>1 DEF TypeOK
  <2>3. mf \in Manifests /\ Sound(mf, epoch, ordinal) /\ Outstanding(r)
    BY <1>2, <2>1 DEF RunInv
  <2>4. CASE pc[r] = "claimPut"
    <3>1. ClaimOf(mf)
      BY <1>1, <1>4, <2>1, <2>3, <2>4 DEF Outstanding
    <3>2. Lands(r, mf)
      BY <1>1, <2>2, <2>3, <3>1, ClaimLands DEF Lands
    <3>3. Landing(r)'
      BY <1>1, <2>4 DEF Landing, Working
    <3>4. QED
      BY <1>1, <2>1, <2>2, <3>2, <3>3, LandsAnswered
  <2>5. CASE pc[r] = "commitPut"
    <3> DEFINE n == Len(plans[r])
               l == Len(Log)
    <3>1. /\ n \in Nat /\ l \in Nat /\ Len(seqs[r]) = n
          /\ \A i \in 1..n : plans[r][i].Location.run = r
      <4>1. plans[r] \in Seq(Segments) /\ object.data \in Manifests /\ Len(seqs[r]) = n
        BY <1>2, <2>5, TypeParts DEF RunInv, Control
      <4>2. \A i \in 1..n : plans[r][i].Location = Location(r, Base(r) + i - 1)
        BY <1>2 DEF RunInv, Control
      <4>3. QED
        BY <4>1, <4>2, LocationFields, ManifestShape, SMTT(30) DEF Log
    <3>2. GroupOn(mf, n)
      BY <1>1, <1>4, <2>1, <2>3, <2>5, <3>1 DEF Outstanding
    <3>3. /\ Prefix(Log, mf.entries) /\ Len(mf.entries) = l + n
          /\ mf.epoch = object.data.epoch
      BY <3>2 DEF GroupOn
    <3>4. Len(mf.entries) - n = l
      BY <3>1, <3>3
    <3>5. /\ mf.epoch = epoch[r]
          /\ \A i \in 1..n : mf.entries[l + i].Location = plans[r][i].Location
      <4>1. /\ m[r].epoch = epoch[r]
            /\ \A i \in 1..Len(seqs[r]) :
                 m[r].entries[Len(m[r].entries) - Len(seqs[r]) + i].Location
                   = plans[r][i].Location
        BY <1>2, <2>5, ZenonT(30) DEF RunInv, Attempt
      <4>2. QED
        BY <2>1, <3>1, <3>4, <4>1
    <3>6. ASSUME NEW j \in l + 1..Len(mf.entries) PROVE mf.entries[j].Location.run = r
      <4>1. j - l \in 1..n /\ j = l + (j - l)
        BY <3>1, <3>3
      <4>2. QED
        BY <3>1, <3>5, <4>1
    <3>7. Lands(r, mf)
      BY <1>1, <2>2, <2>3, <3>3, <3>5, <3>6 DEF Lands
    <3>8. Landing(r)'
      BY <2>2, <3>3, <3>5, <3>7, LandsOwnGroup
    <3>9. QED
      BY <1>1, <2>1, <2>2, <3>7, <3>8, LandsAnswered
  <2>6. QED
    BY <1>1, <2>4, <2>5 DEF InPut
<1>5. QED
  BY <1>3, <1>4

\* The arrival of an abandoned PUT keeps IInv.
LEMMA ArriveLateStep ==
  ASSUME IInv, TypeOK', NEW q \in late, ArriveLate(q)
  PROVE  IInv'
<1>1. /\ late' = late \ {q} /\ object' = PutOpts(object, q.ver, q.m)
      /\ pc' = pc /\ epoch' = epoch /\ ordinal' = ordinal /\ m' = m /\ ver' = ver
      /\ reply' = reply /\ seqs' = seqs /\ unknown' = unknown /\ plans' = plans
      /\ acked' = acked /\ UNCHANGED callVars
  BY DEF ArriveLate, attemptVars, callVars
<1>2. /\ TypeOK
      /\ object.exists <=> object.etag # 0
      /\ object \in [exists : BOOLEAN, etag : Nat, data : Manifests]
      /\ q.run \in Runs /\ q.ver \in Nat /\ q.m \in Manifests /\ LateInv(q)
  BY DEF IInv, StoreInv, TypeOK
<1>3. PICK w \in Runs : w = q.run
  BY <1>2
<1>4. PICK mf : mf = q.m
  OBVIOUS
<1>5. CASE q.ver # object.etag
  <2>1. object' = object
    BY <1>1, <1>2, <1>5, PutFacts, SMTT(30)
  <2>2. \A s \in Runs : Same(s)
    BY <1>1 DEF Same
  <2>3. /\ \A s \in Runs : ordinal[s] <= ordinal'[s]
        /\ \A s \in Runs : Sound(m[s], epoch', ordinal')
    <3>1. \A s \in Runs : ordinal[s] <= ordinal'[s]
      BY <1>1, SMTT(30) DEF IInv, TypeOK
    <3>2. QED
      BY <1>1, <3>1 DEF IInv, RunInv
  <2>4. RunInv(w)'
    BY <2>1, <2>2, <2>3, RunFrame DEF IInv
  <2>5. AckedIsDurable'
    BY <1>1, <2>1 DEF IInv, AckedIsDurable, Log
  <2>6. Holds(w)' = Holds(w)
    BY <1>1 DEF Holds
  <2>7. \A p \in late : p.run = w /\ LateCommit(p) => pc'[w] # "idle"
    BY <1>1 DEF LateCommit
  <2>8. Working(w)' => Working(w)
    BY <1>1 DEF Working
  <2>9. QED
    BY <1>1, <2>1, <2>2, <2>3, <2>4, <2>5, <2>6, <2>7, <2>8, LocalStep, ZenonT(30)
<1>6. CASE q.ver = object.etag
  <2>1. object' = [exists |-> TRUE, etag |-> object.etag + 1, data |-> mf]
    <3>1. PutOpts(object, q.ver, q.m) =
            [exists |-> TRUE, etag |-> object.etag + 1, data |-> q.m]
      BY <1>2, <1>6 DEF PutResult, PutOpts, NoVersion
    <3>2. QED
      BY <1>1, <1>4, <3>1
  <2>2. mf \in Manifests /\ Sound(mf, epoch, ordinal) /\ (ClaimOf(mf) \/ LateCommit(q))
    BY <1>2, <1>4, <1>6 DEF LateInv
  <2>3. Lands(w, mf) /\ Landing(w)'
    <3>1. CASE ClaimOf(mf)
      <4>1. Lands(w, mf)
        BY <1>1, <2>1, <2>2, <3>1, ClaimLands DEF Lands
      <4>2. QED
        BY <1>1, <3>1, <4>1, ClaimLands, LandsLanding
    <3>2. CASE LateCommit(q)
      <4>1. /\ Prefix(Log, mf.entries) /\ mf.epoch = object.data.epoch /\ mf.epoch = epoch[w]
            /\ \A j \in Len(Log) + 1..Len(mf.entries) : mf.entries[j].Location.run = w
        BY <1>3, <1>4, <3>2 DEF LateCommit, GroupOn
      <4>2. Lands(w, mf)
        BY <1>1, <2>1, <2>2, <4>1 DEF Lands
      <4>3. CASE Working(w)
        <5>1. /\ unknown'[w] = TRUE /\ Len(mf.entries) = Len(Log) + Len(plans[w])
              /\ \A i \in 1..Len(plans[w]) :
                   mf.entries[Len(Log) + i].Location = plans[w][i].Location
          BY <1>1, <1>3, <1>4, <3>2, <4>3, TypeParts DEF LateCommit, IInv
        <5>2. QED
          BY ZenonT(30), <4>2, <5>1, LandsOwnGroup
      <4>4. CASE ~Working(w)
        BY <1>1, <4>2, <4>4 DEF Landing, Working
      <4>5. QED
        BY <4>3, <4>4
    <3>3. QED
      BY <2>2, <3>1, <3>2
  <2>4. StoreInv' /\ AckedIsDurable' /\ \A p \in late' : LateInv(p)'
    BY <2>3, LandsGlobal
  <2>5. \A s \in Runs : RunInv(s)'
    BY <1>1, <2>3, LandsRun, LandsLanding
  <2>6. EpochInv'
    <3>1. \A s \in Runs : Holds(s)' = Holds(s)
      BY <1>1 DEF Holds
    <3>2. /\ object.data.epoch \in Nat /\ object'.data.epoch \in Nat
          /\ object.data.epoch <= object'.data.epoch
      BY <2>3, LandsFacts
    <3>3. \A s \in Runs : Holds(s) \in Nat
      BY TypeParts, ManifestShape DEF IInv, Holds
    <3>4. \A s \in Runs : Holds(s)' <= object'.data.epoch
      BY <3>1, <3>2, <3>3, SMTT(30) DEF IInv, EpochInv
    <3>5. \A s, t \in Runs : Holds(s)' # 0 /\ Holds(s)' = Holds(t)' => s = t
      BY <3>1 DEF IInv, EpochInv
    <3>6. QED
      BY <3>4, <3>5 DEF EpochInv
  <2>7. QED
    BY <2>4, <2>5, <2>6 DEF IInv
<1>7. QED
  BY <1>5, <1>6

=============================================================================
