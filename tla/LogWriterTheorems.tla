------------------------- MODULE LogWriterTheorems --------------------------
(***************************************************************************)
(* What holds of LogWriter for any number of runs, any budgets and any     *)
(* sizes: every step keeps IInv, so IInv is an invariant, and with it      *)
(* every safety property; and LogWriter implements AppendLog.              *)
(***************************************************************************)
EXTENDS LogWriterLemmas

\* A leaf is tried with Zenon, then with SMT.
USE ZenonT(4), SMTT(30)

-----------------------------------------------------------------------------
(* The run that takes the step.                                            *)

\* A run without a call in progress, owning the log or not, satisfies its
\* invariant: it stopped, or it is about to claim.
LEMMA RunStops ==
  ASSUME IInv, TypeOK', NEW r \in Runs, object' = object, epoch' = epoch, ordinal' = ordinal,
         pc'[r] \in {"halted", "down", "claim"},
         pc'[r] = "claim" => epoch[r] = 0 /\ ordinal[r] = 0,
         plans'[r] = <<>>, seqs'[r] = <<>>, reply'[r] = "none",
         Sound(m'[r], epoch, ordinal)
  PROVE  RunInv(r)'
<1>1. ordinal[r] \in Nat /\ Len(<<>>) = 0
  BY TypeParts DEF IInv
<1>2. Control(r)'
  BY <1>1 DEF Control, Working, Base, InPut
<1>3. Attempt(r)' /\ Outstanding(r)' /\ Answered(r)' /\ Landing(r)' /\ Previous(r)'
  BY DEF Attempt, Outstanding, Answered, Landing, Previous, InPut, Working
<1>4. QED
  BY <1>2, <1>3 DEF RunInv

\* A commit that goes on to its next attempt keeps its group, and knows if
\* the attempt may have landed.
LEMMA RunReloads ==
  ASSUME IInv, TypeOK', NEW r \in Runs, object' = object, epoch' = epoch, ordinal' = ordinal,
         Working(r), pc'[r] = "load",
         plans'[r] = plans[r], seqs'[r] = <<>>, reply'[r] = "none",
         unknown[r] = TRUE \/ reply[r] = "ok" => unknown'[r] = TRUE,
         Sound(m'[r], epoch, ordinal)
  PROVE  RunInv(r)'
<1>1. ordinal[r] \in Nat /\ RunInv(r)
  BY TypeParts DEF IInv
<1>2. Control(r)'
  BY <1>1 DEF RunInv, Control, Working, Base, InPut, Location
<1>3. Attempt(r)' /\ Outstanding(r)' /\ Answered(r)'
  BY DEF Attempt, Outstanding, Answered, InPut
<1>4. Landing(r)'
  <2>1. CASE NotLanded(r)
    <3>1. NotLanded(r)'
      BY <2>1 DEF NotLanded, Base, Log
    <3>2. QED
      BY <3>1 DEF Landing
  <2>2. CASE (unknown[r] \/ reply[r] = "ok") /\ \E k \in 0..Len(Log) : LandedAt(r, k)
    <3>1. (\E k \in 0..Len(Log) : LandedAt(r, k))'
      BY <2>2 DEF LandedAt, Log
    <3>2. unknown'[r] = TRUE
      BY <2>2
    <3>3. QED
      BY <3>1, <3>2 DEF Landing
  <2>3. QED
    BY <2>1, <2>2, <1>1 DEF RunInv, Landing
<1>5. Previous(r)'
  BY <1>1 DEF RunInv, Previous, Working, Base, Log, Location
<1>6. QED
  BY <1>2, <1>3, <1>4, <1>5 DEF RunInv

\* ClaimLoad: the claim is made from the object just loaded.
LEMMA RunClaimLoads ==
  ASSUME IInv, TypeOK', NEW r \in Runs, ClaimLoad(r)
  PROVE  RunInv(r)'
<1>1. /\ RunInv(r) /\ object.data \in Manifests /\ object.etag \in Nat
      /\ object.data.epoch \in Nat /\ epoch \in [Runs -> Nat] /\ ordinal \in [Runs -> Nat]
  BY TypeParts, ManifestShape DEF IInv, TypeOK
<1>2. /\ pc[r] = "claim" /\ pc'[r] = "claimPut" /\ object' = object
      /\ m'[r] = SetEpoch(object.data, object.data.epoch + 1) /\ ver'[r] = object.etag
      /\ epoch' = epoch /\ ordinal' = ordinal /\ reply' = reply /\ seqs' = seqs
      /\ plans' = plans
  BY DEF ClaimLoad, IInv, TypeOK, callVars
<1>3. Sound(m'[r], epoch', ordinal')
  <2>1. Sound(object.data, epoch, ordinal)
    BY DEF IInv, StoreInv
  <2>2. object.data.epoch + 1 \in Nat /\ object.data.epoch + 1 >= object.data.epoch
    BY <1>1
  <2>3. QED
    BY <1>1, <1>2, <2>1, <2>2, SetEpochSound
<1>4. reply[r] = "none"
  BY <1>1, <1>2 DEF RunInv, Control, InPut
<1>5. Control(r)'
  <2>1. m'[r].epoch > 0
    <3>1. object.data.epoch + 1 \in Nat /\ object.data.epoch + 1 > 0
      BY <1>1
    <3>2. SetEpoch(object.data, object.data.epoch + 1).epoch = object.data.epoch + 1
      BY <1>1, <3>1, SetEpochFacts
    <3>3. QED
      BY <1>2, <3>1, <3>2
  <2>2. QED
    BY <1>1, <1>2, <1>4, <2>1 DEF RunInv, Control, Working, Base, InPut
<1>6. Outstanding(r)'
  BY <1>1, <1>2 DEF Outstanding, ClaimOf
<1>7. Attempt(r)' /\ Answered(r)' /\ Landing(r)' /\ Previous(r)'
  BY <1>2, <1>4 DEF Attempt, Answered, Landing, Previous, Working, InPut
<1>8. QED
  BY <1>3, <1>5, <1>6, <1>7 DEF RunInv

\* The window harvestCommitted scans holds the last entries of the log.
LEMMA TailCovers ==
  ASSUME NEW mf \in Manifests, NEW n \in Nat, n > 0
  PROVE  \A i \in 1..Len(mf.entries) :
           i > Len(mf.entries) - n => mf.entries[i] \in TailLocations(mf, 4 * n)
<1>1. Len(mf.entries) \in Nat
  BY ManifestShape
<1>2. QED
  BY <1>1 DEF TailLocations

\* A run that owns the log and whose group landed finds all of it.
LEMMA LandedIsFound ==
  ASSUME IInv, NEW r \in Runs, pc[r] = "load", object.data.epoch = epoch[r],
         NEW k \in 0..Len(Log), LandedAt(r, k)
  PROVE  Landed(object.data, plans[r]) = DOMAIN plans[r] /\ plans[r] # <<>>
<1>1. /\ object.data \in Manifests /\ plans[r] \in Seq(Segments) /\ Len(Log) \in Nat
      /\ plans[r] # <<>>
  BY TypeParts, ManifestShape DEF IInv, Log, RunInv, Control, Working
<1>2. k + Len(plans[r]) = Len(Log)
  BY DEF LandedAt
<1>3. ASSUME NEW i \in DOMAIN plans[r]
      PROVE  \E e \in TailLocations(object.data, 4 * Len(plans[r])) :
               e.Location = plans[r][i].Location
  <2>1. Len(plans[r]) \in Nat /\ Len(plans[r]) > 0 /\ i \in 1..Len(plans[r])
    BY <1>1
  <2>2. k + i \in 1..Len(Log) /\ k + i > Len(Log) - Len(plans[r])
    BY <1>1, <1>2, <2>1
  <2>3. Log[k + i] \in TailLocations(object.data, 4 * Len(plans[r]))
    BY <1>1, <2>1, <2>2, TailCovers DEF Log
  <2>4. QED
    BY <2>1, <2>3 DEF LandedAt
<1>4. QED
  BY <1>1, <1>3 DEF Landed

\* A run that starts an attempt has nothing of its group in the log.
LEMMA LoadNotLanded ==
  ASSUME IInv, NEW r \in Runs, Load(r)
  PROVE  NotLanded(r)
<1>1. /\ pc[r] = "load" /\ object.data.epoch = epoch[r]
      /\ unknown[r] => Landed(object.data, plans[r]) = {}
  BY DEF Load
<1>2. Working(r) /\ reply[r] # "ok" /\ plans[r] \in Seq(Segments)
  BY <1>1, TypeParts DEF IInv, RunInv, Control, InPut, Working
<1>3. ASSUME unknown[r], NEW k \in 0..Len(Log), LandedAt(r, k) PROVE FALSE
  <2>1. Landed(object.data, plans[r]) = DOMAIN plans[r] /\ plans[r] # <<>>
    BY <1>1, <1>3, LandedIsFound
  <2>2. DOMAIN plans[r] = {}
    BY <1>1, <1>3, <2>1
  <2>3. Len(plans[r]) > 0
    BY <1>2, <2>1
  <2>4. 1 \in DOMAIN plans[r]
    BY <1>2, <2>3
  <2>5. QED
    BY <2>2, <2>4
<1>4. Landing(r)
  BY DEF IInv, RunInv
<1>5. QED
  BY <1>2, <1>3, <1>4 DEF Landing

\* Load: the attempt is made from the object just loaded.
LEMMA RunLoads ==
  ASSUME IInv, TypeOK', NEW r \in Runs, Load(r)
  PROVE  RunInv(r)'
<1>1. /\ RunInv(r) /\ object.data \in Manifests /\ object.etag \in Nat
      /\ Len(Log) \in Nat /\ DOMAIN Log = 1..Len(Log)
      /\ object.data.nextSequence \in Nat /\ Len(<<>>) = 0
      /\ plans[r] \in Seq(Segments)
  BY TypeParts, ManifestShape DEF IInv, Log
<1>2. /\ pc[r] = "load" /\ pc'[r] = "append" /\ object' = object
      /\ m'[r] = object.data /\ ver'[r] = object.etag /\ epoch[r] = object.data.epoch
      /\ epoch' = epoch /\ ordinal' = ordinal /\ reply' = reply /\ seqs' = seqs
      /\ plans' = plans /\ unknown' = unknown
  BY ZenonT(30) DEF Load, IInv, TypeOK, callVars
<1>3. Sound(m'[r], epoch', ordinal')
  BY <1>2 DEF IInv, StoreInv
<1>4. reply[r] = "none" /\ seqs[r] = <<>> /\ plans[r] # <<>>
  BY <1>1, <1>2 DEF RunInv, Control, InPut, Working
<1>5. Control(r)'
  <2>1. Len(seqs[r]) < Len(plans[r])
    BY <1>1, <1>4
  <2>2. QED
    BY <1>1, <1>2, <1>4, <2>1 DEF RunInv, Control, Working, Base, InPut
<1>6. Attempt(r)'
  <2>1. NotLanded(r) /\ Previous(r)
    BY <1>1, LoadNotLanded DEF RunInv
  <2>2. Len(m'[r].entries) - Len(seqs'[r]) = Len(Log) /\ m'[r].entries = Log
    BY <1>1, <1>2, <1>4 DEF Log
  <2>3. /\ \A j \in 1..Len(Log) : Log[j].Location.run = r => Log[j].Location.ordinal < Base(r)
        /\ Base(r) > 0 => \E j \in 1..Len(Log) : Log[j].Location = Location(r, Base(r) - 1)
    BY <1>1, <1>2, <2>1 DEF NotLanded, Previous
  <2>4. Base(r)' = Base(r)
    BY <1>2 DEF Base
  <2>5. QED
    BY <1>1, <1>2, <1>4, <2>2, <2>3, <2>4 DEF Attempt, Location
<1>7. Outstanding(r)'
  BY <1>1, <1>2, <1>4 DEF Outstanding, GroupOn, Prefix, Log
<1>8. Answered(r)' /\ Landing(r)' /\ Previous(r)'
  BY ZenonT(30), <1>1, <1>2, <1>4 DEF RunInv, Answered, InPut, Landing, Working, NotLanded, LandedAt,
                          Base, Log, Previous, Location
<1>9. QED
  BY <1>3, <1>5, <1>6, <1>7, <1>8 DEF RunInv

\* AppendPlan: the next segment of the group is new to the attempt's manifest
\* and follows its predecessor.
LEMMA RunAppends ==
  ASSUME IInv, TypeOK', NEW r \in Runs, AppendPlan(r)
  PROVE  RunInv(r)'
<1> DEFINE p == Len(seqs[r])
           i == p + 1
           n == Len(plans[r])
           b == Base(r)
           mf == m[r]
           es == mf.entries
           l == Len(es)
           k == l - p
           seg == plans[r][i]
           new == AppendEntry(mf, seg.Location, seg.Count)
<1>1. /\ RunInv(r) /\ pc[r] = "append" /\ Control(r) /\ Attempt(r) /\ Sound(mf, epoch, ordinal)
      /\ Outstanding(r)
  BY DEF IInv, RunInv, AppendPlan
<1>2. /\ mf \in Manifests /\ plans[r] \in Seq(Segments) /\ seqs[r] \in Seq(Nat)
      /\ epoch \in [Runs -> Nat] /\ ordinal \in [Runs -> Nat]
      /\ p \in Nat /\ n \in Nat /\ l \in Nat /\ mf.nextSequence \in Nat /\ mf.epoch \in Nat
      /\ \A j \in 1..l : es[j].Location \in Locations
  <2>1. /\ mf \in Manifests /\ plans[r] \in Seq(Segments) /\ seqs[r] \in Seq(Nat)
        /\ epoch \in [Runs -> Nat] /\ ordinal \in [Runs -> Nat]
    BY DEF IInv, TypeOK
  <2>2. p \in Nat /\ n \in Nat
    BY <2>1
  <2> HIDE DEF mf
  <2>3. QED
    BY <2>1, <2>2, ManifestShape
<1>3. /\ p < n /\ i \in 1..n /\ b \in Nat /\ b + n = ordinal[r] /\ epoch[r] > 0
  <2>1. Len(seqs[r]) < Len(plans[r]) /\ epoch[r] > 0 /\ Base(r) >= 0
    BY <1>1 DEF Control
  <2>2. ordinal[r] \in Nat /\ b = ordinal[r] - n
    BY <1>2 DEF Base
  <2> HIDE DEF p, n, b
  <2>3. QED
    BY SMTT(30), <1>2, <2>1, <2>2 DEF p, n, b
<1>4. /\ seg \in Segments /\ seg.Count \in Nat \ {0}
      /\ \A j \in 1..n : /\ plans[r][j].Location = Location(r, b + j - 1)
                         /\ plans[r][j].Location.run = r
                         /\ plans[r][j].Location.ordinal = b + j - 1
      /\ seg.Location.run = r /\ seg.Location.ordinal = b + p
  <2>1. seg \in Segments
    BY SMTT(30), <1>2, <1>3
  <2>2. \A j \in 1..n : plans[r][j].Location = Location(r, b + j - 1)
    BY <1>1 DEF Control
  <2>3. \A j \in 1..n : plans[r][j].Location.run = r /\ plans[r][j].Location.ordinal = b + j - 1
    BY <2>2, LocationFields, SMTT(30)
  <2> HIDE DEF b, p, n
  <2>4. b + i - 1 = b + p
    BY <1>2, <1>3
  <2>5. seg.Count \in Nat \ {0}
    BY <2>1 DEF Segments
  <2>6. seg.Location.run = r /\ seg.Location.ordinal = b + p
    BY <1>3, <2>3, <2>4
  <2>7. QED
    BY <2>1, <2>2, <2>3, <2>5, <2>6
<1>5. /\ k \in Nat /\ mf.epoch = epoch[r] /\ l = k + p
      /\ \A j \in 1..p : /\ es[k + j].Location = plans[r][j].Location
                         /\ es[k + j].Sequence = seqs[r][j]
      /\ \A j \in 1..k : es[j].Location.run = r => es[j].Location.ordinal < b
      /\ b > 0 => \E j \in 1..k : es[j].Location = Location(r, b - 1)
  <2>1. /\ k >= 0 /\ mf.epoch = epoch[r]
        /\ \A j \in 1..p : /\ es[k + j].Location = plans[r][j].Location
                           /\ es[k + j].Sequence = seqs[r][j]
        /\ \A j \in 1..k : es[j].Location.run = r => es[j].Location.ordinal < b
        /\ b > 0 => \E j \in 1..k : es[j].Location = Location(r, b - 1)
    BY <1>1 DEF Attempt
  <2> HIDE DEF l, p
  <2>2. k \in Nat /\ l = k + p
    BY <1>2, <2>1
  <2>3. QED
    BY <2>1, <2>2
<1> HIDE DEF b, k, l, n, p
<1>6. \A j \in 1..l : es[j].Location # seg.Location
  <2>1. ASSUME NEW j \in 1..l PROVE es[j].Location # seg.Location
    <3>1. CASE j \in 1..k
      <4>1. ~(b + p < b)
        BY <1>2, <1>3
      <4>2. QED
        BY <3>1, <4>1, <1>4, <1>5
    <3>2. CASE j \notin 1..k
      <4>1. j - k \in 1..p /\ j = k + (j - k) /\ j - k \in 1..n /\ j - k # i
        BY <3>2, <1>2, <1>3, <1>5, SMTT(30)
      <4>2. es[j].Location = plans[r][j - k].Location
        BY <4>1, <1>5
      <4>3. es[j].Location.ordinal = b + (j - k) - 1
        BY <4>1, <4>2, <1>4
      <4>4. b + (j - k) - 1 # b + p
        BY <4>1, <1>2, <1>3, <1>5, SMTT(30)
      <4>5. QED
        BY <4>3, <4>4, <1>4
    <3>3. QED
      BY <3>1, <3>2
  <2>2. QED
    BY <2>1
<1>7. seg.Location.ordinal > 0 =>
        \E j \in 1..l : es[j].Location = Location(seg.Location.run, seg.Location.ordinal - 1)
  <2>1. CASE p = 0
    <3>1. b + p = b /\ k = l
      BY <2>1, <1>2, <1>3, <1>5, SMTT(30)
    <3>2. QED
      BY <3>1, <1>4, <1>5
  <2>2. CASE p # 0
    <3>1. p \in 1..p /\ p \in 1..n /\ k + p = l /\ l \in 1..l
      BY SMTT(30), <2>2, <1>2, <1>3, <1>5
    <3>2. es[l].Location = Location(r, b + p - 1)
      BY <3>1, <1>4, <1>5
    <3>3. seg.Location.ordinal - 1 = b + p - 1
      <4>1. seg.Location.ordinal = b + p
        BY <1>4
      <4>2. QED
        BY <4>1, <1>2, <1>3
    <3>4. QED
      BY <3>1, <3>2, <3>3, <1>4
  <2>3. QED
    BY <2>1, <2>2
<1>8. Sound(new, epoch, ordinal)
  <2>1. /\ seg.Location.run = r /\ seg.Location.ordinal < ordinal[r]
        /\ epoch[seg.Location.run] = mf.epoch /\ mf.epoch > 0
    BY SMTT(30), <1>2, <1>3, <1>4, <1>5
  <2>2. QED
    BY ZenonT(30), <1>1, <1>2, <1>4, <1>6, <1>7, <2>1, AppendSound DEF l
<1>9. /\ new.epoch = mf.epoch /\ new.nextSequence = mf.nextSequence + seg.Count
      /\ Len(new.entries) = l + 1
      /\ \A j \in 1..l : new.entries[j] = es[j]
      /\ new.entries[l + 1].Location = seg.Location
      /\ new.entries[l + 1].Sequence = mf.nextSequence
  BY ZenonT(30), <1>2, <1>4, AppendEntryFacts DEF l
<1>10. /\ pc'[r] = (IF i = n THEN "commitPut" ELSE "append")
       /\ m'[r] = new /\ seqs'[r] = Append(seqs[r], mf.nextSequence)
       /\ object' = object /\ epoch' = epoch /\ ordinal' = ordinal /\ ver' = ver
       /\ reply' = reply /\ plans' = plans /\ unknown' = unknown
  BY ZenonT(30) DEF AppendPlan, IInv, TypeOK, callVars, p, n
<1>11. /\ Len(seqs'[r]) = i /\ seqs'[r][i] = mf.nextSequence
       /\ \A j \in 1..p : seqs'[r][j] = seqs[r][j]
  BY <1>2, <1>10 DEF p
<1>12. Base(r)' = b /\ reply[r] = "none"
  BY <1>1, <1>10 DEF Base, b, Control, InPut
<1> HIDE DEF new
<1>13. Control(r)'
  <2>1. /\ i # n => Len(seqs'[r]) < Len(plans'[r])
        /\ i = n => Len(seqs'[r]) = Len(plans'[r])
    BY <1>2, <1>3, <1>10, <1>11 DEF n
  <2>2. QED
    BY <1>1, <1>10, <1>12, <2>1 DEF Control, Working, InPut, b
<1>14. Attempt(r)'
  <2>1. Len(m'[r].entries) - Len(seqs'[r]) = k /\ l + 1 = k + i
    BY <1>2, <1>5, <1>9, <1>10, <1>11, SMTT(30)
  <2>2. \A j \in 1..l : m'[r].entries[j] = es[j]
    BY <1>9, <1>10
  <2>3. ASSUME NEW j \in 1..i
        PROVE  /\ m'[r].entries[k + j].Location = plans'[r][j].Location
               /\ m'[r].entries[k + j].Sequence = seqs'[r][j]
    <3>1. CASE j = i
      BY <3>1, <2>1, <1>9, <1>10, <1>11
    <3>2. CASE j # i
      <4>1. j \in 1..p
        BY <3>2, <1>2
      <4>2. k + j \in 1..l
        BY <4>1, <1>2, <1>5, SMTT(30)
      <4>3. QED
        BY <4>1, <4>2, <2>2, <1>5, <1>10, <1>11
    <3>3. QED
      BY <3>1, <3>2
  <2>4. \A j \in 1..k : j \in 1..l
    BY <1>2, <1>5
  <2>5. /\ \A j \in 1..k : m'[r].entries[j].Location.run = r
                             => m'[r].entries[j].Location.ordinal < b
        /\ b > 0 => \E j \in 1..k : m'[r].entries[j].Location = Location(r, b - 1)
    BY <2>2, <2>4, <1>5
  <2>6. m'[r].epoch = epoch'[r]
    BY <1>5, <1>9, <1>10
  <2>7. k >= 0
    BY <1>5
  <2>8. QED
    BY ZenonT(30), <1>11, <1>12, <2>1, <2>3, <2>5, <2>6, <2>7 DEF Attempt, Location
<1>15. Outstanding(r)'
  <2>1. ver[r] <= object.etag /\ (ver[r] = object.etag => GroupOn(mf, p))
    BY <1>1, <1>12 DEF Outstanding, p
  <2>2. ASSUME GroupOn(mf, p) PROVE GroupOn(m'[r], i)
    <3>1. Len(Log) \in Nat /\ object.data.nextSequence \in Nat
      BY TypeParts, ManifestShape DEF IInv, Log
    <3>2. /\ Len(Log) <= l /\ l = Len(Log) + p /\ mf.epoch = object.data.epoch
          /\ mf.nextSequence >= object.data.nextSequence + p
          /\ \A j \in 1..Len(Log) : es[j] = Log[j]
      BY <2>2 DEF GroupOn, Prefix, l
    <3>3. \A j \in 1..Len(Log) : j \in 1..l
      BY <1>2, <3>1, <3>2
    <3>4. Prefix(Log, m'[r].entries) /\ Len(m'[r].entries) = Len(Log) + i
      <4>1. /\ Len(m'[r].entries) = l + 1 /\ l \in Nat
            /\ \A j \in 1..l : m'[r].entries[j] = es[j]
        BY <1>2, <1>9, <1>10
      <4>2. Len(Log) <= Len(m'[r].entries) /\ Len(m'[r].entries) = Len(Log) + i
        BY <1>2, <3>1, <3>2, <4>1
      <4>3. \A j \in 1..Len(Log) : m'[r].entries[j] = Log[j]
        BY <3>2, <3>3, <4>1, ZenonT(30)
      <4> QED
        BY <4>2, <4>3 DEF Prefix
    <3>5. m'[r].nextSequence >= object.data.nextSequence + i
      <4>1. m'[r].nextSequence = mf.nextSequence + seg.Count
        BY <1>9, <1>10
      <4>2. ASSUME NEW x \in Nat, NEW y \in Nat, NEW c \in Nat \ {0}, x >= y + p
            PROVE  x + c >= y + i
        BY <4>2, <1>2
      <4>3. QED
        BY <4>1, <4>2, <1>2, <1>4, <3>1, <3>2
    <3>6. QED
      BY <1>9, <1>10, <3>2, <3>4, <3>5 DEF GroupOn
  <2>3. GroupOn(m'[r], i) => GroupOn(m[r], Len(seqs[r]))'
    BY <1>10, <1>11 DEF GroupOn, Prefix, Log
  <2>4. QED
    BY <1>10, <2>1, <2>2, <2>3 DEF Outstanding
<1>16. Answered(r)' /\ Landing(r)' /\ Previous(r)'
  BY <1>1, <1>10, <1>12 DEF RunInv, Answered, InPut, Landing, Working, NotLanded, LandedAt,
                            Log, Previous, Location, b
<1>17. QED
  BY <1>8, <1>10, <1>13, <1>14, <1>15, <1>16 DEF RunInv

-----------------------------------------------------------------------------
(* The steps.                                                              *)

\* A run that stops, or goes back to the start of its claim, keeps IInv.
LEMMA StopStep ==
  ASSUME IInv, TypeOK', NEW r \in Runs, object' = object, epoch' = epoch,
         ordinal' = ordinal, acked' = acked, \A s \in Runs \ {r} : Same(s),
         late' = late \/ Abandon(r),
         pc'[r] \in {"halted", "down", "claim"},
         pc'[r] = "claim" => epoch[r] = 0 /\ ordinal[r] = 0,
         plans'[r] = <<>>, seqs'[r] = <<>>, reply'[r] = "none",
         m'[r] \in {m[r], NewManifest}
  PROVE  IInv'
<1>1. Sound(m'[r], epoch, ordinal)
  BY NewManifestSound DEF IInv, RunInv
<1>2. RunInv(r)'
  BY <1>1, RunStops
<1>3. ~Working(r)' /\ pc'[r] # "idle"
  BY DEF Working
<1>4. Holds(r)' \in {Holds(r), 0}
  BY DEF Holds
<1>5. late' = late \/ (late' = late \cup {Request(r)} /\ InPut(r) /\ reply[r] = "none")
  BY DEF Abandon
<1>6. QED
  BY <1>2, <1>3, <1>4, <1>5, CalmStep

\* A commit that goes on to its next attempt keeps IInv.
LEMMA ReloadStep ==
  ASSUME IInv, TypeOK', NEW r \in Runs, object' = object, epoch' = epoch,
         ordinal' = ordinal, acked' = acked, \A s \in Runs \ {r} : Same(s),
         late' = late \/ (Abandon(r) /\ unknown'[r] = TRUE),
         Working(r), pc'[r] = "load",
         plans'[r] = plans[r], seqs'[r] = <<>>, reply'[r] = "none",
         unknown[r] = TRUE \/ reply[r] = "ok" => unknown'[r] = TRUE,
         m'[r] \in {m[r], NewManifest}
  PROVE  IInv'
<1>1. Sound(m'[r], epoch, ordinal)
  BY NewManifestSound DEF IInv, RunInv
<1>2. RunInv(r)'
  BY <1>1, RunReloads
<1>3. pc'[r] # "idle"
  OBVIOUS
<1>4. Holds(r)' \in {Holds(r), 0}
  BY DEF Holds
<1>5. \/ late' = late
      \/ /\ late' = late \cup {Request(r)} /\ InPut(r) /\ reply[r] = "none"
         /\ unknown'[r] = TRUE
  BY DEF Abandon
<1>6. QED
  BY <1>2, <1>3, <1>4, <1>5, CalmStep

\* ClaimLoad keeps IInv.
LEMMA ClaimLoadStep ==
  ASSUME IInv, TypeOK', NEW r \in Runs, ClaimLoad(r)
  PROVE  IInv'
<1>1. RunInv(r)'
  BY RunClaimLoads
<1>2. /\ \A s \in Runs \ {r} : Same(s)
      /\ pc'[r] = "claimPut" /\ reply'[r] = reply[r] /\ pc[r] = "claim"
  BY ZenonT(30) DEF IInv, TypeOK, ClaimLoad, Same, callVars
<1>3. ~Working(r)' /\ pc'[r] # "idle"
  BY <1>2 DEF Working
<1>4. Holds(r)' \in {Holds(r), 0}
  <2>1. reply[r] = "none"
    BY <1>2, ClaimingFacts
  <2>2. QED
    BY <1>2, <2>1 DEF Holds, ClaimLoad
<1>5. QED
  BY <1>1, <1>2, <1>3, <1>4, CalmStep DEF ClaimLoad

\* The steps that fail a claim, or start its next attempt, keep IInv.
LEMMA ClaimFailSteps ==
  ASSUME IInv, TypeOK', NEW r \in Runs,
         ClaimLoadFails(r) \/ ClaimExhausted(r) \/ ClaimLost(r) \/ ClaimFails(r)
  PROVE  IInv'
<1>1. TypeOK
  BY DEF IInv
<1>2. CASE ClaimLoadFails(r) \/ ClaimExhausted(r)
  <2>1. /\ pc[r] = "claim"
        /\ ClaimAgain(r) \/ Return(r, "down")
        /\ UNCHANGED <<object, late, epoch, ordinal, attemptVars, acked>>
    BY <1>2 DEF ClaimLoadFails, ClaimExhausted
  <2>2. /\ pc'[r] \in {"claim", "down"} /\ plans'[r] = <<>>
        /\ \A s \in Runs \ {r} :
             pc'[s] = pc[s] /\ unknown'[s] = unknown[s] /\ plans'[s] = plans[s]
    BY <1>1, <2>1, ClaimAgainFacts, ReturnFacts, ClaimingFacts
  <2>3. epoch[r] = 0 /\ ordinal[r] = 0 /\ seqs'[r] = <<>> /\ reply'[r] = "none" /\ m'[r] = m[r]
    BY <2>1, ClaimingFacts DEF attemptVars
  <2>4. \A s \in Runs \ {r} : Same(s)
    BY <2>1, <2>2 DEF Same, attemptVars
  <2>5. QED
    BY <2>1, <2>2, <2>3, <2>4, StopStep
<1>3. CASE ClaimLost(r) \/ ClaimFails(r)
  <2>1. /\ pc[r] = "claimPut" /\ DropAttempt(r)
        /\ ClaimAgain(r) \/ Return(r, "down")
        /\ late' = late \/ Abandon(r)
        /\ UNCHANGED <<object, epoch, ordinal, acked>>
    BY <1>3 DEF ClaimLost, ClaimFails
  <2>2. /\ pc'[r] \in {"claim", "down"} /\ plans'[r] = <<>>
        /\ \A s \in Runs \ {r} :
             pc'[s] = pc[s] /\ unknown'[s] = unknown[s] /\ plans'[s] = plans[s]
    BY <1>1, <2>1, ClaimAgainFacts, ReturnFacts, ClaimingFacts
  <2>3. /\ epoch[r] = 0 /\ ordinal[r] = 0 /\ seqs'[r] = <<>> /\ reply'[r] = "none"
        /\ m'[r] = NewManifest
        /\ \A s \in Runs \ {r} : Same(s)
    BY <1>1, <2>1, <2>2, ClaimingFacts, DropFacts DEF Same
  <2>4. QED
    BY <2>1, <2>2, <2>3, StopStep
<1>4. QED
  BY <1>2, <1>3

\* A crash keeps IInv.
LEMMA CrashStep ==
  ASSUME IInv, TypeOK', NEW r \in Runs, Crash(r)
  PROVE  IInv'
<1>1. TypeOK /\ Return(r, "down") /\ DropAttempt(r) /\ Abandon(r)
  BY DEF IInv, Crash
<1>2. /\ pc'[r] = "down" /\ plans'[r] = <<>> /\ seqs'[r] = <<>> /\ reply'[r] = "none"
      /\ m'[r] = NewManifest /\ \A s \in Runs \ {r} : Same(s)
  BY ZenonT(30), <1>1, ReturnFacts, DropFacts DEF Same, Crash
<1>3. QED
  BY <1>1, <1>2, StopStep DEF Crash

\* The steps that fail an attempt of a commit, or the commit, keep IInv.
LEMMA CommitFailSteps ==
  ASSUME IInv, TypeOK', NEW r \in Runs,
         \/ LoadFails(r) \/ Fenced(r)
         \/ CommitConflict(r) \/ CommitRefused(r) \/ CommitUnknown(r)
  PROVE  IInv'
<1>1. TypeOK /\ unknown[r] \in BOOLEAN
  BY TypeParts DEF IInv
<1>2. CASE LoadFails(r) \/ Fenced(r)
  <2>1. /\ pc[r] = "load" /\ Transient(r, unknown[r])
        /\ UNCHANGED <<object, late, epoch, ordinal, attemptVars, acked>>
    BY <1>2 DEF LoadFails, Fenced, Transient
  <2>2. reply[r] = "none" /\ seqs[r] = <<>> /\ Working(r)
    BY <2>1 DEF IInv, RunInv, Control, InPut, Working
  <2>3. /\ \/ pc'[r] = "load" /\ plans'[r] = plans[r] /\ unknown'[r] = unknown[r]
           \/ pc'[r] = "halted" /\ plans'[r] = <<>>
        /\ \A s \in Runs \ {r} : Same(s)
        /\ reply'[r] = "none" /\ seqs'[r] = <<>> /\ m'[r] = m[r]
    BY <1>1, <2>1, <2>2, TransientFacts DEF Same, attemptVars
  <2>4. CASE pc'[r] = "load"
    BY <2>1, <2>2, <2>3, <2>4, ReloadStep
  <2>5. CASE pc'[r] = "halted"
    BY <2>1, <2>3, <2>5, StopStep
  <2>6. QED
    BY <2>3, <2>4, <2>5
<1>3. CASE CommitConflict(r) \/ CommitRefused(r) \/ CommitUnknown(r)
  <2>1. /\ pc[r] = "commitPut" /\ DropAttempt(r)
        /\ UNCHANGED <<object, epoch, ordinal, acked>>
    BY <1>3 DEF CommitConflict, CommitRefused, CommitUnknown
  <2>2. Working(r)
    BY <2>1 DEF Working
  <2>3. /\ reply'[r] = "none" /\ seqs'[r] = <<>> /\ m'[r] = NewManifest
        /\ \A s \in Runs \ {r} :
             m'[s] = m[s] /\ ver'[s] = ver[s] /\ reply'[s] = reply[s] /\ seqs'[s] = seqs[s]
    BY <1>1, <2>1, DropFacts
  <2>4. /\ \/ pc'[r] = "load" /\ plans'[r] = plans[r]
           \/ pc'[r] = "halted" /\ plans'[r] = <<>>
        /\ \A s \in Runs \ {r} :
             pc'[s] = pc[s] /\ unknown'[s] = unknown[s] /\ plans'[s] = plans[s]
        /\ late' = late \/ Abandon(r)
        /\ pc'[r] = "load" =>
             /\ late' = late \/ (Abandon(r) /\ unknown'[r] = TRUE)
             /\ unknown[r] = TRUE \/ reply[r] = "ok" => unknown'[r] = TRUE
    <3>1. CASE CommitConflict(r)
      <4>1. CASE Halt(r)
        <5>1. /\ pc'[r] = "halted" /\ plans'[r] = <<>>
              /\ \A s \in Runs \ {r} :
                   pc'[s] = pc[s] /\ unknown'[s] = unknown[s] /\ plans'[s] = plans[s]
          BY <1>1, <4>1, ReturnFacts DEF Halt
        <5>2. late' = late
          BY <3>1 DEF CommitConflict
        <5>3. QED
          BY <5>1, <5>2
      <4>2. CASE ~Halt(r)
        <5>1. /\ pc' = [pc EXCEPT ![r] = "load"] /\ unknown' = unknown /\ plans' = plans
              /\ late' = late /\ reply[r] = "precondition"
          BY <3>1, <4>2 DEF CommitConflict
        <5>2. QED
          BY <1>1, <5>1 DEF TypeOK
      <4>3. QED
        BY <4>1, <4>2
    <3>2. CASE CommitRefused(r)
      BY <1>1, <3>2, TransientFacts DEF CommitRefused
    <3>3. CASE CommitUnknown(r)
      BY <1>1, <3>3, TransientFacts DEF CommitUnknown
    <3>4. QED
      BY <1>3, <3>1, <3>2, <3>3
  <2>5. \A s \in Runs \ {r} : Same(s)
    BY <2>1, <2>3, <2>4 DEF Same
  <2>6. CASE pc'[r] = "load"
    BY <2>1, <2>2, <2>3, <2>4, <2>5, <2>6, ReloadStep
  <2>7. CASE pc'[r] = "halted"
    BY <2>1, <2>3, <2>4, <2>5, <2>7, StopStep
  <2>8. QED
    BY <2>4, <2>6, <2>7
<1>4. QED
  BY <1>2, <1>3

\* Load, and each round of the append loop, keep IInv.
LEMMA AttemptSteps ==
  ASSUME IInv, TypeOK', NEW r \in Runs, Load(r) \/ AppendPlan(r)
  PROVE  IInv'
<1>1. RunInv(r)'
  BY RunLoads, RunAppends
<1>2. /\ \A s \in Runs \ {r} : Same(s)
      /\ pc[r] \in {"load", "append"} /\ pc'[r] \in {"append", "commitPut"}
      /\ plans' = plans /\ unknown' = unknown /\ epoch' = epoch /\ ordinal' = ordinal
      /\ object' = object /\ late' = late /\ acked' = acked
  <2>1. CASE Load(r)
    BY ZenonT(30), <2>1 DEF IInv, TypeOK, Load, Same, callVars
  <2>2. CASE AppendPlan(r)
    BY ZenonT(30), <2>2 DEF IInv, TypeOK, AppendPlan, Same, callVars
  <2>3. QED
    BY <2>1, <2>2
<1>3. Working(r) /\ pc'[r] # "idle"
  BY <1>2 DEF Working
<1>4. Holds(r)' \in {Holds(r), 0}
  BY <1>2 DEF Holds
<1>5. QED
  BY <1>1, <1>2, <1>3, <1>4, CalmStep

\* CommitOk: the attempt's manifest is a prefix of the log from its landing on.
LEMMA CommitOkStep ==
  ASSUME IInv, TypeOK', NEW r \in Runs, CommitOk(r)
  PROVE  IInv'
<1>1. /\ TypeOK /\ pc[r] = "commitPut" /\ reply[r] = "ok"
      /\ Return(r, "idle") /\ DropAttempt(r)
      /\ UNCHANGED <<object, late, epoch, ordinal>>
  BY DEF IInv, CommitOk
<1>2. /\ Working(r) /\ pc'[r] = "idle" /\ plans'[r] = <<>> /\ seqs'[r] = <<>>
      /\ reply'[r] = "none" /\ m'[r] = NewManifest /\ \A s \in Runs \ {r} : Same(s)
  BY ZenonT(30), <1>1, ReturnFacts, DropFacts DEF Same, Working
<1> DEFINE n == Len(plans[r])
           k == Len(m[r].entries) - Len(seqs[r])
<1>3. /\ n \in Nat /\ DOMAIN plans[r] = 1..n /\ DOMAIN Log = 1..Len(Log)
      /\ Len(Log) \in Nat /\ Len(m[r].entries) \in Nat
  BY TypeParts, ManifestShape, SMTT(30) DEF IInv, Log
<1>4. /\ Len(seqs[r]) = n /\ k >= 0
      /\ \A i \in 1..n : /\ m[r].entries[k + i].Location = plans[r][i].Location
                         /\ m[r].entries[k + i].Sequence = seqs[r][i]
  BY ZenonT(30), <1>1 DEF IInv, RunInv, Control, Attempt
<1>5. /\ Len(m[r].entries) <= Len(Log)
      /\ \A i \in 1..Len(m[r].entries) : Log[i] = m[r].entries[i]
  BY <1>1 DEF IInv, RunInv, Answered, InPut, Prefix
<1>6. ASSUME NEW i \in 1..n
      PROVE  /\ k + i \in DOMAIN Log
             /\ Log[k + i].Location = plans[r][i].Location
             /\ Log[k + i].Sequence = seqs[r][i]
  <2>1. k = Len(m[r].entries) - n /\ k >= 0 /\ Len(m[r].entries) <= Len(Log)
    BY <1>4, <1>5
  <2> HIDE DEF k, n
  <2>2. k + i \in 1..Len(m[r].entries) /\ k + i \in 1..Len(Log)
    BY <1>3, <2>1
  <2>3. QED
    BY <2>2, <1>3, <1>4, <1>5
<1>7. AckedIsDurable'
  <2>1. acked' = acked \cup {[Location |-> plans[r][i].Location,
                              Sequence |-> seqs[r][i]] : i \in 1..n}
    BY <1>3 DEF CommitOk
  <2>2. ASSUME NEW a \in acked'
        PROVE  \E i \in DOMAIN Log : Log[i].Location = a.Location /\ Log[i].Sequence = a.Sequence
    <3>1. CASE a \in acked
      BY <3>1 DEF IInv, AckedIsDurable
    <3>2. CASE a \notin acked
      <4>1. PICK i \in 1..n : a = [Location |-> plans[r][i].Location, Sequence |-> seqs[r][i]]
        BY <2>1, <3>2
      <4>2. a.Location = plans[r][i].Location /\ a.Sequence = seqs[r][i]
        BY <4>1
      <4>3. QED
        BY <1>6, <4>2
    <3>3. QED
      BY <3>1, <3>2
  <2>3. QED
    BY <1>1, <2>2 DEF AckedIsDurable, Log
<1>8. \A i \in 1..n : \E j \in DOMAIN Log : Log[j].Location = plans[r][i].Location
  BY <1>6
<1>9. QED
  BY <1>1, <1>2, <1>7, <1>8, IdleStep

\* Harvest: the entries found are the group's, and so are their sequences.
LEMMA HarvestStep ==
  ASSUME IInv, TypeOK', NEW r \in Runs, Harvest(r)
  PROVE  IInv'
<1> DEFINE tail == TailLocations(object.data, 4 * Len(plans[r]))
<1>1. /\ TypeOK /\ pc[r] = "load" /\ reply[r] = "none" /\ seqs[r] = <<>> /\ Working(r)
      /\ m' = m /\ ver' = ver /\ reply' = reply /\ seqs' = seqs
      /\ UNCHANGED <<object, late, epoch, ordinal>>
  BY DEF IInv, Harvest, RunInv, Control, InPut, Working, attemptVars
<1>2. \A e \in tail : \E j \in DOMAIN Log : Log[j] = e
  <2>1. Len(Log) \in Nat /\ DOMAIN Log = 1..Len(Log) /\ Len(plans[r]) \in Nat
    BY <1>1, TypeParts, ManifestShape, SMTT(30) DEF Log
  <2>2. QED
    BY <2>1 DEF TailLocations, Log
<1>3. CASE Landed(object.data, plans[r]) = DOMAIN plans[r]
  <2>1. /\ Return(r, "idle")
        /\ acked' = acked \cup
               {[Location |-> e.Location, Sequence |-> e.Sequence] :
                  e \in {f \in tail : \E i \in DOMAIN plans[r] : f.Location = plans[r][i].Location}}
    BY <1>3 DEF Harvest
  <2>2. /\ pc'[r] = "idle" /\ plans'[r] = <<>> /\ \A s \in Runs \ {r} : Same(s)
    BY <1>1, <2>1, ReturnFacts DEF Same
  <2>3. AckedIsDurable'
    <3>1. ASSUME NEW a \in acked'
          PROVE  \E i \in DOMAIN Log : Log[i].Location = a.Location /\ Log[i].Sequence = a.Sequence
      <4>1. CASE a \in acked
        BY <4>1 DEF IInv, AckedIsDurable
      <4>2. CASE a \notin acked
        <5>1. PICK e \in tail : a = [Location |-> e.Location, Sequence |-> e.Sequence]
          BY <2>1, <4>2
        <5>2. a.Location = e.Location /\ a.Sequence = e.Sequence
          BY <5>1
        <5>3. QED
          BY <1>2, <5>2
      <4>3. QED
        BY <4>1, <4>2
    <3>2. QED
      BY <1>1, <3>1 DEF AckedIsDurable, Log
  <2>4. \A i \in 1..Len(plans[r]) : \E j \in DOMAIN Log : Log[j].Location = plans[r][i].Location
    <3>1. DOMAIN plans[r] = 1..Len(plans[r])
      BY <1>1, TypeParts
    <3>2. \A i \in DOMAIN plans[r] : \E e \in tail : e.Location = plans[r][i].Location
      BY <1>3 DEF Landed
    <3>3. QED
      BY ZenonT(30), <1>2, <3>1, <3>2
  <2>5. QED
    BY <1>1, <2>2, <2>3, <2>4, IdleStep
<1>4. CASE Landed(object.data, plans[r]) # DOMAIN plans[r]
  <2>1. Return(r, "halted") /\ acked' = acked
    BY <1>4 DEF Harvest, Halt
  <2>2. /\ pc'[r] = "halted" /\ plans'[r] = <<>> /\ \A s \in Runs \ {r} : Same(s)
    BY <1>1, <2>1, ReturnFacts DEF Same
  <2>3. QED
    BY <1>1, <2>1, <2>2, StopStep
<1>5. QED
  BY <1>3, <1>4

\* ClaimWon: the run's epoch is the one its claim has held since it landed.
LEMMA ClaimWonStep ==
  ASSUME IInv, TypeOK', NEW r \in Runs, ClaimWon(r)
  PROVE  IInv'
<1>1. /\ TypeOK /\ RunInv(r) /\ pc[r] = "claimPut" /\ reply[r] = "ok"
      /\ epoch[r] = 0 /\ ordinal[r] = 0 /\ m[r].epoch > 0
      /\ Return(r, "idle") /\ DropAttempt(r)
      /\ epoch' = [epoch EXCEPT ![r] = m[r].epoch]
      /\ UNCHANGED <<object, late, ordinal, acked>>
  BY ClaimingFacts DEF IInv, ClaimWon, RunInv, Control
<1>2. epoch'[r] = m[r].epoch /\ \A s \in Runs \ {r} : epoch'[s] = epoch[s]
  BY <1>1 DEF TypeOK
<1>3. /\ pc'[r] = "idle" /\ plans'[r] = <<>> /\ seqs'[r] = <<>>
      /\ reply'[r] = "none" /\ m'[r] = NewManifest /\ \A s \in Runs \ {r} : Same(s)
  BY ZenonT(30), <1>1, <1>2, ReturnFacts, DropFacts DEF Same
<1>4. Len(<<>>) = 0 /\ m[r].epoch \in Nat
  BY <1>1, TypeParts, ManifestShape
<1>5. Base(r)' = 0
  BY <1>1, <1>3, <1>4 DEF Base
<1>6. Control(r)'
  BY <1>1, <1>2, <1>3, <1>4, <1>5, SMTT(30) DEF Control, Working, InPut
<1>7. Attempt(r)' /\ Outstanding(r)' /\ Answered(r)' /\ Landing(r)' /\ Previous(r)'
  BY <1>3, <1>5 DEF Attempt, Outstanding, Answered, Landing, Working, InPut, Previous
<1>8. RunInv(r)'
  BY <1>3, <1>6, <1>7, NewManifestSound DEF RunInv
<1>9. \A q \in late : q.run = r => ~LateCommit(q)
  <2>1. SUFFICES ASSUME NEW q \in late, q.run = r, LateCommit(q) PROVE FALSE
    OBVIOUS
  <2>2. Owned(q.m, epoch, ordinal) /\ q.m \in Manifests /\ Len(Log) \in Nat
    BY ZenonT(30), <1>1, TypeParts, ManifestShape DEF IInv, LateInv, Sound, TypeOK, Log
  <2>3. Len(Log) + 1 \in Len(Log) + 1..Len(q.m.entries) /\ Len(Log) + 1 \in DOMAIN q.m.entries
    BY <2>1, <2>2, ManifestShape DEF LateCommit
  <2>4. 0 < epoch[r]
    BY <2>1, <2>2, <2>3 DEF LateCommit, Owned
  <2>5. QED
    BY <1>1, <2>4
<1>10. Holds(r)' \in {Holds(r), 0}
  BY <1>1, <1>2, <1>4, SMTT(30) DEF Holds
<1>11. AckedIsDurable'
  BY <1>1 DEF IInv, AckedIsDurable, Log
<1>12. /\ \A s \in Runs : ordinal[s] <= ordinal'[s]
       /\ \A s \in Runs : epoch[s] # 0 => epoch'[s] = epoch[s]
  BY <1>1, <1>2, SMTT(30) DEF TypeOK
<1>13. QED
  BY ZenonT(30), <1>1, <1>3, <1>8, <1>9, <1>10, <1>11, <1>12, LocalStep

\* BeginCommit: the group's ordinals are new to the log.
LEMMA BeginCommitStep ==
  ASSUME IInv, TypeOK', NEW r \in Runs, BeginCommit(r)
  PROVE  IInv'
<1>1. /\ TypeOK /\ RunInv(r) /\ pc[r] = "idle" /\ pc' = [pc EXCEPT ![r] = "load"]
      /\ object' = object /\ late' = late /\ epoch' = epoch /\ acked' = acked
      /\ m' = m /\ ver' = ver /\ reply' = reply /\ seqs' = seqs /\ unknown' = unknown
  BY DEF IInv, BeginCommit, attemptVars
<1>2. PICK n \in 1..ManifestAppendBatchSize : \E count \in [1..n -> Counts] :
        /\ plans' = [plans EXCEPT ![r] =
             [i \in 1..n |-> [Location |-> Location(r, ordinal[r] + i - 1),
                              Count    |-> count[i]]]]
        /\ ordinal' = [ordinal EXCEPT ![r] = @ + n]
  BY DEF BeginCommit
<1>3. PICK count \in [1..n -> Counts] :
        /\ plans' = [plans EXCEPT ![r] =
             [i \in 1..n |-> [Location |-> Location(r, ordinal[r] + i - 1),
                              Count    |-> count[i]]]]
        /\ ordinal' = [ordinal EXCEPT ![r] = @ + n]
  BY <1>2
<1>4. /\ n \in Nat /\ n > 0 /\ ordinal[r] \in Nat /\ ordinal'[r] = ordinal[r] + n
      /\ \A s \in Runs \ {r} : plans'[s] = plans[s] /\ ordinal'[s] = ordinal[s] /\ pc'[s] = pc[s]
      /\ pc'[r] = "load"
  BY <1>1, <1>3, BudgetAssumption, SMTT(30) DEF TypeOK
<1>5. /\ Len(plans'[r]) = n /\ plans'[r] # <<>>
      /\ \A i \in 1..n : plans'[r][i].Location = Location(r, ordinal[r] + i - 1)
  <2>1. plans'[r] = [i \in 1..n |-> [Location |-> Location(r, ordinal[r] + i - 1),
                                     Count    |-> count[i]]]
    BY <1>1, <1>3 DEF TypeOK
  <2>2. Len(plans'[r]) = n
    BY <1>4, <2>1
  <2>3. plans'[r] # <<>>
    BY <1>4, <2>2
  <2>4. \A i \in 1..n : plans'[r][i].Location = Location(r, ordinal[r] + i - 1)
    BY <2>1, SMTT(30)
  <2>5. QED
    BY <2>2, <2>3, <2>4
<1>6. \A s \in Runs \ {r} : Same(s)
  BY <1>1, <1>4 DEF Same
<1>7. /\ \A s \in Runs : ordinal[s] <= ordinal'[s]
      /\ \A s \in Runs : epoch[s] # 0 => epoch'[s] = epoch[s]
  <2>1. ordinal[r] <= ordinal'[r]
    BY <1>4
  <2>2. \A s \in Runs \ {r} : ordinal[s] <= ordinal'[s]
    BY SMTT(30), <1>1, <1>4 DEF TypeOK
  <2>3. QED
    BY <1>1, <2>1, <2>2
<1>8. /\ plans[r] = <<>> /\ seqs[r] = <<>> /\ reply[r] = "none" /\ epoch[r] > 0
      /\ Base(r) = ordinal[r] /\ Base(r)' = ordinal[r]
  <2>1. plans[r] = <<>> /\ seqs[r] = <<>> /\ reply[r] = "none" /\ epoch[r] > 0
    BY ZenonT(30), <1>1 DEF RunInv, Control, Working, InPut
  <2>2. QED
    BY <1>4, <1>5, <2>1, SMTT(30) DEF Base
<1>9. Control(r)'
  BY SMTT(30), <1>1, <1>4, <1>5, <1>8 DEF Control, Working, InPut, Location
<1>10. Sound(m[r], epoch, ordinal)'
  BY <1>1, <1>7, SoundFrame
<1>11. Attempt(r)' /\ Outstanding(r)' /\ Answered(r)'
  BY <1>4 DEF Attempt, Outstanding, Answered, InPut
<1>12. Landing(r)'
  <2>1. \A j \in DOMAIN Log : Log[j].Location.run = r => Log[j].Location.ordinal < ordinal[r]
    BY DEF IInv, StoreInv, Sound, Owned, Log
  <2>2. QED
    BY <1>1, <1>8, <2>1 DEF Landing, NotLanded, Log
<1>13. Previous(r)'
  BY <1>1, <1>8 DEF RunInv, Previous, Log, Location
<1>14. RunInv(r)'
  BY <1>9, <1>10, <1>11, <1>12, <1>13 DEF RunInv
<1>15. \A q \in late : q.run = r => ~LateCommit(q)
  BY <1>1 DEF LateCommit
<1>16. Holds(r)' \in {Holds(r), 0}
  BY <1>1, <1>4 DEF Holds
<1>17. AckedIsDurable'
  BY <1>1 DEF IInv, AckedIsDurable, Log
<1>18. QED
  BY <1>1, <1>6, <1>7, <1>14, <1>15, <1>16, <1>17, LocalStep

-----------------------------------------------------------------------------
(* IInv is an invariant, and what follows from it.                         *)

\* The empty log with every run about to claim satisfies IInv.
LEMMA IInvInit == Init => IInv
<1> SUFFICES ASSUME Init PROVE IInv
  OBVIOUS
<1>1. TypeOK
  BY TypeInit
<1>2. /\ object.exists = FALSE /\ object.etag = 0 /\ object.data = NewManifest
      /\ late = {} /\ acked = {} /\ object.data.epoch = 0
  BY DEF Init, Missing, NoVersion, NewManifest
<1>3. ASSUME NEW r \in Runs
      PROVE  /\ pc[r] = "claim" /\ epoch[r] = 0 /\ ordinal[r] = 0 /\ m[r] = NewManifest
             /\ reply[r] = "none" /\ plans[r] = <<>> /\ seqs[r] = <<>>
  BY DEF Init
<1>4. StoreInv
  BY <1>2, NewManifestSound DEF StoreInv
<1>5. ASSUME NEW r \in Runs PROVE RunInv(r)
  <2>1. Len(plans[r]) = 0 /\ Base(r) = 0 /\ 1..Len(plans[r]) = {}
    BY <1>3 DEF Base
  <2>2. Control(r)
    BY <1>3, <2>1 DEF Control, Working, InPut
  <2>3. Sound(m[r], epoch, ordinal)
    BY <1>3, NewManifestSound
  <2>4. Attempt(r) /\ Outstanding(r) /\ Answered(r) /\ Landing(r) /\ Previous(r)
    BY <1>3, <2>1 DEF Attempt, Outstanding, Answered, Landing, Previous, Working, InPut
  <2>5. QED
    BY <2>2, <2>3, <2>4 DEF RunInv
<1>6. EpochInv
  BY <1>2, <1>3 DEF EpochInv, Holds
<1>7. QED
  BY <1>1, <1>2, <1>4, <1>5, <1>6 DEF IInv, AckedIsDurable

\* A step that changes no variable keeps IInv.
LEMMA StutterStep ==
  ASSUME IInv, UNCHANGED vars
  PROVE  IInv'
<1>1. /\ object' = object /\ late' = late /\ pc' = pc /\ epoch' = epoch
      /\ ordinal' = ordinal /\ m' = m /\ ver' = ver /\ reply' = reply /\ seqs' = seqs
      /\ attempts' = attempts /\ conflicts' = conflicts /\ unknown' = unknown
      /\ plans' = plans /\ acked' = acked
  BY DEF vars, attemptVars, callVars
<1>2. TypeOK' /\ StoreInv' /\ AckedIsDurable'
  BY <1>1 DEF IInv, TypeOK, StoreInv, AckedIsDurable, Log
<1>3. ASSUME NEW r \in Runs PROVE RunInv(r)'
  <2>1. Same(r) /\ object' = object
    BY <1>1 DEF Same
  <2>2. Sound(m[r], epoch', ordinal')
    BY <1>1 DEF IInv, RunInv
  <2>3. QED
    BY <2>1, <2>2, RunFrame DEF IInv
<1>4. ASSUME NEW q \in late PROVE LateInv(q)'
  BY <1>1, ZenonT(30) DEF IInv, LateInv, LateCommit, ClaimOf, GroupOn, Working, Log
<1>5. EpochInv'
  BY <1>1, ZenonT(30) DEF IInv, EpochInv, Holds
<1>6. QED
  BY <1>1, <1>2, <1>3, <1>4, <1>5 DEF IInv

\* Every step of claim, commitEntries, the store and a crash keeps IInv.
LEMMA IInvStep == IInv /\ [Next]_vars => IInv'
<1> SUFFICES ASSUME IInv, [Next]_vars PROVE IInv'
  OBVIOUS
<1>1. TypeOK'
  BY TypeStep DEF IInv, RunInv
<1>2. ASSUME NEW r \in Runs, Arrive(r) PROVE IInv'
  BY <1>1, <1>2, ArriveStep
<1>3. ASSUME NEW r \in Runs, Refuse(r) PROVE IInv'
  <2>1. PICK x \in {"conflict", "exists", "precondition"} : x = "conflict"
    OBVIOUS
  <2>2. reply' = [reply EXCEPT ![r] = x]
    BY <1>3, <2>1 DEF Refuse
  <2>3. QED
    BY <1>1, <1>3, <2>2, RefusedStep DEF Refuse
<1>4. ASSUME NEW r \in Runs, Claim(r) PROVE IInv'
  BY <1>1, <1>4, ClaimLoadStep, ClaimFailSteps, ClaimWonStep, ZenonT(30) DEF Claim
<1>5. ASSUME NEW r \in Runs, BeginCommit(r) PROVE IInv'
  BY <1>1, <1>5, BeginCommitStep
<1>6. ASSUME NEW r \in Runs, Commit(r) PROVE IInv'
  BY <1>1, <1>6, CommitFailSteps, HarvestStep, AttemptSteps, CommitOkStep, ZenonT(30) DEF Commit
<1>7. ASSUME NEW r \in Runs, Crash(r) PROVE IInv'
  BY <1>1, <1>7, CrashStep
<1>8. ASSUME NEW q \in late, ArriveLate(q) PROVE IInv'
  BY <1>1, <1>8, ArriveLateStep
<1>9. CASE UNCHANGED vars
  BY <1>9, StutterStep
<1>10. QED
  BY <1>2, <1>3, <1>4, <1>5, <1>6, <1>7, <1>8, <1>9 DEF Next

\* The claim and commit protocol keeps the stored manifest, every attempt and
\* every PUT in flight or abandoned in step with one another.
THEOREM Invariance == Spec => []IInv
  BY IInvInit, IInvStep, PTL DEF Spec

\* Every variable keeps its type: manifests stay well formed through every
\* append, claim and retry, whatever the counts and the number of runs.
THEOREM TypeCorrect == Spec => []TypeOK
  BY Invariance, PTL DEF IInv

\* The sequences the manifest assigns have no gap and no overlap.
THEOREM LogIsDense == Spec => []DenseSequences
<1>1. IInv => DenseSequences
  BY DEF IInv, StoreInv, Sound, DenseSequences
<1>2. QED
  BY <1>1, Invariance, PTL

\* No retry, late PUT, crash or failover commits a segment twice.
THEOREM CommitsExactlyOnce == Spec => []ExactlyOnce
<1>1. IInv => ExactlyOnce
  BY DEF IInv, StoreInv, Sound, ExactlyOnce
<1>2. QED
  BY <1>1, Invariance, PTL

\* What an Append was told of its sequences stays true of the log.
THEOREM AcksAreDurable == Spec => []AckedIsDurable
  BY Invariance, PTL DEF IInv

\* claim gives an epoch to one run at most, lost responses included.
THEOREM EpochsHaveOneOwner == Spec => []OneOwnerPerEpoch
<1>1. IInv => OneOwnerPerEpoch
  BY DEF IInv, EpochInv, Holds, OneOwnerPerEpoch
<1>2. QED
  BY <1>1, Invariance, PTL

\* The epoch check and the CAS keep a fenced run from writing behind its
\* successor.
THEOREM FencingHolds == Spec => []NoZombieWrites
<1>1. IInv => NoZombieWrites
  BY DEF IInv, StoreInv, Sound, NoZombieWrites
<1>2. QED
  BY <1>1, Invariance, PTL

\* The segments of a run enter the log in order and without holes.
THEOREM OrderIsKept == Spec => []CommitsInOrder
<1>1. IInv => CommitsInOrder
  BY DEF IInv, StoreInv, Sound, CommitsInOrder
<1>2. QED
  BY <1>1, Invariance, PTL

\* harvestCommitted, scanning four group lengths of the tail, sees all of a
\* landed group and never a part of one: its error branch is unreachable.
THEOREM HarvestIsSound == Spec => []GroupsAreAtomic
<1>1. ASSUME IInv, NEW r \in Runs, pc[r] = "load", object.data.epoch = epoch[r]
      PROVE  LET found == {i \in DOMAIN plans[r] :
                             \E j \in DOMAIN Log : Log[j].Location = plans[r][i].Location}
             IN  found = Landed(object.data, plans[r]) /\ found \in {{}, DOMAIN plans[r]}
  <2> DEFINE found == {i \in DOMAIN plans[r] :
                         \E j \in DOMAIN Log : Log[j].Location = plans[r][i].Location}
  <2>1. /\ object.data \in Manifests /\ plans[r] \in Seq(Segments) /\ Len(plans[r]) \in Nat
        /\ DOMAIN plans[r] = 1..Len(plans[r])
        /\ DOMAIN Log = 1..Len(Log) /\ Len(Log) \in Nat /\ ordinal[r] \in Nat
    BY <1>1, TypeParts, ManifestShape, SMTT(30) DEF IInv, Log
  <2>2. TailLocations(object.data, 4 * Len(plans[r])) \subseteq {Log[j] : j \in DOMAIN Log}
    BY <2>1, SMTT(30) DEF TailLocations, Log
  <2>3. Landed(object.data, plans[r]) \subseteq found
    BY <2>2 DEF Landed
  <2>4. CASE NotLanded(r)
    <3>1. ASSUME NEW i \in DOMAIN plans[r], NEW j \in DOMAIN Log,
                 Log[j].Location = plans[r][i].Location
          PROVE  FALSE
      <4>1. plans[r][i].Location = Location(r, Base(r) + i - 1) /\ i \in 1..Len(plans[r])
        BY <1>1, <2>1, <3>1 DEF IInv, RunInv, Control
      <4>2. Base(r) + i - 1 >= Base(r)
        BY <2>1, <4>1 DEF Base
      <4>3. /\ Log[j].Location.run = r
            /\ Log[j].Location.ordinal = Base(r) + i - 1
        BY <3>1, <4>1, LocationFields, SMTT(30)
      <4>4. Base(r) + i - 1 < Base(r)
        BY <2>4, <3>1, <4>3 DEF NotLanded
      <4>5. QED
        BY <2>1, <4>1, <4>2, <4>4 DEF Base
    <3>2. QED
      BY <2>3, <3>1
  <2>5. ASSUME NEW k \in 0..Len(Log), LandedAt(r, k)
        PROVE  Landed(object.data, plans[r]) = DOMAIN plans[r]
    BY <1>1, <2>5, LandedIsFound
  <2>6. NotLanded(r) \/ \E k \in 0..Len(Log) : LandedAt(r, k)
    BY <1>1 DEF IInv, RunInv, Landing, Working
  <2>7. QED
    BY <2>3, <2>4, <2>5, <2>6
<1>2. IInv => GroupsAreAtomic
  BY <1>1 DEF GroupsAreAtomic
<1>3. QED
  BY <1>2, Invariance, PTL

\* A manifest that can land advances the stored one.
LEMMA LandingAdvances ==
  ASSUME IInv, NEW mf \in Manifests, NEW n \in Nat \ {0}, ClaimOf(mf) \/ GroupOn(mf, n),
         object'.data = mf
  PROVE  Advances
<1>1. object.data \in Manifests
  BY DEF IInv, TypeOK
<1>2. /\ object.data.epoch \in Nat /\ object.data.nextSequence \in Nat
      /\ Len(Log) \in Nat /\ DOMAIN Log = 1..Len(Log) /\ Log' = mf.entries
  BY <1>1, ManifestShape DEF Log
<1>3. CASE ClaimOf(mf)
  <2>1. mf.epoch = object.data.epoch + 1 /\ mf.entries = Log
    BY <1>3, ClaimLands
  <2>2. object'.data.epoch > object.data.epoch
    BY <1>2, <2>1
  <2>3. QED
    BY <1>2, <2>1, <2>2 DEF Advances
<1>4. CASE GroupOn(mf, n)
  <2>1. /\ Len(Log) <= Len(Log') /\ \A j \in 1..Len(Log) : Log'[j] = Log[j]
        /\ mf.epoch = object.data.epoch
        /\ mf.nextSequence >= object.data.nextSequence + n
    BY <1>2, <1>4 DEF GroupOn, Prefix
  <2>2. mf.nextSequence \in Nat
    BY ManifestShape
  <2>3. mf.nextSequence > object.data.nextSequence
    BY <1>2, <2>1, <2>2
  <2>4. QED
    BY <1>2, <2>1, <2>3 DEF Advances
<1>5. QED
  BY <1>3, <1>4

\* Only a PUT that lands changes the object, and it advances it.
LEMMA StepAdvances == IInv /\ [Next]_vars => [Advances]_object
<1> SUFFICES ASSUME IInv, [Next]_vars, object' # object PROVE Advances
  OBVIOUS
<1>1. /\ object.exists <=> object.etag # 0
      /\ object \in [exists : BOOLEAN, etag : Nat, data : Manifests]
  BY DEF IInv, StoreInv, TypeOK
<1>2. ASSUME NEW v \in Nat, NEW x, object' = PutOpts(object, v, x)
      PROVE  v = object.etag /\ object'.data = x
  BY <1>1, <1>2 DEF PutOpts, PutResult, NoVersion
<1>3. ASSUME NEW r \in Runs, Arrive(r) PROVE Advances
  <2>1. ver[r] = object.etag /\ object'.data = m[r] /\ InPut(r) /\ reply[r] = "none"
    BY <1>2, <1>3, TypeParts DEF Arrive, IInv
  <2>2. /\ RunInv(r) /\ plans[r] \in Seq(Segments) /\ seqs[r] \in Seq(Nat)
        /\ m[r] \in Manifests
    BY TypeParts DEF IInv
  <2>3. CASE pc[r] = "claimPut"
    <3>1. ClaimOf(m[r])
      BY <2>1, <2>2, <2>3 DEF RunInv, Outstanding
    <3>2. QED
      BY <2>1, <2>2, <3>1, LandingAdvances
  <2>4. CASE pc[r] = "commitPut"
    <3>1. Len(seqs[r]) \in Nat \ {0}
      BY <2>2, <2>4, SMTT(30) DEF RunInv, Control, Working
    <3>2. GroupOn(m[r], Len(seqs[r]))
      BY <2>1, <2>2, <2>4 DEF RunInv, Outstanding
    <3>3. QED
      BY <2>1, <2>2, <3>1, <3>2, LandingAdvances
  <2>5. QED
    BY <2>1, <2>3, <2>4 DEF InPut
<1>4. ASSUME NEW q \in late, ArriveLate(q) PROVE Advances
  <2>1. LateInv(q) /\ q.ver \in Nat /\ q.m \in Manifests
    BY DEF IInv, TypeOK
  <2>2. q.ver = object.etag /\ object'.data = q.m
    BY <1>2, <1>4, <2>1 DEF ArriveLate
  <2>3. CASE ClaimOf(q.m)
    BY <2>1, <2>2, <2>3, LandingAdvances
  <2>4. CASE LateCommit(q)
    <3>1. Len(q.m.entries) - Len(Log) \in Nat \ {0}
      BY <1>1, <2>1, <2>4, ManifestShape, SMTT(30) DEF LateCommit, Log
    <3>2. QED
      BY <2>1, <2>2, <2>4, <3>1, LandingAdvances DEF LateCommit
  <2>5. QED
    BY <2>1, <2>2, <2>3, <2>4 DEF LateInv
<1>5. QED
  BY <1>3, <1>4, ZenonT(30) DEF Next, vars, Claim, Commit, Refuse, BeginCommit, Crash,
     ClaimLoad, ClaimLoadFails, ClaimExhausted, ClaimWon, ClaimLost, ClaimFails,
     LoadFails, Fenced, Harvest, Load, AppendPlan, CommitOk, CommitConflict,
     CommitRefused, CommitUnknown

\* The stored manifest never returns to an earlier content: it keeps its
\* entries and its (epoch, nextSequence) grows with every write.
THEOREM ManifestOnlyAdvances == Spec => WritesOnlyAdvance
  BY Invariance, StepAdvances, PTL DEF Spec, WritesOnlyAdvance

-----------------------------------------------------------------------------
(* LogWriter implements AppendLog: its initial states map to AppendLog's,  *)
(* and each of its steps to a step of AppendLog or to none.                *)
(*                                                                         *)
(* To AppendLog a step is one of four kinds: it leaves every call as it    *)
(* is (and may land a group), it begins a call, it ends one with success,  *)
(* or it ends one without.                                                 *)

\* Segments of a call that has not returned have not been acknowledged: what
\* keeps a second acknowledgement from being a success of no call.
AckedBefore == \A a \in acked : a.Location.ordinal < Base(a.Location.run)

Group(r) == {plans[r][i].Location : i \in DOMAIN plans[r]}

Named(r) == {Location(r, n) : n \in 0..ordinal[r] - 1}

Called == UNION {Named(r) : r \in Runs}
Open == UNION {Group(r) : r \in Runs}

KeepsCalls == ordinal' = ordinal /\ plans' = plans /\ acked' = acked

Ends(r) == /\ ordinal' = ordinal /\ object' = object
           /\ plans' = [plans EXCEPT ![r] = <<>>]

Acks(r) ==
  /\ Working(r)
  /\ \E A : /\ acked' = acked \cup A
            /\ \A a \in A : a.Location \in Group(r)
            /\ \A l \in Group(r) : \E a \in A : a.Location = l

StepKinds ==
  \/ KeepsCalls
  \/ \E r \in Runs : BeginCommit(r) \/ (Ends(r) /\ (acked' = acked \/ Acks(r)))

-----------------------------------------------------------------------------

\* harvestCommitted acknowledges exactly the segments of the group.
LEMMA HarvestKind ==
  ASSUME NEW r \in Runs, Harvest(r)
  PROVE  Ends(r) /\ (acked' = acked \/ Acks(r))
<1>1. Ends(r)
  BY DEF Harvest, Ends, Return, Halt
<1>2. CASE Landed(object.data, plans[r]) = DOMAIN plans[r]
  <2> DEFINE T == TailLocations(object.data, 4 * Len(plans[r]))
             F == {f \in T : \E i \in DOMAIN plans[r] : f.Location = plans[r][i].Location}
             A == {[Location |-> e.Location, Sequence |-> e.Sequence] : e \in F}
  <2>1. acked' = acked \cup A
    BY <1>2 DEF Harvest
  <2>2. \A i \in DOMAIN plans[r] : \E e \in T : e.Location = plans[r][i].Location
    BY <1>2 DEF Landed
  <2>3. \A a \in A : a.Location \in Group(r)
    <3>1. ASSUME NEW e \in F
          PROVE  [Location |-> e.Location, Sequence |-> e.Sequence].Location \in Group(r)
      BY DEF Group
    <3>2. QED
      BY <3>1
  <2>4. ASSUME NEW i \in DOMAIN plans[r]
        PROVE  \E a \in A : a.Location = plans[r][i].Location
    <3>1. PICK e \in T : e.Location = plans[r][i].Location
      BY <2>2
    <3>2. [Location |-> e.Location, Sequence |-> e.Sequence] \in A
      BY <3>1
    <3>3. [Location |-> e.Location, Sequence |-> e.Sequence].Location = plans[r][i].Location
      BY <3>1
    <3>4. QED
      BY <3>2, <3>3
  <2>5. \A l \in Group(r) : \E a \in A : a.Location = l
    BY <2>4, ZenonT(30) DEF Group
  <2>6. Working(r)
    BY DEF Harvest, Working
  <2>7. QED
    BY <1>1, <2>1, <2>3, <2>5, <2>6 DEF Acks
<1>3. CASE Landed(object.data, plans[r]) # DOMAIN plans[r]
  BY <1>1, <1>3 DEF Harvest
<1>4. QED
  BY <1>2, <1>3

\* A commit whose PUT was answered with success acknowledges its group.
LEMMA CommitOkKind ==
  ASSUME NEW r \in Runs, CommitOk(r)
  PROVE  Ends(r) /\ Acks(r)
<1> DEFINE A == {[Location |-> plans[r][i].Location, Sequence |-> seqs[r][i]] :
                   i \in DOMAIN plans[r]}
<1>1. Ends(r) /\ Working(r) /\ acked' = acked \cup A
  BY DEF CommitOk, Ends, Return, Working
<1>2. ASSUME NEW i \in DOMAIN plans[r]
      PROVE  \E a \in A : a.Location = plans[r][i].Location
  <2>1. [Location |-> plans[r][i].Location, Sequence |-> seqs[r][i]] \in A
    OBVIOUS
  <2>2. [Location |-> plans[r][i].Location, Sequence |-> seqs[r][i]].Location
          = plans[r][i].Location
    OBVIOUS
  <2>3. QED
    BY <2>1, <2>2
<1>3. \A a \in A : a.Location \in Group(r)
  <2>1. ASSUME NEW i \in DOMAIN plans[r]
        PROVE  [Location |-> plans[r][i].Location, Sequence |-> seqs[r][i]].Location \in Group(r)
    BY DEF Group
  <2>2. QED
    BY <2>1
<1>4. \A l \in Group(r) : \E a \in A : a.Location = l
  BY <1>2, ZenonT(30) DEF Group
<1>5. QED
  BY <1>1, <1>3, <1>4 DEF Acks

\* Every step of a run or of the store is of one of the four kinds.
LEMMA StepKind == [Next]_vars => StepKinds
<1> SUFFICES ASSUME [Next]_vars PROVE StepKinds
  OBVIOUS
<1>1. ASSUME NEW r \in Runs, Arrive(r) \/ Refuse(r) PROVE KeepsCalls
  BY <1>1 DEF Arrive, Refuse, KeepsCalls, callVars
<1>2. ASSUME NEW q \in late, ArriveLate(q) PROVE KeepsCalls
  BY <1>2 DEF ArriveLate, KeepsCalls, callVars
<1>3. ASSUME NEW r \in Runs, Claim(r) PROVE KeepsCalls \/ (Ends(r) /\ acked' = acked)
  BY <1>3 DEF Claim, ClaimLoad, ClaimLoadFails, ClaimExhausted, ClaimWon, ClaimLost,
     ClaimFails, ClaimAgain, Return, KeepsCalls, Ends, callVars
<1>4. ASSUME NEW r \in Runs, Crash(r) PROVE Ends(r) /\ acked' = acked
  BY <1>4 DEF Crash, Return, Ends
<1>5. ASSUME NEW r \in Runs, NEW u, Transient(r, u), object' = object, ordinal' = ordinal,
             acked' = acked
      PROVE  KeepsCalls \/ (Ends(r) /\ acked' = acked)
  BY <1>5 DEF Transient, Halt, Return, KeepsCalls, Ends
<1>6. ASSUME NEW r \in Runs, LoadFails(r) \/ CommitRefused(r) \/ CommitUnknown(r)
      PROVE  KeepsCalls \/ (Ends(r) /\ acked' = acked)
  BY <1>5, <1>6 DEF LoadFails, CommitRefused, CommitUnknown
<1>7. ASSUME NEW r \in Runs, Fenced(r) \/ CommitConflict(r) \/ Load(r) \/ AppendPlan(r)
      PROVE  KeepsCalls \/ (Ends(r) /\ acked' = acked)
  BY <1>7 DEF Fenced, CommitConflict, Load, AppendPlan, Halt, Return, KeepsCalls, Ends,
     callVars
<1>8. CASE UNCHANGED vars
  BY <1>8 DEF vars, callVars, KeepsCalls, StepKinds
<1>9. QED
  BY <1>1, <1>2, <1>3, <1>4, <1>6, <1>7, <1>8, HarvestKind, CommitOkKind
  DEF Next, Commit, StepKinds

-----------------------------------------------------------------------------
(* Calls and their segments.                                               *)

\* The segments of the call in progress are the last ones the run has named.
LEMMA GroupIs ==
  ASSUME IInv, NEW r \in Runs
  PROVE  /\ Group(r) = {Location(r, n) : n \in Base(r)..ordinal[r] - 1}
         /\ Base(r) \in Nat /\ Base(r) <= ordinal[r]
         /\ Group(r) # {} <=> Working(r)
<1>1. /\ Control(r) /\ plans[r] \in Seq(Segments) /\ ordinal[r] \in Nat
  BY TypeParts DEF IInv, RunInv
<1>2. /\ Len(plans[r]) \in Nat /\ DOMAIN plans[r] = 1..Len(plans[r])
      /\ plans[r] # <<>> <=> Len(plans[r]) > 0
  BY <1>1
<1>3. /\ Base(r) \in Nat /\ Base(r) <= ordinal[r] /\ Base(r) + Len(plans[r]) = ordinal[r]
  BY <1>1, <1>2 DEF Base, Control
<1>4. \A i \in DOMAIN plans[r] : plans[r][i].Location = Location(r, Base(r) + i - 1)
  BY <1>1, <1>2 DEF Control
<1>5. \A i \in DOMAIN plans[r] : Base(r) + i - 1 \in Base(r)..ordinal[r] - 1
  BY <1>1, <1>2, <1>3
<1>6. \A n \in Base(r)..ordinal[r] - 1 :
        /\ n - Base(r) + 1 \in DOMAIN plans[r]
        /\ Base(r) + (n - Base(r) + 1) - 1 = n
  BY SMTT(30), <1>1, <1>2, <1>3
<1>7. Group(r) \subseteq {Location(r, n) : n \in Base(r)..ordinal[r] - 1}
  BY <1>4, <1>5 DEF Group
<1>8. ASSUME NEW n \in Base(r)..ordinal[r] - 1
      PROVE  Location(r, n) \in Group(r)
  <2>1. plans[r][n - Base(r) + 1].Location = Location(r, n)
    BY <1>4, <1>6
  <2>2. QED
    BY <1>6, <2>1 DEF Group
<1>9. Group(r) # {} <=> Working(r)
  <2>1. Working(r) <=> 1 \in DOMAIN plans[r]
    BY <1>1, <1>2, SMTT(30) DEF Control
  <2>2. DOMAIN plans[r] # {} => 1 \in DOMAIN plans[r]
    BY <1>2
  <2>3. QED
    BY <2>1, <2>2 DEF Group
<1>10. QED
  BY <1>3, <1>7, <1>8, <1>9

Groups == \A r \in Runs : Group(r) = {Location(r, n) : n \in Base(r)..ordinal[r] - 1}

\* The same for all runs, to use in the state after a step.
LEMMA GroupsAre == IInv => Groups
  BY GroupIs DEF Groups

\* A run's calls name its own segments only.
LEMMA GroupsApart ==
  ASSUME IInv, NEW r \in Runs, NEW s \in Runs, r # s, NEW l \in Group(r)
  PROVE  l \notin Group(s)
<1>1. ASSUME NEW t \in Runs, NEW x \in Group(t) PROVE x.run = t
  <2>1. PICK n \in Base(t)..ordinal[t] - 1 : x = Location(t, n)
    BY ZenonT(40), <1>1, GroupIs
  <2>2. QED
    BY <2>1, LocationFields
<1>2. QED
  BY <1>1

\* What the end of a call leaves open: all but its own segments.
LEMMA EndsOpen ==
  ASSUME IInv, NEW r \in Runs, Ends(r)
  PROVE  Open' = Open \ Group(r) /\ Group(r) \subseteq Open /\ Called' = Called
<1>1. plans \in [Runs -> Seq(Segments)]
  BY DEF IInv, TypeOK
<1>2. plans'[r] = <<>> /\ \A s \in Runs \ {r} : plans'[s] = plans[s]
  BY <1>1 DEF Ends
<1>3. DOMAIN plans'[r] = {}
  BY <1>2
<1>4. Group(r)' = {} /\ \A s \in Runs \ {r} : Group(s)' = Group(s)
  BY <1>2, <1>3 DEF Group
<1>5. \A s \in Runs \ {r} : \A l \in Group(s) : l \notin Group(r)
  BY GroupsApart
<1>6. Open' = Open \ Group(r) /\ Group(r) \subseteq Open
  BY <1>4, <1>5 DEF Open
<1>7. Called' = Called
  <2>1. ordinal' = ordinal
    BY DEF Ends
  <2>2. QED
    BY <2>1, SMTT(30) DEF Called, Named
<1>8. QED
  BY <1>6, <1>7

-----------------------------------------------------------------------------
(* Each kind of step as a step of AppendLog.                               *)

\* A step that leaves the calls alone lands a group at the end of the log, or
\* is no step of AppendLog: a PUT takes effect whole and at most once.
LEMMA LandMaps ==
  ASSUME IInv, IInv', [Next]_vars, KeepsCalls
  PROVE  [Abstract!Next]_(Abstract!vars)
<1>1. Called' = Called /\ Open' = Open /\ acked' = acked
  BY SMTT(30) DEF KeepsCalls, Called, Named, Open, Group
<1>2. CASE Log' = Log
  BY <1>1, <1>2 DEF Abstract!vars, Called, Named, Open, Group
<1>3. CASE Log' # Log
  <2>1. object.data \in Manifests /\ object'.data \in Manifests
    BY DEF IInv, TypeOK
  <2>2. /\ Log \in Seq(Entries) /\ Log' \in Seq(Entries)
        /\ Len(Log) \in Nat /\ Len(Log') \in Nat
        /\ DOMAIN Log = 1..Len(Log) /\ DOMAIN Log' = 1..Len(Log')
    BY <2>1, ManifestShape DEF Log
  <2>3. /\ Len(Log) <= Len(Log') /\ \A i \in 1..Len(Log) : Log'[i] = Log[i]
    <3>1. object' # object
      BY <1>3 DEF Log
    <3>2. Advances
      BY <3>1, StepAdvances
    <3>3. QED
      BY <2>2, <3>2 DEF Advances
  <2>4. Len(Log) < Len(Log')
    BY SMTT(30), <1>3, <2>2, <2>3
  <2>5. ASSUME NEW i \in Len(Log) + 1..Len(Log')
        PROVE  /\ Log'[i].Location \in Called
               /\ \A j \in 1..i - 1 : Log'[j].Location # Log'[i].Location
               /\ Log'[i].Sequence = Abstract!NextSeq(SubSeq(Log', 1, i - 1))
    <3>1. i \in 1..Len(Log') /\ i \in DOMAIN Log'
      BY <2>2
    <3>2. Dense(object'.data) /\ Unique(object'.data) /\ Owned(object'.data, epoch', ordinal')
      BY DEF IInv, StoreInv, Sound
    <3>3. Log'[i].Location \in Called
      <4>1. /\ Log'[i].Location \in Locations
            /\ Log'[i].Location.run \in Runs /\ Log'[i].Location.ordinal \in Nat
        BY <2>1, <3>1, ManifestShape DEF Log
      <4>2. Log'[i].Location.ordinal < ordinal[Log'[i].Location.run]
        BY <3>1, <3>2 DEF Owned, Log, KeepsCalls
      <4>3. Log'[i].Location = Location(Log'[i].Location.run, Log'[i].Location.ordinal)
        BY <4>1 DEF Location, Locations
      <4>4. ordinal[Log'[i].Location.run] \in Nat
        BY <4>1, TypeParts DEF IInv
      <4>5. Log'[i].Location.ordinal \in 0..ordinal[Log'[i].Location.run] - 1
        BY <4>1, <4>2, <4>4
      <4>6. Log'[i].Location \in Named(Log'[i].Location.run)
        <5>1. ASSUME NEW t, NEW n \in 0..ordinal[t] - 1, NEW l, l = Location(t, n)
              PROVE  l \in Named(t)
          BY <5>1 DEF Named
        <5>2. QED
          BY <4>3, <4>5, <5>1
      <4>7. QED
        BY <4>1, <4>6 DEF Called
    <3>4. ASSUME NEW j \in 1..i - 1 PROVE Log'[j].Location # Log'[i].Location
      <4>1. j \in DOMAIN Log' /\ j # i
        BY <2>2, <3>1
      <4>2. QED
        BY <3>1, <3>2, <4>1 DEF Unique, Log
    <3>5. Log'[i].Sequence = Abstract!NextSeq(SubSeq(Log', 1, i - 1))
      <4>1. CASE i = 1
        <5>1. SubSeq(Log', 1, i - 1) = <<>>
          BY <2>2, <4>1
        <5>2. Log' # <<>>
          BY <2>2, <3>1
        <5>3. Log'[1].Sequence = 0
          BY <3>2, <5>2 DEF Dense, Log
        <5>4. QED
          BY <4>1, <5>1, <5>3 DEF Abstract!NextSeq
      <4>2. CASE i > 1
        <5>1. i - 1 \in 1..Len(Log') - 1 /\ i - 1 \in 1..Len(Log') /\ (i - 1) + 1 = i
          BY <2>2, <3>1, <4>2
        <5>2. Log'[(i - 1) + 1].Sequence = End(Log'[i - 1])
          BY <3>2, <5>1 DEF Dense, Tiles, Log
        <5>3. Log'[i - 1] \in Entries
          BY <2>1, <5>1, ManifestShape DEF Log
        <5>4. Log'[i - 1].Count # 0
          BY <5>3 DEF Entries
        <5>5. End(Log'[i - 1]) = Log'[i - 1].Sequence + Log'[i - 1].Count
          BY <5>4 DEF End, RangeSize
        <5>6. /\ SubSeq(Log', 1, i - 1) # <<>> /\ Len(SubSeq(Log', 1, i - 1)) = i - 1
              /\ SubSeq(Log', 1, i - 1)[i - 1] = Log'[i - 1]
          BY <2>2, <5>1
        <5>7. QED
          BY <5>1, <5>2, <5>5, <5>6 DEF Abstract!NextSeq
      <4>3. QED
        BY <2>2, <4>1, <4>2
    <3>6. QED
      BY <3>3, <3>4, <3>5
  <2>6. Abstract!Land
    BY <1>1, <2>3, <2>4, <2>5 DEF Abstract!Land, Called, Named, Open, Group
  <2>7. QED
    BY <2>6 DEF Abstract!Next
<1>4. QED
  BY <1>2, <1>3

\* A call that ends without success: an error, a halt or a crash.
LEMMA ReturnErrMaps ==
  ASSUME IInv, NEW r \in Runs, Ends(r), acked' = acked
  PROVE  Abstract!Next
<1>1. Open' = Open \ Group(r) /\ Group(r) \subseteq Open /\ Called' = Called
  BY EndsOpen
<1>2. Log' = Log
  BY DEF Ends, Log
<1>3. Abstract!ReturnErr
  BY <1>1, <1>2 DEF Abstract!ReturnErr, Called, Named, Open, Group
<1>4. QED
  BY <1>3 DEF Abstract!Next

\* A call that ends with success: each of its segments is acknowledged, for
\* the first time, with the sequence it has in the log.
LEMMA ReturnOkMaps ==
  ASSUME IInv, IInv', AckedBefore, NEW r \in Runs, Ends(r), Acks(r)
  PROVE  Abstract!Next
<1>1. Open' = Open \ Group(r) /\ Group(r) \subseteq Open /\ Called' = Called
  BY EndsOpen
<1>2. Log' = Log
  BY DEF Ends, Log
<1>3. PICK A : /\ acked' = acked \cup A
               /\ \A a \in A : a.Location \in Group(r)
               /\ \A l \in Group(r) : \E a \in A : a.Location = l
  BY DEF Acks
<1>4. ASSUME NEW a \in acked PROVE a.Location \notin Group(r)
  <2>1. ASSUME NEW n \in Base(r)..ordinal[r] - 1, a.Location = Location(r, n) PROVE FALSE
    <3>1. a.Location.run = r /\ a.Location.ordinal = n
      BY <2>1, LocationFields, SMTT(30)
    <3>2. n < Base(r)
      BY <3>1 DEF AckedBefore
    <3>3. QED
      BY <2>1, <3>2, GroupIs
  <2>2. QED
    BY <2>1, GroupIs
<1>5. acked' \ acked = A
  BY <1>3, <1>4
<1>6. {a.Location : a \in acked' \ acked} = Group(r)
  BY <1>3, <1>5
<1>7. Group(r) # {}
  BY GroupIs DEF Acks
<1>8. \A a \in acked' \ acked : \E i \in 1..Len(Log) :
        Log[i].Location = a.Location /\ Log[i].Sequence = a.Sequence
  <2>1. DOMAIN Log = 1..Len(Log)
    BY ManifestShape, ZenonT(30) DEF IInv, TypeOK, Log
  <2>2. \A a \in acked' : \E i \in DOMAIN Log :
          Log[i].Location = a.Location /\ Log[i].Sequence = a.Sequence
    BY <1>2 DEF IInv, AckedIsDurable
  <2>3. QED
    BY <2>1, <2>2, ZenonT(30)
<1>9. Abstract!ReturnOk
  <2>1. \E S \in SUBSET Open : S # {} /\ Open' = Open \ S
                               /\ {a.Location : a \in acked' \ acked} = S
    BY <1>1, <1>6, <1>7
  <2>2. acked \subseteq acked'
    BY <1>3
  <2>3. QED
    BY <1>1, <1>2, <1>8, <2>1, <2>2, ZenonT(30) DEF Abstract!ReturnOk, Called, Named, Open, Group
<1>10. QED
  BY <1>9 DEF Abstract!Next

\* What commitInOrder's hand-over changes: the ordinals after the last one
\* go to the group.
LEMMA BeginCommitFacts ==
  ASSUME IInv, NEW r \in Runs, BeginCommit(r)
  PROVE  /\ Base(r) = ordinal[r] /\ Base(r)' = ordinal[r]
         /\ ordinal[r] < ordinal'[r] /\ ordinal[r] \in Nat /\ ordinal'[r] \in Nat
         /\ \A s \in Runs \ {r} : plans'[s] = plans[s] /\ ordinal'[s] = ordinal[s]
<1>1. /\ plans \in [Runs -> Seq(Segments)] /\ ordinal \in [Runs -> Nat]
      /\ Control(r) /\ pc[r] = "idle"
  BY DEF IInv, TypeOK, RunInv, BeginCommit
<1>2. PICK n \in 1..ManifestAppendBatchSize : \E count \in [1..n -> Counts] :
        /\ plans' = [plans EXCEPT ![r] =
             [i \in 1..n |-> [Location |-> Location(r, ordinal[r] + i - 1),
                              Count    |-> count[i]]]]
        /\ ordinal' = [ordinal EXCEPT ![r] = @ + n]
  BY DEF BeginCommit
<1>3. n \in Nat /\ n > 0
  BY <1>2, BudgetAssumption, SMTT(30)
<1>4. plans[r] = <<>>
  BY <1>1 DEF Control, Working
<1>5. PICK count \in [1..n -> Counts] :
        /\ plans'[r] = [i \in 1..n |-> [Location |-> Location(r, ordinal[r] + i - 1),
                                        Count    |-> count[i]]]
        /\ ordinal'[r] = ordinal[r] + n
        /\ \A s \in Runs \ {r} : plans'[s] = plans[s] /\ ordinal'[s] = ordinal[s]
  BY <1>1, <1>2
<1>6. Len(plans'[r]) = n
  BY <1>3, <1>5
<1>7. QED
  BY SMTT(30), <1>1, <1>3, <1>4, <1>5, <1>6 DEF Base

\* A new group names segments nobody named before.
LEMMA CallMaps ==
  ASSUME IInv, IInv', NEW r \in Runs, BeginCommit(r)
  PROVE  Abstract!Next
<1>1. /\ acked' = acked /\ Log' = Log /\ Base(r) = ordinal[r] /\ Base(r)' = ordinal[r]
      /\ ordinal[r] < ordinal'[r] /\ ordinal[r] \in Nat /\ ordinal'[r] \in Nat
      /\ \A s \in Runs \ {r} : plans'[s] = plans[s] /\ ordinal'[s] = ordinal[s]
  BY BeginCommitFacts DEF BeginCommit, Log
<1>2. /\ Group(r)' = {Location(r, n) : n \in ordinal[r]..ordinal'[r] - 1}
      /\ Group(r) = {} /\ \A s \in Runs \ {r} : Group(s)' = Group(s)
  <2>1. Groups'
    BY GroupsAre, PTL
  <2>2. Group(r)' = {Location(r, n) : n \in ordinal[r]..ordinal'[r] - 1}
    BY <1>1, <2>1 DEF Groups
  <2>3. Group(r) = {}
    BY GroupIs DEF BeginCommit, Working
  <2>4. \A s \in Runs \ {r} : Group(s)' = Group(s)
    BY <1>1 DEF Group
  <2>5. QED
    BY <2>2, <2>3, <2>4
<1>3. Called' = Called \cup Group(r)' /\ Called \cap Group(r)' = {}
  <2>1. /\ 0..ordinal'[r] - 1 = (0..ordinal[r] - 1) \cup (ordinal[r]..ordinal'[r] - 1)
        /\ (0..ordinal[r] - 1) \cap (ordinal[r]..ordinal'[r] - 1) = {}
    BY <1>1
  <2>2. /\ Named(r)' = Named(r) \cup Group(r)'
        /\ \A s \in Runs \ {r} : Named(s)' = Named(s)
    <3>1. Named(r)' = {Location(r, n) : n \in 0..ordinal'[r] - 1}
      BY DEF Named
    <3>2. Named(r)' = Named(r) \cup Group(r)'
      BY <1>2, <2>1, <3>1 DEF Named
    <3>3. \A s \in Runs \ {r} : Named(s)' = Named(s)
      BY <1>1 DEF Named
    <3>4. QED
      BY <3>2, <3>3
  <2>3. ASSUME NEW s \in Runs, NEW l \in Named(s), l \in Group(r)' PROVE FALSE
    <3>1. PICK i \in 0..ordinal[s] - 1 : l = Location(s, i)
      BY <2>3 DEF Named
    <3>2. PICK j \in ordinal[r]..ordinal'[r] - 1 : l = Location(r, j)
      BY <1>2, <2>3
    <3>3. l.run = s /\ l.ordinal = i
      BY <3>1, LocationFields
    <3>4. l.run = r /\ l.ordinal = j
      BY <3>2, LocationFields
    <3>5. s = r /\ i = j
      BY <3>3, <3>4
    <3>6. QED
      BY <1>1, <3>1, <3>2, <3>5
  <2>4. QED
    BY <2>2, <2>3 DEF Called
<1>4. Group(r)' # {}
  BY <1>1, <1>2, SMTT(30)
<1>5. Open' = Open \cup Group(r)'
  BY <1>2 DEF Open
<1>6. Abstract!Call
  BY <1>1, <1>3, <1>4, <1>5 DEF Abstract!Call, Called, Named, Open, Group
<1>7. QED
  BY <1>6 DEF Abstract!Next

-----------------------------------------------------------------------------
(* The refinement.                                                         *)

\* Only the call in progress is acknowledged, and its segments come after
\* those of the earlier ones.
LEMMA AckedBeforeStep == IInv /\ IInv' /\ AckedBefore /\ [Next]_vars => AckedBefore'
<1> SUFFICES ASSUME IInv, IInv', AckedBefore, [Next]_vars PROVE AckedBefore'
  OBVIOUS
<1>1. \A a \in acked : a.Location.run \in Runs /\ a.Location.ordinal \in Nat
  BY DEF IInv, TypeOK, Locations
<1>2. CASE KeepsCalls
  <2>1. \A r \in Runs : Base(r)' = Base(r)
    BY <1>2 DEF KeepsCalls, Base
  <2>2. QED
    BY <1>1, <1>2, <2>1 DEF AckedBefore, KeepsCalls
<1>3. ASSUME NEW r \in Runs, BeginCommit(r) PROVE AckedBefore'
  <2>1. Base(r)' = Base(r) /\ \A s \in Runs \ {r} : Base(s)' = Base(s)
    BY <1>3, BeginCommitFacts DEF Base
  <2>2. acked' = acked
    BY <1>3 DEF BeginCommit
  <2>3. QED
    BY <1>1, <2>1, <2>2 DEF AckedBefore
<1>4. ASSUME NEW r \in Runs, Ends(r), acked' = acked \/ Acks(r) PROVE AckedBefore'
  <2>1. Base(r) \in Nat /\ Base(r) <= ordinal[r] /\ ordinal[r] \in Nat
    BY GroupIs, TypeParts DEF IInv
  <2>2. /\ Base(r)' = ordinal[r] /\ \A s \in Runs \ {r} : Base(s)' = Base(s)
    <3>1. plans'[r] = <<>> /\ \A s \in Runs \ {r} : plans'[s] = plans[s]
      BY <1>4 DEF Ends, IInv, TypeOK
    <3>2. ordinal' = ordinal
      BY <1>4 DEF Ends
    <3>3. Base(r)' = ordinal[r]
      BY <2>1, <3>1, <3>2 DEF Base
    <3>4. QED
      BY <3>1, <3>2, <3>3, ZenonT(30) DEF Base
  <2>3. ASSUME NEW a \in acked PROVE a.Location.ordinal < Base(a.Location.run)'
    <3>1. a.Location.ordinal < Base(a.Location.run)
      BY DEF AckedBefore
    <3>2. CASE a.Location.run = r
      BY <1>1, <2>1, <2>2, <3>1, <3>2
    <3>3. CASE a.Location.run # r
      BY <1>1, <2>2, <3>1, <3>3
    <3>4. QED
      BY <3>2, <3>3
  <2>4. ASSUME NEW a, a.Location \in Group(r) PROVE a.Location.ordinal < Base(a.Location.run)'
    <3>1. PICK n \in Base(r)..ordinal[r] - 1 : a.Location = Location(r, n)
      BY <2>4, GroupIs
    <3>2. a.Location.run = r /\ a.Location.ordinal = n
      BY <3>1, LocationFields, SMTT(30)
    <3>3. n < ordinal[r]
      BY <2>1, <3>1
    <3>4. QED
      BY <2>2, <3>2, <3>3
  <2>5. \A a \in acked' : a \in acked \/ a.Location \in Group(r)
    BY <1>4 DEF Acks
  <2>6. QED
    BY <2>3, <2>4, <2>5 DEF AckedBefore
<1>5. QED
  BY <1>2, <1>3, <1>4, StepKind DEF StepKinds

\* The empty manifest is the empty log, with no call made.
LEMMA RefinesInit == Init => Abstract!Init /\ AckedBefore
<1> SUFFICES ASSUME Init PROVE Abstract!Init /\ AckedBefore
  OBVIOUS
<1>1. Log = <<>> /\ acked = {}
  BY DEF Init, Missing, NewManifest, Log
<1>2. ASSUME NEW r \in Runs PROVE Named(r) = {} /\ Group(r) = {}
  <2>1. ordinal[r] = 0 /\ plans[r] = <<>>
    BY DEF Init
  <2>2. 0..ordinal[r] - 1 = {} /\ DOMAIN plans[r] = {}
    BY <2>1
  <2>3. QED
    BY <2>2 DEF Named, Group
<1>3. Called = {} /\ Open = {}
  BY <1>2 DEF Called, Open
<1>4. QED
  BY <1>1, <1>3 DEF Abstract!Init, AckedBefore, Called, Named, Open, Group

\* Every step of the writers is a step of the abstract log, or none.
LEMMA RefinesStep ==
  IInv /\ IInv' /\ AckedBefore /\ [Next]_vars => [Abstract!Next]_(Abstract!vars)
  BY StepKind, LandMaps, CallMaps, ReturnOkMaps, ReturnErrMaps DEF StepKinds

\* Any number of producers, with lost answers, late PUTs, crashes and
\* failovers, implement the exactly-once, totally ordered log of the
\* repository's linearizability test.
THEOREM LogRefines == Spec => ImplementsAppendLog
  BY Invariance, RefinesInit, RefinesStep, AckedBeforeStep, PTL
  DEF Spec, ImplementsAppendLog, Abstract!Spec

=============================================================================
