------------------------ MODULE FairComponentsProofs -------------------------
(***************************************************************************)
(* Proofs about PostgisPublication, and that what is proved of it and of   *)
(* AddressCacheSessions holds where MCFairComponents puts them together.   *)
(***************************************************************************)
EXTENDS MCFairComponents, AddressCacheSessionsProofs, FiniteSetTheorems, SequenceTheorems

-----------------------------------------------------------------------------
(***************************************************************************)
(* Publication to PostGIS, proved for any pipelines, runs, contents of     *)
(* bronze and deaths of the daemon.                                        *)
(***************************************************************************)

Contents == BronzeInputs \cup {{}}
AllTargets == UNION {Pipeline[p].targets : p \in Pipelines}
AllFrames == {KeysMade(t, rows) : t \in AllTargets, rows \in Contents} \cup {{}}

PubStages == {"idle", "silver", "gold", "targets", "write", "count"}
PubRun == [stage : PubStages, todo : SUBSET AllTargets, target : AllTargets \cup {""},
           frame : AllFrames, quiet : BOOLEAN]

PubTables ==
    /\ pipeline \in Pipelines
    /\ bronze \in Contents /\ silver \in Contents /\ enriched \in Contents
    /\ published \in [Targets -> Seq(AllFrames)]
    /\ \A t \in Targets : IsFiniteSet(Held(t))

\* What a run has appended is in its table, and what a run that nobody has
\* disturbed goes on with is made of bronze.
PubRunSound(run) ==
    /\ run.todo \subseteq Targets
    /\ run.stage \in {"write", "count"} => run.target \in Targets
    /\ run.stage = "gold" => Gold # "none"
    /\ run.stage = "count" => run.frame \subseteq Held(run.target)
    /\ run.quiet =>
         /\ run.stage # "idle"
         /\ run.stage = "gold" => silver = bronze
         /\ run.stage \in {"targets", "write", "count"} => Source = bronze
         /\ run.stage = "write" => run.frame = KeysMade(run.target, bronze)

PubInd ==
    /\ PubTables
    /\ runs \in [Runs -> PubRun]
    /\ \A r \in Runs : PubRunSound(runs[r])
    /\ \A r, q \in Runs : runs[r].quiet /\ runs[q].stage # "idle" => q = r

LEMMA FramesFinite == \A frame \in AllFrames : IsFiniteSet(frame)
<1>1. \A t \in AllTargets, rows \in BronzeInputs : IsFiniteSet(KeysMade(t, rows))
  BY FramesAssumption DEF AllTargets
<1>2. \A t \in AllTargets : KeysMade(t, {}) = {}
  BY DEF KeysMade
<1>3. \A t \in AllTargets, rows \in Contents : IsFiniteSet(KeysMade(t, rows))
  BY <1>1, <1>2, FS_EmptySet DEF Contents
<1> QED
  BY <1>3, FS_EmptySet DEF AllFrames

LEMMA TargetsOfOne == PubTables => Targets \subseteq AllTargets
BY DEF PubTables, Targets, AllTargets

LEMMA EndedRuns ==
    Ended \in PubRun /\ Ended.stage = "idle" /\ Ended.todo = {} /\ Ended.quiet = FALSE
<1>1. {} \in AllFrames
  BY DEF AllFrames
<1> QED
  BY <1>1 DEF Ended, PubRun, PubStages

\* A table holds what it held and the frame that is appended.
LEMMA HeldAppended ==
    ASSUME NEW s \in Seq(AllFrames), NEW frame \in AllFrames
    PROVE  UNION ToSet(Append(s, frame)) = (UNION ToSet(s)) \cup frame
<1>1. /\ DOMAIN Append(s, frame) = 1..(Len(s) + 1) /\ DOMAIN s = 1..Len(s) /\ Len(s) \in Nat
      /\ Append(s, frame)[Len(s) + 1] = frame
      /\ \A i \in 1..Len(s) : Append(s, frame)[i] = s[i]
  BY AppendProperties
<1>2. ToSet(Append(s, frame)) = ToSet(s) \cup {frame}
  <2>1. ASSUME NEW x \in ToSet(Append(s, frame)) PROVE x \in ToSet(s) \cup {frame}
    <3>1. PICK i \in 1..(Len(s) + 1) : x = Append(s, frame)[i]
      BY <1>1 DEF ToSet
    <3>2. i \in 1..Len(s) \/ i = Len(s) + 1
      BY <1>1
    <3> QED
      BY <1>1, <3>1, <3>2 DEF ToSet
  <2>2. ASSUME NEW x \in ToSet(s) \cup {frame} PROVE x \in ToSet(Append(s, frame))
    <3>1. x = frame \/ \E i \in 1..Len(s) : x = s[i]
      BY <1>1 DEF ToSet
    <3>2. \E i \in 1..(Len(s) + 1) : x = Append(s, frame)[i]
      BY <1>1, <3>1
    <3> QED
      BY <1>1, <3>2 DEF ToSet
  <2> QED
    BY <2>1, <2>2
<1> QED
  BY <1>2

LEMMA PubStarts == PubInit => PubInd
<1> SUFFICES ASSUME PubInit PROVE PubInd
  OBVIOUS
<1>1. \A t \in Targets : Held(t) = {}
  <2> SUFFICES ASSUME NEW t \in Targets PROVE Held(t) = {}
    OBVIOUS
  <2>1. published[t] = <<>>
    BY DEF PubInit
  <2>2. ToSet(<<>>) = {}
    BY DEF ToSet
  <2> QED
    BY <2>1, <2>2 DEF Held
<1>2. published \in [Targets -> Seq(AllFrames)]
  BY EmptySeq DEF PubInit
<1>3. PubTables
  BY <1>1, <1>2, FS_EmptySet DEF PubInit, PubTables, Contents
<1>4. \A r \in Runs : runs[r] = Ended
  BY DEF PubInit
<1>5. runs \in [Runs -> PubRun]
  BY EndedRuns DEF PubInit
<1>6. \A r \in Runs : PubRunSound(runs[r])
  BY <1>4, EndedRuns DEF PubRunSound
<1> QED
  BY <1>3, <1>4, <1>5, <1>6, EndedRuns DEF PubInd

\* A step in which tables only grow keeps sound what it does not disturb.
LEMMA Bystanders ==
    ASSUME PubInd, NEW r \in Runs, pipeline' = pipeline,
           \A t \in Targets : Held(t) \subseteq Held(t)',
           runs'[r] = runs[r] \/ runs'[r] = [runs[r] EXCEPT !.quiet = FALSE],
           runs'[r].quiet => UNCHANGED <<bronze, silver, enriched>>
    PROVE  PubRunSound(runs[r])'
<1>1. PubRunSound(runs[r]) /\ runs[r] \in PubRun
  BY DEF PubInd
<1>2. Targets' = Targets /\ Gold' = Gold
  BY DEF Targets, Gold
<1>3. /\ runs'[r].stage = runs[r].stage /\ runs'[r].todo = runs[r].todo
      /\ runs'[r].target = runs[r].target /\ runs'[r].frame = runs[r].frame
      /\ runs'[r].quiet => runs[r].quiet
  BY <1>1 DEF PubRun
<1>4. runs'[r].stage = "count" => (runs[r].frame \subseteq Held(runs[r].target))'
  <2>1. PICK u : u = runs[r].target
    OBVIOUS
  <2>2. runs[r].stage = "count" => u \in Targets /\ runs[r].frame \subseteq Held(u)
    BY <1>1, <2>1 DEF PubRunSound
  <2>3. runs[r].stage = "count" => runs'[r].frame \subseteq Held(u)'
    BY <1>3, <2>2
  <2>4. runs'[r].target = u
    BY <1>3, <2>1
  <2> QED
    BY <1>3, <2>3, <2>4 DEF Held
<1>5. runs'[r].quiet => Source' = Source
  BY <1>2 DEF Source
<1> QED
  BY <1>1, <1>2, <1>3, <1>4, <1>5 DEF PubRunSound

\* A step of a busy run: no other is undisturbed while it runs.
LEMMA RunAdvances ==
    ASSUME PubInd, NEW r \in Runs, runs[r].stage # "idle", pipeline' = pipeline, PubTables',
           \A t \in Targets : Held(t) \subseteq Held(t)',
           runs' \in [Runs -> PubRun], \A q \in Runs \ {r} : runs'[q] = runs[q],
           runs'[r].quiet => runs[r].quiet, PubRunSound(runs[r])'
    PROVE  PubInd'
<1>1. ASSUME NEW q \in Runs PROVE PubRunSound(runs[q])'
  <2>1. CASE q = r
    BY <2>1
  <2>2. CASE q # r
    <3>1. runs'[q] = runs[q] /\ ~runs[q].quiet
      BY <2>2 DEF PubInd
    <3> QED
      BY <3>1, Bystanders
  <2> QED
    BY <2>1, <2>2
<1>2. ASSUME NEW q \in Runs, NEW s \in Runs, runs'[q].quiet, runs'[s].stage # "idle" PROVE s = q
  <2>1. runs[q].quiet
    BY <1>2
  <2>2. q = r
    BY <2>1 DEF PubInd
  <2>3. s # r => runs[s].stage # "idle"
    BY <1>2
  <2> QED
    BY <2>1, <2>2, <2>3 DEF PubInd
<1> QED
  BY <1>1, <1>2 DEF PubInd

\* A run that ends.
LEMMA EndKeeps ==
    ASSUME PubInd, NEW r \in Runs, r \in Busy, EndRun(r), UNCHANGED <<pipeline, pubTables>>
    PROVE  PubInd'
<1>1. runs' = [runs EXCEPT ![r] = Ended]
  BY DEF EndRun
<1>2. runs' \in [Runs -> PubRun] /\ runs'[r] = Ended /\ \A q \in Runs \ {r} : runs'[q] = runs[q]
  BY <1>1, EndedRuns DEF PubInd
<1>3. PubTables' /\ \A t \in Targets : Held(t)' = Held(t)
  BY DEF PubInd, PubTables, pubTables, Targets, Held
<1>4. PubRunSound(runs[r])'
  BY <1>2, EndedRuns DEF PubRunSound
<1> QED
  BY <1>2, <1>3, <1>4, RunAdvances, EndedRuns DEF Busy

\* What a step leaves alone.
LEMMA SensorKeeps ==
    PubInd /\ UNCHANGED <<pipeline, pubTables, runs>> => PubInd'
<1> SUFFICES ASSUME PubInd, UNCHANGED <<pipeline, pubTables, runs>> PROVE PubInd'
  OBVIOUS
<1>1. PubTables' /\ \A t \in Targets : Held(t)' = Held(t)
  BY DEF PubInd, PubTables, pubTables, Targets, Held
<1>2. \A r \in Runs : PubRunSound(runs[r])'
  BY <1>1, Bystanders DEF pubTables
<1> QED
  BY <1>1, <1>2 DEF PubInd

LEMMA LandKeeps == ASSUME PubInd, NEW rows \in BronzeInputs, Land(rows) PROVE PubInd'
<1>1. PubTables' /\ \A t \in Targets : Held(t)' = Held(t)
  BY DEF PubInd, PubTables, Land, Targets, Held, Contents
<1>2. \A r \in Runs : runs'[r] = [runs[r] EXCEPT !.quiet = FALSE]
  BY DEF Land
<1>3. runs' \in [Runs -> PubRun] /\ \A r \in Runs : runs'[r].quiet = FALSE
  <2>1. \A r \in Runs : [runs[r] EXCEPT !.quiet = FALSE] \in PubRun
    BY DEF PubInd, PubRun
  <2> QED
    BY <2>1, <1>2 DEF Land, PubInd, PubRun
<1>4. \A r \in Runs : PubRunSound(runs[r])'
  BY <1>1, <1>2, <1>3, Bystanders DEF Land
<1> QED
  BY <1>1, <1>3, <1>4 DEF PubInd

LEMMA StartKeeps == ASSUME PubInd, NEW r \in Runs, StartRun(r) PROVE PubInd'
<1>1. PubTables' /\ \A t \in Targets : Held(t)' = Held(t)
  BY DEF PubInd, PubTables, StartRun, pubTables, Targets, Held
<1>2. PICK new : new = [Ended EXCEPT !.stage = "silver", !.todo = Targets, !.quiet = Busy = {}]
  OBVIOUS
<1>3. new.stage = "silver" /\ new.todo = Targets /\ new.target = "" /\ new.frame = {} /\ new.quiet = (Busy = {})
  BY <1>2 DEF Ended
<1>4. new \in PubRun
  <2>1. {} \in AllFrames /\ Targets \subseteq AllTargets
    BY TargetsOfOne DEF AllFrames, PubInd
  <2> QED
    BY <1>2, <2>1 DEF Ended, PubRun, PubStages
<1>5. runs' = [s \in Runs |-> IF s = r THEN new ELSE [runs[s] EXCEPT !.quiet = FALSE]]
  BY <1>2 DEF StartRun
<1>6. runs' \in [Runs -> PubRun] /\ \A q \in Runs \ {r} : runs'[q].quiet = FALSE /\ runs'[q].stage = runs[q].stage
  <2>1. \A q \in Runs : /\ [runs[q] EXCEPT !.quiet = FALSE] \in PubRun
                        /\ [runs[q] EXCEPT !.quiet = FALSE].quiet = FALSE
                        /\ [runs[q] EXCEPT !.quiet = FALSE].stage = runs[q].stage
    BY DEF PubInd, PubRun
  <2> QED
    BY <1>4, <1>5, <2>1
<1>7. ASSUME NEW q \in Runs PROVE PubRunSound(runs[q])'
  <2>1. CASE q = r
    <3>1. runs'[q] = new
      BY <1>5, <2>1
    <3>2. Targets' = Targets
      BY DEF StartRun, Targets
    <3> QED
      BY <1>3, <3>1, <3>2 DEF PubRunSound
  <2>2. CASE q # r
    <3>1. runs'[q] = [runs[q] EXCEPT !.quiet = FALSE]
      BY <1>5, <2>2
    <3> QED
      BY <1>1, <1>6, <2>2, <3>1, Bystanders DEF StartRun
  <2> QED
    BY <2>1, <2>2
<1>8. ASSUME NEW q \in Runs, NEW s \in Runs, runs'[q].quiet, runs'[s].stage # "idle" PROVE s = q
  <2>1. q = r /\ runs'[q] = new
    BY <1>5, <1>6, <1>8
  <2>2. Busy = {}
    BY <1>3, <1>8, <2>1
  <2> QED
    BY <1>6, <1>8, <2>1, <2>2 DEF Busy
<1> QED
  BY <1>1, <1>6, <1>7, <1>8 DEF PubInd

\* A run whose stage moves on.
LEMMA MovesOn ==
    ASSUME PubInd, NEW r \in Runs, NEW stage \in PubStages, At(r, stage)
    PROVE  /\ runs' \in [Runs -> PubRun] /\ \A q \in Runs \ {r} : runs'[q] = runs[q]
           /\ runs'[r].stage = stage
           /\ runs'[r].todo = runs[r].todo /\ runs'[r].target = runs[r].target
           /\ runs'[r].frame = runs[r].frame /\ runs'[r].quiet = runs[r].quiet
<1>1. runs[r] \in PubRun /\ runs \in [Runs -> PubRun]
  BY DEF PubInd
<1>2. PICK new : new = [runs[r] EXCEPT !.stage = stage]
  OBVIOUS
<1>3. /\ new \in PubRun /\ new.stage = stage /\ new.todo = runs[r].todo /\ new.target = runs[r].target
      /\ new.frame = runs[r].frame /\ new.quiet = runs[r].quiet
  BY <1>1, <1>2 DEF PubRun
<1>4. runs' = [runs EXCEPT ![r] = new]
  BY <1>2 DEF At
<1> QED
  BY <1>1, <1>3, <1>4

LEMMA SilverKeeps == ASSUME PubInd, NEW r \in Runs, WriteSilver(r) PROVE PubInd'
<1>0. r \in Busy
  BY DEF WriteSilver, Busy
<1>1. CASE commits = 0
  <2>1. EndRun(r) /\ UNCHANGED <<pipeline, pubTables>>
    BY <1>1 DEF WriteSilver, pubTables
  <2> QED
    BY <1>0, <2>1, EndKeeps
<1>2. CASE commits # 0
  <2>1. /\ silver' = bronze /\ UNCHANGED <<pipeline, bronze, enriched, published>>
        /\ At(r, IF Gold = "none" THEN "targets" ELSE "gold")
    BY <1>2 DEF WriteSilver
  <2>2. PICK stage : stage = IF Gold = "none" THEN "targets" ELSE "gold"
    OBVIOUS
  <2>3. stage \in PubStages /\ At(r, stage)
    BY <2>1, <2>2 DEF PubStages
  <2>4. /\ runs' \in [Runs -> PubRun] /\ \A q \in Runs \ {r} : runs'[q] = runs[q]
        /\ runs'[r].stage = stage /\ runs'[r].todo = runs[r].todo /\ runs'[r].quiet = runs[r].quiet
    BY <2>3, MovesOn
  <2>5. PubTables' /\ \A t \in Targets : Held(t)' = Held(t)
    BY <2>1 DEF PubInd, PubTables, Targets, Held
  <2>6. Targets' = Targets /\ Gold' = Gold
    BY <2>1 DEF Targets, Gold
  <2>7. stage = "targets" => Source' = bronze'
    BY <2>1, <2>2, <2>6 DEF Source
  <2>8. PubRunSound(runs[r])'
    BY <2>1, <2>2, <2>4, <2>6, <2>7 DEF PubRunSound, PubInd
  <2> QED
    BY <1>0, <2>1, <2>4, <2>5, <2>8, RunAdvances DEF Busy
<1> QED
  BY <1>1, <1>2

LEMMA GoldKeeps == ASSUME PubInd, NEW r \in Runs, WriteGold(r) PROVE PubInd'
<1>0. r \in Busy
  BY DEF WriteGold, Busy
<1>1. CASE Gold = "raises"
  <2>1. EndRun(r) /\ UNCHANGED <<pipeline, pubTables>>
    BY <1>1 DEF WriteGold, pubTables
  <2> QED
    BY <1>0, <2>1, EndKeeps
<1>2. CASE Gold # "raises"
  <2>1. enriched' = silver /\ UNCHANGED <<pipeline, bronze, silver, published>> /\ At(r, "targets")
    BY <1>2 DEF WriteGold
  <2>2. "targets" \in PubStages
    BY DEF PubStages
  <2>3. /\ runs' \in [Runs -> PubRun] /\ \A q \in Runs \ {r} : runs'[q] = runs[q]
        /\ runs'[r].stage = "targets" /\ runs'[r].todo = runs[r].todo /\ runs'[r].quiet = runs[r].quiet
    BY <2>1, <2>2, MovesOn
  <2>4. PubTables' /\ \A t \in Targets : Held(t)' = Held(t)
    BY <2>1 DEF PubInd, PubTables, Targets, Held
  <2>5. Targets' = Targets /\ Gold' = Gold
    BY <2>1 DEF Targets, Gold
  <2>6. PubRunSound(runs[r]) /\ runs[r].stage = "gold"
    BY DEF PubInd, WriteGold
  <2>7. runs[r].quiet => Source' = bronze'
    BY <2>1, <2>5, <2>6 DEF Source, PubRunSound
  <2>8. PubRunSound(runs[r])'
    BY <2>3, <2>5, <2>6, <2>7 DEF PubRunSound
  <2> QED
    BY <1>0, <2>1, <2>3, <2>4, <2>8, RunAdvances DEF Busy
<1> QED
  BY <1>1, <1>2

LEMMA ReadKeeps ==
    ASSUME PubInd, NEW r \in Runs, NEW t \in Targets, ReadSource(r, t) PROVE PubInd'
<1>1. runs[r] \in PubRun /\ PubRunSound(runs[r]) /\ runs[r].stage = "targets" /\ r \in Busy
  BY DEF PubInd, ReadSource, Busy
<1>2. PICK new : new = [runs[r] EXCEPT !.stage = "write", !.target = t, !.todo = @ \ {t},
                                       !.frame = KeysMade(t, Source)]
  OBVIOUS
<1>3. /\ new.stage = "write" /\ new.target = t /\ new.todo = runs[r].todo \ {t}
      /\ new.frame = KeysMade(t, Source) /\ new.quiet = runs[r].quiet
  BY <1>1, <1>2 DEF PubRun
<1>4. t \in AllTargets /\ Source \in Contents
  BY TargetsOfOne DEF PubInd, PubTables, Source
<1>5. KeysMade(t, Source) \in AllFrames
  BY <1>4 DEF AllFrames
<1>6. new \in PubRun
  BY <1>1, <1>2, <1>4, <1>5 DEF PubRun, PubStages
<1>7. runs' = [runs EXCEPT ![r] = new]
  BY <1>2 DEF ReadSource
<1>8. runs' \in [Runs -> PubRun] /\ runs'[r] = new /\ \A q \in Runs \ {r} : runs'[q] = runs[q]
  BY <1>6, <1>7 DEF PubInd
<1>9. PubTables' /\ (\A u \in Targets : Held(u)' = Held(u)) /\ pipeline' = pipeline
  BY DEF PubInd, PubTables, ReadSource, pubTables, Targets, Held
<1>10. Targets' = Targets /\ Source' = Source /\ bronze' = bronze
  BY DEF ReadSource, pubTables, Targets, Source, Gold
<1>11. PubRunSound(runs[r])'
  BY <1>1, <1>3, <1>8, <1>10 DEF PubRunSound
<1> QED
  BY <1>1, <1>3, <1>8, <1>9, <1>11, RunAdvances DEF Busy

\* A run that is through with a target.
LEMMA NextTargetKeeps ==
    ASSUME PubInd, NEW r \in Runs, runs[r].stage \in {"write", "count"}, NextTarget(r),
           UNCHANGED <<pipeline, pubTables>>
    PROVE  PubInd'
<1>1. runs[r] \in PubRun /\ PubRunSound(runs[r])
  BY DEF PubInd
<1>2. PICK new : new = [runs[r] EXCEPT !.stage = "targets", !.target = "", !.frame = {}]
  OBVIOUS
<1>3. /\ new.stage = "targets" /\ new.todo = runs[r].todo /\ new.quiet = runs[r].quiet
  BY <1>1, <1>2 DEF PubRun
<1>4. {} \in AllFrames
  BY DEF AllFrames
<1>5. new \in PubRun
  BY <1>1, <1>2, <1>4 DEF PubRun, PubStages
<1>6. runs' = [runs EXCEPT ![r] = new]
  BY <1>2 DEF NextTarget
<1>7. runs' \in [Runs -> PubRun] /\ runs'[r] = new /\ \A q \in Runs \ {r} : runs'[q] = runs[q]
  BY <1>5, <1>6 DEF PubInd
<1>8. PubTables' /\ (\A u \in Targets : Held(u)' = Held(u)) /\ pipeline' = pipeline
  BY DEF PubInd, PubTables, pubTables, Targets, Held
<1>9. Targets' = Targets /\ Source' = Source /\ bronze' = bronze
  BY DEF pubTables, Targets, Source, Gold
<1>10. PubRunSound(runs[r])'
  BY <1>1, <1>3, <1>7, <1>9 DEF PubRunSound
<1> QED
  BY <1>3, <1>7, <1>8, <1>10, RunAdvances

\* What an append that goes through leaves in the table.
LEMMA AppendHolds ==
    ASSUME PubInd, NEW r \in Runs, AppendRows(r),
           NEW u, runs[r].target = u, NEW frame, runs[r].frame = frame
    PROVE  /\ u \in Targets /\ frame \in AllFrames
           /\ frame \cap Held(u) = {} =>
                /\ At(r, "count")
                /\ published' \in [Targets -> Seq(AllFrames)]
                /\ Held(u)' = Held(u) \cup frame
                /\ \A t \in Targets \ {u} : Held(t)' = Held(t)
<1>1. runs[r] \in PubRun /\ PubRunSound(runs[r]) /\ runs[r].stage = "write"
  BY DEF PubInd, AppendRows
<1>2. u \in Targets /\ frame \in AllFrames /\ published \in [Targets -> Seq(AllFrames)]
  BY <1>1 DEF PubRun, PubRunSound, PubInd, PubTables
<1>3. frame \cap Held(u) = {} => At(r, "count") /\ published' = [published EXCEPT ![u] = Append(@, frame)]
  BY DEF AppendRows
<1>4. ASSUME published' = [published EXCEPT ![u] = Append(@, frame)]
      PROVE  /\ published' \in [Targets -> Seq(AllFrames)]
             /\ Held(u)' = Held(u) \cup frame
             /\ \A t \in Targets \ {u} : Held(t)' = Held(t)
  <2>1. published[u] \in Seq(AllFrames)
    BY <1>2
  <2>2. published'[u] = Append(published[u], frame) /\ \A t \in Targets \ {u} : published'[t] = published[t]
    BY <1>2, <1>4
  <2>3. Append(published[u], frame) \in Seq(AllFrames)
    BY <1>2, <2>1, AppendProperties
  <2>4. published' \in [Targets -> Seq(AllFrames)]
    BY <1>2, <1>4, <2>3
  <2>5. UNION ToSet(published'[u]) = (UNION ToSet(published[u])) \cup frame
    BY <1>2, <2>1, <2>2, HeldAppended
  <2>6. Held(u)' = Held(u) \cup frame
    BY <2>5 DEF Held
  <2>7. \A t \in Targets \ {u} : Held(t)' = Held(t)
    BY <2>2 DEF Held
  <2> QED
    BY <2>4, <2>6, <2>7
<1> QED
  BY <1>2, <1>3, <1>4

LEMMA AppendKeeps == ASSUME PubInd, NEW r \in Runs, AppendRows(r) PROVE PubInd'
<1>1. runs[r].stage = "write" /\ PubRunSound(runs[r])
  BY DEF AppendRows, PubInd
<1>2. CASE runs[r].frame \cap Held(runs[r].target) = {}
  <2>1. UNCHANGED <<pipeline, bronze, silver, enriched>>
    BY DEF AppendRows
  <2>2. Targets' = Targets /\ Source' = Source
    BY <2>1 DEF Targets, Source, Gold
  <2>3. "count" \in PubStages
    BY DEF PubStages
  <2>4. /\ runs' \in [Runs -> PubRun] /\ \A q \in Runs \ {r} : runs'[q] = runs[q]
        /\ runs'[r].stage = "count" /\ runs'[r].todo = runs[r].todo /\ runs'[r].quiet = runs[r].quiet
        /\ runs'[r].target = runs[r].target /\ runs'[r].frame = runs[r].frame
    <3>1. At(r, "count")
      BY <1>2, AppendHolds
    <3> QED
      BY <2>3, <3>1, MovesOn
  <2>5. PICK u, frame : u = runs[r].target /\ frame = runs[r].frame
    OBVIOUS
  <2>6. /\ u \in Targets /\ frame \in AllFrames
        /\ published' \in [Targets -> Seq(AllFrames)]
        /\ Held(u)' = Held(u) \cup frame
        /\ \A t \in Targets \ {u} : Held(t)' = Held(t)
    BY <1>2, <2>5, AppendHolds
  <2>7. \A t \in Targets : IsFiniteSet(Held(t)')
    <3>1. \A t \in Targets : IsFiniteSet(Held(t))
      BY DEF PubInd, PubTables
    <3>2. IsFiniteSet(Held(u)')
      BY <2>6, <3>1, FramesFinite, FS_Union
    <3> QED
      BY <2>6, <3>1, <3>2
  <2>8. PubTables'
    BY <2>1, <2>2, <2>6, <2>7 DEF PubTables, PubInd
  <2>9. \A t \in Targets : Held(t) \subseteq Held(t)'
    BY <2>6
  <2>10. frame \subseteq Held(u)'
    BY <2>6
  <2>11. PubRunSound(runs[r])'
    <3>1. runs'[r].frame \subseteq Held(u)' /\ runs'[r].target = u
      BY <2>4, <2>5, <2>10
    <3>2. (runs[r].frame \subseteq Held(runs[r].target))'
      BY <3>1 DEF Held
    <3> QED
      BY <1>1, <2>1, <2>2, <2>4, <2>5, <2>6, <3>2 DEF PubRunSound
  <2> QED
    BY <1>1, <2>1, <2>4, <2>8, <2>9, <2>11, RunAdvances
<1>3. CASE runs[r].frame \cap Held(runs[r].target) # {}
  <2>1. NextTarget(r) /\ UNCHANGED <<pipeline, pubTables>>
    BY <1>3 DEF AppendRows, pubTables
  <2> QED
    BY <1>1, <2>1, NextTargetKeeps
<1> QED
  BY <1>2, <1>3

LEMMA PubSteps == PubInd /\ [PubNext]_pubVars => PubInd'
<1> SUFFICES ASSUME PubInd, [PubNext]_pubVars PROVE PubInd'
  OBVIOUS
<1>1. ASSUME Sense \/ DaemonDies PROVE PubInd'
  BY <1>1, SensorKeeps DEF Sense, Evaluate, Launch, StoreCursor, DaemonDies
<1>2. ASSUME NEW r \in Runs, CountRows(r) PROVE PubInd'
  BY <1>2, NextTargetKeeps DEF CountRows
<1>3. ASSUME NEW r \in Runs, FinishRun(r) \/ KillRun(r) PROVE PubInd'
  BY <1>3, EndKeeps DEF FinishRun, KillRun, Busy
<1>4. CASE UNCHANGED pubVars
  BY <1>4, SensorKeeps DEF pubVars, pubTables
<1> QED
  BY <1>1, <1>2, <1>3, <1>4, LandKeeps, StartKeeps, SilverKeeps, GoldKeeps, ReadKeeps, AppendKeeps
     DEF PubNext

LEMMA PubInvariance == PubSpec => []PubInd
BY PubStarts, PubSteps, PTL DEF PubSpec

\* A MaterializationRecord at parity is of a table that holds what the run read
\* and nothing else, whatever other runs have appended.
THEOREM ParityAlwaysMirrors == PubSpec => ParityMeansMirror
<1>1. PubInd /\ [PubNext]_pubVars =>
        [\A r \in Runs : CountRows(r) /\ Parity(Materialization(r)) =>
           Held(runs[r].target) = runs[r].frame]_pubVars
  <2> SUFFICES ASSUME PubInd, NEW r \in Runs, CountRows(r), Parity(Materialization(r))
               PROVE  Held(runs[r].target) = runs[r].frame
    OBVIOUS
  <2>1. /\ runs[r].target \in Targets
        /\ runs[r].frame \subseteq Held(runs[r].target)
    BY DEF PubInd, PubRunSound, CountRows
  <2>2. IsFiniteSet(Held(runs[r].target))
    BY <2>1 DEF PubInd, PubTables
  <2>3. Cardinality(runs[r].frame) = Cardinality(Held(runs[r].target))
    BY DEF Parity, Materialization, CountOf
  <2> QED
    BY <2>1, <2>2, <2>3, FS_Subset
<1>2. PubSpec => [][PubNext]_pubVars
  BY PTL DEF PubSpec
<1>3. []PubInd /\ [][PubNext]_pubVars => ParityMeansMirror
  BY <1>1, PTL DEF ParityMeansMirror
<1> QED
  BY <1>2, <1>3, PubInvariance, PTL

\* What an undisturbed run appends is made of the rows of bronze, and it leaves
\* out a table only where earlier rows are in the way.
THEOREM LoneRunsPublish == PubSpec => LoneRunPublishesBronze
<1>1. PubInd /\ [PubNext]_pubVars =>
        [\A r \in Runs, t \in Targets :
           AppendRows(r) /\ runs[r].quiet /\ runs[r].target = t =>
             /\ runs[r].frame = KeysMade(t, bronze)
             /\ Held(t)' # Held(t) \cup KeysMade(t, bronze) => Held(t) \cap KeysMade(t, bronze) # {}]_pubVars
  <2> SUFFICES ASSUME PubInd, NEW r \in Runs, NEW t \in Targets,
                      AppendRows(r), runs[r].quiet, runs[r].target = t
               PROVE  /\ runs[r].frame = KeysMade(t, bronze)
                      /\ Held(t)' # Held(t) \cup KeysMade(t, bronze) => Held(t) \cap KeysMade(t, bronze) # {}
    OBVIOUS
  <2>1. runs[r].frame = KeysMade(t, bronze)
    BY DEF PubInd, PubRunSound, AppendRows
  <2>2. runs[r].frame \cap Held(t) = {} => Held(t)' = Held(t) \cup runs[r].frame
    BY AppendHolds DEF Held
  <2> QED
    BY <2>1, <2>2
<1>2. PubSpec => [][PubNext]_pubVars
  BY PTL DEF PubSpec
<1>3. []PubInd /\ [][PubNext]_pubVars => LoneRunPublishesBronze
  BY <1>1, PTL DEF LoneRunPublishesBronze
<1> QED
  BY <1>2, <1>3, PubInvariance, PTL

\* What the sensor has launched are runs for commits, one for each.
PubCounts ==
    /\ commits \in 0..MaxCommits /\ deaths \in 0..MaxDeaths /\ started \in 0..MaxStarts
    /\ cursor \in 0..commits /\ tick \in 0..commits /\ requested \subseteq 1..commits
    /\ queued \in Nat /\ queued <= Cardinality(requested)

LEMMA RequestsCounted ==
    ASSUME NEW n \in Nat, NEW keys \in SUBSET (1..n)
    PROVE  IsFiniteSet(keys) /\ Cardinality(keys) \in Nat /\ Cardinality(keys) <= n
<1>1. IsFiniteSet(1..n) /\ Cardinality(1..n) = n
  BY FS_Interval
<1> QED
  BY <1>1, FS_Subset, FS_CardinalityType

LEMMA CountsStart == PubInit => PubCounts
<1>1. IsFiniteSet({}) /\ Cardinality({}) = 0
  BY FS_EmptySet
<1> QED
  BY <1>1, PipelinesAssumption DEF PubInit, PubCounts

LEMMA CountsSteps == PubCounts /\ [PubNext]_pubVars => PubCounts'
<1> SUFFICES ASSUME PubCounts, [PubNext]_pubVars PROVE PubCounts'
  OBVIOUS
<1>0. commits \in Nat /\ IsFiniteSet(requested) /\ Cardinality(requested) \in Nat
  BY PipelinesAssumption, RequestsCounted DEF PubCounts
<1>1. ASSUME NEW rows \in BronzeInputs, Land(rows) PROVE PubCounts'
  BY <1>1, PipelinesAssumption DEF PubCounts, Land, pubSensor
<1>2. CASE Evaluate
  BY <1>2 DEF PubCounts, Evaluate, pubTables
<1>3. CASE Launch
  <2>1. /\ tick \in 1..commits /\ tick \notin requested
        /\ requested' = requested \cup {tick} /\ queued' = queued + 1
        /\ UNCHANGED <<commits, deaths, started, cursor, tick>>
    BY <1>3 DEF Launch, PubCounts, pubTables
  <2>2. Cardinality(requested') = Cardinality(requested) + 1
    BY <1>0, <2>1, FS_AddElement
  <2>3. queued' \in Nat /\ queued' <= Cardinality(requested')
    BY <1>0, <2>1, <2>2 DEF PubCounts
  <2> QED
    BY <2>1, <2>3 DEF PubCounts
<1>4. CASE StoreCursor
  BY <1>4 DEF PubCounts, StoreCursor, pubTables
<1>5. CASE DaemonDies
  BY <1>5, PipelinesAssumption DEF PubCounts, DaemonDies, pubTables
<1>6. ASSUME NEW r \in Runs, StartRun(r) PROVE PubCounts'
  <2>1. UNCHANGED <<commits, deaths, cursor, tick, requested>>
    BY <1>6 DEF StartRun, pubTables, pubSensor
  <2>2. \/ queued > 0 /\ queued' = queued - 1 /\ started' = started
        \/ started < MaxStarts /\ started' = started + 1 /\ queued' = queued
    BY <1>6 DEF StartRun
  <2>3. started' \in 0..MaxStarts /\ queued' \in Nat /\ queued' <= queued
    BY <2>2, PipelinesAssumption DEF PubCounts
  <2>4. queued' <= Cardinality(requested)
    BY <1>0, <2>3 DEF PubCounts
  <2> QED
    BY <2>1, <2>3, <2>4 DEF PubCounts
<1>7. ASSUME NEW r \in Runs, NEW t \in Targets,
             \/ WriteSilver(r) \/ WriteGold(r) \/ ReadSource(r, t) \/ AppendRows(r)
             \/ CountRows(r) \/ FinishRun(r) \/ KillRun(r)
      PROVE  PubCounts'
  BY <1>7 DEF PubCounts, WriteSilver, WriteGold, ReadSource, AppendRows, CountRows, FinishRun, KillRun,
              pubTables, pubSensor
<1>8. ASSUME NEW r \in Runs,
             \/ WriteSilver(r) \/ WriteGold(r) \/ AppendRows(r)
             \/ CountRows(r) \/ FinishRun(r) \/ KillRun(r)
      PROVE  PubCounts'
  BY <1>8 DEF PubCounts, WriteSilver, WriteGold, AppendRows, CountRows, FinishRun, KillRun,
              pubTables, pubSensor
<1>9. CASE UNCHANGED pubVars
  BY <1>9 DEF PubCounts, pubVars
<1> QED
  BY <1>1, <1>2, <1>3, <1>4, <1>5, <1>6, <1>7, <1>8, <1>9 DEF PubNext, Sense

\* Type correctness of the publication: the sensor's cursor, its tick and what it has
\* requested never name a commit that bronze does not have, wherever the daemon dies.
THEOREM PublicationTypeCorrect == PubSpec => []PubTypeOK
<1>1. PubInd /\ PubCounts => PubTypeOK
  <2> SUFFICES ASSUME PubInd, PubCounts PROVE PubTypeOK
    OBVIOUS
  <2>1. Cardinality(requested) \in Nat /\ Cardinality(requested) <= commits /\ commits <= MaxCommits
    BY PipelinesAssumption, RequestsCounted DEF PubCounts
  <2>2. queued \in 0..MaxCommits
    BY <2>1, PipelinesAssumption DEF PubCounts
  <2>3. \A r \in Runs : runs[r].stage \in PubStages
    BY DEF PubInd, PubRun
  <2> QED
    BY <2>2, <2>3 DEF PubTypeOK, PubCounts, PubInd, PubTables, PubStages
<1>2. PubSpec => []PubCounts
  BY CountsStart, CountsSteps, PTL DEF PubSpec
<1> QED
  BY <1>1, <1>2, PubInvariance, PTL

-----------------------------------------------------------------------------
(* The composition *)

\* Whichever component is in focus, what MCFairComponents does is a behaviour
\* of each of the two by itself, so what is proved of them holds there.
THEOREM FairComponentsRunEach == FairComponents => FairSpec /\ PubSpec
<1>1. FairInit => Init /\ PubInit
  BY DEF FairInit
<1>2. [FairNext]_<<focus, vars, pubVars>> => [Next]_vars /\ [PubNext]_pubVars
  <2>1. FairNext => (Next \/ UNCHANGED vars) /\ (PubNext \/ UNCHANGED pubVars)
    BY DEF FairNext
  <2> QED
    BY <2>1
<1> QED
  BY <1>1, <1>2, PTL DEF FairComponents, FairSpec, Spec, PubSpec

\* The component in focus keeps to its types.
THEOREM FairTypesCorrect == FairComponents => []FairTypeOK
<1>1. Spec => []TypeOK
  BY SessionsTypeCorrect
<1>2. PubSpec => []PubTypeOK
  BY PublicationTypeCorrect
<1>3. TypeOK /\ PubTypeOK => FairTypeOK
  BY DEF FairTypeOK
<1> QED
  BY <1>1, <1>2, <1>3, FairComponentsRunEach, PTL DEF FairSpec
=============================================================================
