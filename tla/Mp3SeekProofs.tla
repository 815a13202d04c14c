---------------------------- MODULE Mp3SeekProofs ---------------------------
(***************************************************************************)
(* What the seek index and the deferred seek guarantee for any files, any  *)
(* targets, any number of retries, plays and calls, however the scanning   *)
(* thread, the playback thread and the callers interleave.                 *)
(***************************************************************************)
EXTENDS Mp3Seek, TLAPS

DeferredSet == [on : BOOLEAN, aim : Aims, retries : 0 .. RetryMax, wait : BOOLEAN]
IndexSet == [table : TableSet, attempted : BOOLEAN, d : DeferredSet, started : BOOLEAN]
Commands == [gen : 0 .. MaxPlays, restart : BOOLEAN, file : Mp3Files \cup {0},
             start : Targets \cup {0}, stop : BOOLEAN, flag : BOOLEAN, paused : BOOLEAN,
             have : BOOLEAN, seek : Aims]
TrackSet == [pc : {"idle", "eager", "start", "publish", "top", "chunk", "seek", "stopped", "tail"},
             gen : 0 .. MaxPlays, file : Mp3Files \cup {0}, table : TableSet,
             attempted : BOOLEAN, seek : Aims]
ScanSet == [pc : {"none", "load", "scan", "save", "deliver"}, job : JobSet]

Types ==
    /\ command \in Commands /\ deferred \in DeferredSet /\ track \in TrackSet
    /\ slot \in [active : BOOLEAN, result : JobSet] /\ scan \in ScanSet
    /\ tables \in [Mp3Files -> Extents] /\ owed \in Aims /\ shared \in 0 .. MaxPlays

\* Generations only grow, the playback thread follows, and every scan and every
\* deferred target is of the track it plays or of an earlier one.
GenerationsInOrder ==
    /\ track.gen <= command.gen /\ deferred.aim.gen <= track.gen
    /\ command.restart => command.gen > 0 /\ command.file \in Mp3Files
    /\ track.pc # "idle" => track.gen > 0 /\ track.file \in Mp3Files

\* A job, running or delivered: of which track, and what it found.  Two files
\* were played under generation s.
JobFits(j, g, f, s) ==
    /\ j.gen <= g
    /\ j.gen > 0 /\ j.gen = g /\ g # s => j.table.of = f
    /\ j.outcome = "ready" => j.table.extent # "cut"

\* The tables the track may have, and those there may be of a file.
Allowed == {t \in TableSet : t.extent # "cut" /\ (track.gen # shared => t.of = track.file)}
Built(f) == {Table(f, "whole"), Table(f, "short")}

OneScan ==
    /\ slot.active <=> scan.pc # "none"
    /\ slot.active => slot.result = NoJob
    /\ scan.pc # "none" => scan.job.table.of \in Mp3Files
    /\ scan.pc = "save" => scan.job.outcome = "ready"

TablesSound ==
    /\ track.table \in Allowed \cup {NoFile}
    /\ \A f \in Mp3Files : tables[f] # "cut"
    /\ JobFits(scan.job, track.gen, track.file, shared) /\ JobFits(slot.result, track.gen, track.file, shared)

IndexInv == Types /\ GenerationsInOrder /\ OneScan /\ TablesSound

\* Only the newest track owes a seek, and only while it is played.
OwesRightly ==
    owed # None =>
        /\ track.gen = command.gen /\ owed.gen = track.gen /\ ~command.stop /\ ~command.restart
        /\ track.pc \notin {"idle", "stopped", "tail"}
        /\ command.seek.gen = track.gen => owed = command.seek

\* Where the target is, by where the thread is.
OwedIsThere ==
    owed # None =>
        IF track.pc \in {"eager", "start", "seek"} THEN owed \in {command.seek, track.seek}
        ELSE owed \in {command.seek, OurTarget(deferred)}

SeekFits ==
    /\ track.pc \in {"eager", "start"} /\ track.seek # None => track.seek.gen = track.gen
    /\ track.pc \in {"publish", "top", "chunk"} => track.seek = None
    /\ track.pc = "seek" => ~Refused(track.seek)

SeekInv == IndexInv /\ OwesRightly /\ OwedIsThere /\ SeekFits

-----------------------------------------------------------------------------
\* The constants of the records.
LEMMA RecordFacts ==
    /\ None \in Aims /\ None.to = 0 /\ None.gen = 0
    /\ NoFile \in TableSet /\ NoFile.extent = "none"
    /\ NoJob \in JobSet /\ NoJob.gen = 0 /\ NoJob.outcome = "none"
    /\ \A f \in Mp3Files \cup {0}, e \in Extents :
           Table(f, e) \in TableSet /\ Table(f, e).of = f /\ Table(f, e).extent = e
    /\ \A t \in Targets \cup {0}, g \in 0 .. MaxPlays :
           Aim(t, g) \in Aims /\ Aim(t, g).to = t /\ Aim(t, g).gen = g
    /\ \A a \in Aims : a.gen \in 0 .. MaxPlays /\ a.to \in Targets \cup {0} /\ a.to \in Nat
<1> USE Mp3Bounds
<1>1. None \in Aims /\ None.to = 0 /\ None.gen = 0
  BY DEF None, Aims
<1>2. NoFile \in TableSet /\ NoFile.extent = "none"
  BY DEF NoFile, TableSet, Extents
<1>3. NoJob \in JobSet /\ NoJob.gen = 0 /\ NoJob.outcome = "none"
  BY <1>2 DEF NoJob, JobSet
<1>4. \A f \in Mp3Files \cup {0}, e \in Extents :
           Table(f, e) \in TableSet /\ Table(f, e).of = f /\ Table(f, e).extent = e
  BY DEF Table, TableSet
<1>6. \A t \in Targets \cup {0}, g \in 0 .. MaxPlays :
           Aim(t, g) \in Aims /\ Aim(t, g).to = t /\ Aim(t, g).gen = g
  BY DEF Aim, Aims
<1>7. \A a \in Aims : a.gen \in 0 .. MaxPlays /\ a.to \in Targets \cup {0} /\ a.to \in Nat
  <2>1. \A a \in Aims : a.gen \in 0 .. MaxPlays /\ a.to \in Targets \cup {0}
    BY DEF Aims
  <2>2. Targets \cup {0} \subseteq Nat
    OBVIOUS
  <2> QED
    BY <2>1, <2>2
<1> QED
  BY <1>1, <1>2, <1>3, <1>4, <1>6, <1>7

\* finish_mp3_deferred_seek_locked() and defer_mp3_seek_locked().
LEMMA DeferredFacts ==
    /\ \A d \in DeferredSet : /\ finish_mp3_deferred_seek_locked(d) \in DeferredSet
                              /\ finish_mp3_deferred_seek_locked(d).on = FALSE
                              /\ finish_mp3_deferred_seek_locked(d).aim = d.aim
    /\ \A a \in Aims : /\ defer_mp3_seek_locked(a) \in DeferredSet
                       /\ defer_mp3_seek_locked(a).on = TRUE
                       /\ defer_mp3_seek_locked(a).aim = a
<1> USE Mp3Bounds
<1>1. ASSUME NEW d \in DeferredSet
      PROVE  /\ finish_mp3_deferred_seek_locked(d) \in DeferredSet
             /\ finish_mp3_deferred_seek_locked(d).on = FALSE
             /\ finish_mp3_deferred_seek_locked(d).aim = d.aim
  <2>1. 0 \in 0 .. RetryMax
    OBVIOUS
  <2> DEFINE e == finish_mp3_deferred_seek_locked(d)
  <2>2. e \in DeferredSet
    BY <2>1 DEF finish_mp3_deferred_seek_locked, DeferredSet
  <2>3. e.on = FALSE
    BY DEF finish_mp3_deferred_seek_locked, DeferredSet
  <2>4. e.aim = d.aim
    BY DEF finish_mp3_deferred_seek_locked, DeferredSet
  <2> QED
    BY <2>2, <2>3, <2>4
<1>2. ASSUME NEW a \in Aims
      PROVE  /\ defer_mp3_seek_locked(a) \in DeferredSet
             /\ defer_mp3_seek_locked(a).on = TRUE
             /\ defer_mp3_seek_locked(a).aim = a
  BY DEF defer_mp3_seek_locked, DeferredSet
<1> QED
  BY <1>1, <1>2

\* What one request for the index, or one collected result, makes of it: the
\* table is the one there was or one of those it may get, and as long as the
\* table is awaited what was deferred stays deferred.
Follows(y, x, new) ==
    /\ y \in IndexSet
    /\ y.table \in {x.table} \cup new
    /\ y.d.aim = x.d.aim
    /\ ~y.attempted => ~x.attempted /\ y.d.on = x.d.on

LEMMA SetupFailsFollows ==
    ASSUME NEW x \in IndexSet, NEW new
    PROVE  /\ Follows(SetupFails(x), x, new) /\ (SetupFails(x).started => x.started)
           /\ Follows(Exhausted(x), x, new) /\ Exhausted(x).attempted /\ ~Exhausted(x).started
<1> USE Mp3Bounds
<1>0. x.d \in DeferredSet /\ x.d.retries \in 0 .. RetryMax
  BY DEF IndexSet, DeferredSet
<1>1. /\ Follows(Exhausted(x), x, new) /\ Exhausted(x).attempted /\ ~Exhausted(x).started
  BY <1>0, DeferredFacts DEF Exhausted, Index, Follows, IndexSet
<1>2. CASE x.d.retries + 1 >= RetryMax
  BY <1>1, <1>2 DEF SetupFails
<1>3. CASE ~(x.d.retries + 1 >= RetryMax)
  <2> DEFINE y == [x EXCEPT !.d.retries = @ + 1, !.d.wait = TRUE]
  <2>1. SetupFails(x) = y
    BY <1>3 DEF SetupFails
  <2>2. x.d.retries + 1 \in 0 .. RetryMax
    BY <1>0, <1>3
  <2>3. /\ y.table = x.table /\ y.attempted = x.attempted /\ y.started = x.started
        /\ y.d.on = x.d.on /\ y.d.aim = x.d.aim
    BY DEF IndexSet, DeferredSet
  <2>4. y.d \in DeferredSet
    BY <1>0, <2>2 DEF IndexSet, DeferredSet
  <2>5. y \in IndexSet
    BY <2>2 DEF IndexSet, DeferredSet
  <2> HIDE DEF y
  <2> QED
    BY <1>1, <2>1, <2>3, <2>5 DEF Follows
<1> QED
  BY <1>2, <1>3

\* A request: a scan starts only when nothing of another one is left.
LEMMA RequestFollows ==
    ASSUME NEW f \in Mp3Files, NEW x \in IndexSet, NEW collected \in BOOLEAN,
           tables \in [Mp3Files -> Extents], tables[f] # "cut", ~x.started,
           NEW y \in request_mp3_seek_index_locked(f, x, collected)
    PROVE  Follows(y, x, Built(f)) /\ (y.started => ~Busy(collected))
<1> USE Mp3Bounds
<1>0. x.d \in DeferredSet
  BY DEF IndexSet
<1>1. CASE x.attempted
  <2>1. y = [x EXCEPT !.d = finish_mp3_deferred_seek_locked(@)]
    BY <1>1 DEF request_mp3_seek_index_locked
  <2>2. finish_mp3_deferred_seek_locked(x.d) \in DeferredSet /\ finish_mp3_deferred_seek_locked(x.d).aim = x.d.aim
    BY <1>0, DeferredFacts
  <2>3. /\ y \in IndexSet /\ y.table = x.table /\ y.attempted = x.attempted /\ y.started = x.started
        /\ y.d = finish_mp3_deferred_seek_locked(x.d)
    BY <2>1, <2>2 DEF IndexSet
  <2> QED
    BY <1>1, <2>2, <2>3 DEF Follows
<1>2. CASE ~x.attempted /\ (Busy(collected) \/ x.d.wait)
  <2>1. y = x
    BY <1>2 DEF request_mp3_seek_index_locked
  <2> QED
    BY <1>2, <2>1 DEF Follows
<1>3. CASE ~x.attempted /\ ~(Busy(collected) \/ x.d.wait)
  <2>1. \/ y = [x EXCEPT !.started = TRUE]
        \/ y = SetupFails(x)
        \/ /\ tables[f] # "none"
           /\ y = Index(Table(f, tables[f]), TRUE, finish_mp3_deferred_seek_locked(x.d), FALSE)
    BY <1>3, Zenon DEF request_mp3_seek_index_locked
  <2>2. CASE y = [x EXCEPT !.started = TRUE]
    BY <1>3, <2>2 DEF Follows, IndexSet
  <2>3. CASE y = SetupFails(x)
    BY <1>3, <2>3, SetupFailsFollows
  <2>4. CASE /\ tables[f] # "none"
             /\ y = Index(Table(f, tables[f]), TRUE, finish_mp3_deferred_seek_locked(x.d), FALSE)
    <3>1. tables[f] \in {"whole", "short"}
      BY <2>4 DEF Extents
    <3>2. PICK tb : tb = Table(f, tables[f])
      OBVIOUS
    <3>3. tb \in TableSet /\ tb \in Built(f)
      BY <3>1, <3>2, RecordFacts DEF Built, Extents
    <3>4. y = Index(tb, TRUE, finish_mp3_deferred_seek_locked(x.d), FALSE)
      BY <2>4, <3>2
    <3> QED
      BY <1>0, <3>3, <3>4, DeferredFacts DEF Index, Follows, IndexSet
  <2> QED
    BY <2>1, <2>2, <2>3, <2>4
<1> QED
  BY <1>1, <1>2, <1>3

\* A table of the playing file is one its track may have.
LEMMA BuiltIsAllowed ==
    ASSUME track.file \in Mp3Files
    PROVE  Built(track.file) \subseteq Allowed
  BY RecordFacts DEF Built, Allowed, Extents

\* A target is about to be sought, or waits.
Kept(c, target) == c.aim = target \/ (c.aim = None /\ OurTarget(c.x.d) = target)

LEMMA OurTargetFacts ==
    ASSUME NEW d \in DeferredSet
    PROVE  /\ OurTarget(d) \in Aims /\ (OurTarget(d) = None \/ OurTarget(d).gen = track.gen)
           /\ ~d.on => OurTarget(d) = None
  BY RecordFacts DEF OurTarget, DeferredSet

\* Collecting a result, whatever it is, keeps what the track waits for.
LEMMA AdoptsKeeps ==
    ASSUME NEW x \in IndexSet, NEW r \in JobSet, JobFits(r, track.gen, track.file, shared),
           track.gen > 0, NEW a \in Adopts(x, r)
    PROVE  /\ Follows(a.x, x, Allowed) /\ (a.x.started => x.started)
           /\ a.aim \in {None, OurTarget(x.d)} /\ Kept(a, OurTarget(x.d))
<1> USE Mp3Bounds
<1>0. x.d \in DeferredSet /\ x.d.retries \in 0 .. RetryMax
  BY DEF IndexSet, DeferredSet
<1> DEFINE y == [x EXCEPT !.table = r.table, !.attempted = TRUE]
<1>1. CASE a = Collected(x, None)
  BY <1>1 DEF Collected, Kept, Follows
<1>2. CASE a = GivesUp(x)
  <2>1. /\ Follows(GivesUp(x).x, x, Allowed) /\ ~GivesUp(x).x.started
        /\ GivesUp(x).aim = OurTarget(x.d)
    BY SetupFailsFollows DEF GivesUp, Collected
  <2> QED
    BY <1>2, <2>1 DEF Kept
<1>3. CASE r.gen = track.gen /\ r.outcome = "ready" /\ a = Collected(y, OurTarget(x.d))
  <2>1. r.table \in Allowed /\ r.table \in TableSet
    BY <1>3 DEF JobFits, JobSet, Allowed
  <2>2. /\ y \in IndexSet /\ y.table = r.table /\ y.attempted /\ y.d = x.d /\ y.started = x.started
    BY <2>1 DEF IndexSet
  <2> HIDE DEF y
  <2>3. Follows(y, x, Allowed)
    BY <2>1, <2>2 DEF Follows
  <2> QED
    BY <1>3, <2>2, <2>3 DEF Collected, Kept
<1>4. CASE a = FailsAgain(x)
  <2>1. CASE x.d.retries + 1 < RetryMax
    <3> DEFINE z == [x EXCEPT !.d.retries = @ + 1, !.d.wait = TRUE]
    <3>1. FailsAgain(x) = Collected(z, None)
      BY <2>1 DEF FailsAgain
    <3>2. x.d.retries + 1 \in 0 .. RetryMax
      BY <1>0, <2>1
    <3>3. /\ z.table = x.table /\ z.attempted = x.attempted /\ z.started = x.started
          /\ z.d.on = x.d.on /\ z.d.aim = x.d.aim
      BY DEF IndexSet, DeferredSet
    <3>4. z \in IndexSet
      BY <3>2 DEF IndexSet, DeferredSet
    <3> HIDE DEF z
    <3>5. OurTarget(z.d) = OurTarget(x.d)
      BY <3>3 DEF OurTarget
    <3>6. Follows(z, x, Allowed)
      BY <3>3, <3>4 DEF Follows
    <3>7. a.x = z /\ a.aim = None
      BY <1>4, <3>1 DEF Collected
    <3> QED
      BY <3>3, <3>5, <3>6, <3>7 DEF Kept
  <2>2. CASE ~(x.d.retries + 1 < RetryMax)
    BY <1>2, <1>4, <2>2 DEF FailsAgain
  <2> QED
    BY <2>1, <2>2
<1>5. \/ a = Collected(x, None)
      \/ r.gen = track.gen /\ r.outcome = "ready" /\ a = Collected(y, OurTarget(x.d))
      \/ a = GivesUp(x)
      \/ a = FailsAgain(x)
  <2>1. CASE r.gen # track.gen
    BY <2>1 DEF Adopts
  <2>2. CASE r.gen = track.gen /\ r.outcome = "ready"
    BY <2>2, Zenon DEF Adopts
  <2>3. CASE r.gen = track.gen /\ r.outcome = "transient"
    BY <2>3 DEF Adopts
  <2>4. CASE r.gen = track.gen /\ r.outcome \notin {"ready", "transient"}
    BY <2>4 DEF Adopts
  <2> QED
    BY <2>1, <2>2, <2>3, <2>4
<1> QED
  BY <1>1, <1>2, <1>3, <1>4, <1>5

\* A request for the index while something waits for it.
LEMMA RequestedKeeps ==
    ASSUME NEW x \in IndexSet, ~x.started, NEW aim \in Aims, track.file \in Mp3Files,
           tables \in [Mp3Files -> Extents], tables[track.file] # "cut",
           OurTarget(x.d) = aim, NEW c \in Requested(x, aim)
    PROVE  /\ Follows(c.x, x, Built(track.file)) /\ (c.x.started => ~slot.active)
           /\ c.aim \in {None, aim} /\ Kept(c, aim) /\ (c.aim # None => c.x.attempted)
<1>1. PICK y \in request_mp3_seek_index_locked(track.file, x, TRUE) :
          c = Collected(y, IF y.attempted THEN aim ELSE None)
  BY DEF Requested
<1>2. Follows(y, x, Built(track.file)) /\ (y.started => ~slot.active)
  <2>1. Follows(y, x, Built(track.file)) /\ (y.started => ~Busy(TRUE))
    BY RequestFollows
  <2> QED
    BY <2>1 DEF Busy
<1>3. c.x = y /\ c.aim = IF y.attempted THEN aim ELSE None
  BY <1>1 DEF Collected
<1>4. CASE y.attempted
  BY <1>2, <1>3, <1>4 DEF Kept
<1>5. CASE ~y.attempted
  <2>1. y.d.on = x.d.on /\ y.d.aim = x.d.aim
    BY <1>2, <1>5 DEF Follows
  <2>2. OurTarget(y.d) = OurTarget(x.d)
    BY <2>1 DEF OurTarget
  <2> QED
    BY <1>2, <1>3, <1>5, <2>2 DEF Kept
<1> QED
  BY <1>4, <1>5

\* Decides() loses neither the target in hand nor, when there is none, the one
\* that waits; and a target it lets through will not be refused.
LEMMA DecidesKeeps ==
    ASSUME NEW x \in IndexSet, ~x.started, NEW aim \in Aims, aim = None \/ aim.gen = track.gen,
           track.file \in Mp3Files, track.gen > 0,
           tables \in [Mp3Files -> Extents], tables[track.file] # "cut",
           NEW c \in Decides(x, aim)
    PROVE  /\ c.x \in IndexSet /\ c.x.table \in {x.table} \cup Built(track.file)
           /\ c.x.d.aim = x.d.aim \/ c.x.d.aim.gen = track.gen
           /\ c.x.started => ~slot.active
           /\ c.aim \in Aims /\ Kept(c, IF aim = None THEN OurTarget(x.d) ELSE aim)
           /\ c.aim # None => track.file \notin Indexed \/ c.x.attempted \/ c.aim.to = 0
<1>0. x.d \in DeferredSet /\ OurTarget(x.d) \in Aims /\ None \in Aims /\ aim.to \in Nat
  BY OurTargetFacts, RecordFacts DEF IndexSet
<1>1. CASE c = Collected(x, aim) /\ (track.file \notin Indexed \/ x.attempted \/ aim.to = 0)
  BY <1>0, <1>1 DEF Collected, Kept
<1>2. CASE aim.to > 0 /\ c \in Requested([x EXCEPT !.d = defer_mp3_seek_locked(aim)], aim)
  <2> DEFINE z == [x EXCEPT !.d = defer_mp3_seek_locked(aim)]
  <2>1. defer_mp3_seek_locked(aim) \in DeferredSet
    BY DeferredFacts
  <2>2. z \in IndexSet /\ z.table = x.table /\ z.started = x.started /\ z.d = defer_mp3_seek_locked(aim)
    BY <2>1 DEF IndexSet
  <2> HIDE DEF z
  <2>3. aim # None
    BY <1>2, RecordFacts
  <2>4. z.d.on = TRUE /\ z.d.aim = aim
    BY <2>2, DeferredFacts
  <2>5. OurTarget(z.d) = aim
    BY <2>3, <2>4 DEF OurTarget
  <2>6. c \in Requested(z, aim)
    BY <1>2 DEF z
  <2>7. /\ Follows(c.x, z, Built(track.file)) /\ (c.x.started => ~slot.active)
        /\ c.aim \in {None, aim} /\ Kept(c, aim) /\ (c.aim # None => c.x.attempted)
    BY <2>2, <2>5, <2>6, RequestedKeeps
  <2> QED
    BY <1>0, <2>2, <2>3, <2>4, <2>7 DEF Follows
<1>3. CASE aim = None /\ c \in Requested(x, OurTarget(x.d))
  <2>1. /\ Follows(c.x, x, Built(track.file)) /\ (c.x.started => ~slot.active)
        /\ c.aim \in {None, OurTarget(x.d)} /\ Kept(c, OurTarget(x.d)) /\ (c.aim # None => c.x.attempted)
    BY <1>0, <1>3, RequestedKeeps
  <2> QED
    BY <1>0, <1>3, <2>1 DEF Follows
<1>4. None.to = 0
  BY RecordFacts
<1>5. CASE track.file \notin Indexed \/ x.attempted
  BY <1>1, <1>5 DEF Decides
<1>6. CASE ~(track.file \notin Indexed \/ x.attempted)
  <2>1. CASE aim.to > 0
    BY <1>2, <1>6, <2>1 DEF Decides
  <2>2. CASE ~(aim.to > 0)
    <3>1. aim.to = 0
      BY <1>0, <2>2
    <3>2. c \in {Collected(x, aim)} \/ (aim = None /\ c \in Requested(x, OurTarget(x.d)))
      BY <1>6, <2>2, Zenon DEF Decides
    <3> QED
      BY <1>1, <1>3, <3>1, <3>2
  <2> QED
    BY <2>1, <2>2
<1> QED
  BY <1>5, <1>6

\* What Started() leaves in the slot and with the worker.
LEMMA StartedEffect ==
    ASSUME Types, OneScan, NEW x \in IndexSet, NEW f \in Mp3Files, NEW g \in 0 .. MaxPlays,
           NEW collected \in BOOLEAN, x.started => ~Busy(collected), Started(x, f, g, collected)
    PROVE  /\ slot' \in [active : BOOLEAN, result : JobSet] /\ scan' \in ScanSet
           /\ OneScan'
           /\ slot'.result \in {slot.result, NoJob}
           /\ scan'.job \in {scan.job, [gen |-> g, outcome |-> "none", table |-> Table(f, "none")]}
<1> DEFINE job == [gen |-> g, outcome |-> "none", table |-> Table(f, "none")]
<1>1. job \in JobSet /\ job.table.of = f /\ NoJob \in JobSet
  <2>1. Table(f, "none") \in TableSet /\ Table(f, "none").of = f
    BY RecordFacts DEF Extents
  <2> QED
    BY <2>1, RecordFacts DEF JobSet
<1>2. CASE x.started
  <2>0. slot' = [active |-> TRUE, result |-> IF collected THEN NoJob ELSE slot.result]
    BY <1>2 DEF Started
  <2>a. (IF collected THEN NoJob ELSE slot.result) = NoJob
    BY <1>2 DEF Busy
  <2>1. slot'.active = TRUE /\ slot'.result = NoJob /\ slot' \in [active : BOOLEAN, result : JobSet]
    BY <1>1, <2>0, <2>a
  <2>2. scan' = [pc |-> "load", job |-> job]
    BY <1>2 DEF Started
  <2> HIDE DEF job
  <2>3. scan'.pc = "load" /\ scan'.job = job /\ scan' \in ScanSet
    BY <1>1, <2>2 DEF ScanSet
  <2> QED
    BY <1>1, <2>1, <2>3 DEF OneScan, job
<1>3. CASE ~x.started
  <2>1. slot'.active = slot.active /\ slot'.result \in {slot.result, NoJob} /\ scan' = scan
    BY <1>3 DEF Started, Types
  <2>2. slot' \in [active : BOOLEAN, result : JobSet] /\ scan' \in ScanSet
    BY <1>1, <1>3, <2>1 DEF Started, Types
  <2> QED
    BY <2>1, <2>2 DEF OneScan
<1> QED
  BY <1>2, <1>3

\* A job that is just given out fits its track, and so does none.
LEMMA NewJobFits ==
    ASSUME NEW f \in Mp3Files, NEW g \in 0 .. MaxPlays, NEW s
    PROVE  /\ JobFits(NoJob, g, f, s)
           /\ JobFits([gen |-> g, outcome |-> "none", table |-> Table(f, "none")], g, f, s)
<1>1. JobFits(NoJob, g, f, s)
  BY RecordFacts DEF JobFits
<1>2. JobFits([gen |-> g, outcome |-> "none", table |-> Table(f, "none")], g, f, s)
  BY DEF JobFits, Table
<1> QED
  BY <1>1, <1>2

-----------------------------------------------------------------------------
\* The other threads' calls preserve the invariant.

LEMMA StepPlay ==
    ASSUME SeekInv, NEW f \in Mp3Files, NEW t \in Targets, audio_play_file_at(f, t)
    PROVE  SeekInv'
<1> USE Mp3Bounds DEF SeekInv, IndexInv
<1>1. /\ command.gen \in 0 .. MaxPlays /\ command.gen + 1 \in 0 .. MaxPlays
      /\ track.gen \in 0 .. MaxPlays /\ None \in Aims
  BY RecordFacts DEF Types, Commands, TrackSet, audio_play_file_at
<1>2. /\ command' \in Commands
      /\ command'.gen = command.gen + 1 /\ command'.file = f
  BY <1>1 DEF audio_play_file_at, Types, Commands
<1>3. deferred' \in DeferredSet /\ deferred'.aim = deferred.aim
  BY DeferredFacts DEF audio_play_file_at, Types
<1>4. UNCHANGED <<slot, scan, track, tables, shared>> /\ owed' = None
  BY DEF audio_play_file_at
<1>5. Types'
  BY <1>1, <1>2, <1>3, <1>4 DEF Types
<1>6. GenerationsInOrder'
  BY <1>1, <1>2, <1>3, <1>4 DEF GenerationsInOrder
<1>7. OneScan' /\ TablesSound'
  BY <1>4 DEF OneScan, TablesSound, Allowed
<1>8. OwesRightly' /\ OwedIsThere'
  BY <1>4, RecordFacts DEF OwesRightly, OwedIsThere, None
<1>9. SeekFits'
  BY <1>4 DEF SeekFits, Refused, Ours, Outstanding, Index
<1> QED
  BY <1>5, <1>6, <1>7, <1>8, <1>9

LEMMA StepStop ==
    ASSUME SeekInv, audio_stop
    PROVE  SeekInv'
<1> USE DEF SeekInv, IndexInv
<1>1. command' \in Commands /\ command'.gen = command.gen /\ command'.restart = command.restart
      /\ command'.file = command.file
  BY DEF audio_stop, Types, Commands
<1>2. UNCHANGED <<deferred, slot, scan, track, tables, shared>> /\ owed' = None
  BY DEF audio_stop
<1>3. Types'
  BY <1>1, <1>2, RecordFacts DEF Types
<1>4. GenerationsInOrder' /\ OneScan' /\ TablesSound'
  BY <1>1, <1>2 DEF GenerationsInOrder, OneScan, TablesSound, Allowed
<1>5. OwesRightly' /\ OwedIsThere'
  BY <1>2 DEF OwesRightly, OwedIsThere, None
<1>6. SeekFits'
  BY <1>2 DEF SeekFits, Refused, Ours, Outstanding, Index
<1> QED
  BY <1>3, <1>4, <1>5, <1>6

LEMMA StepPause ==
    ASSUME SeekInv, audio_toggle_pause
    PROVE  SeekInv'
<1> USE DEF SeekInv, IndexInv
<1>1. /\ command' \in Commands /\ command'.gen = command.gen /\ command'.restart = command.restart
      /\ command'.file = command.file /\ command'.stop = command.stop /\ command'.seek = command.seek
  BY DEF audio_toggle_pause, Types, Commands
<1>2. UNCHANGED <<deferred, slot, scan, track, tables, owed, shared>>
  BY DEF audio_toggle_pause
<1>3. Types'
  BY <1>1, <1>2 DEF Types
<1>4. GenerationsInOrder' /\ OneScan' /\ TablesSound'
  BY <1>1, <1>2 DEF GenerationsInOrder, OneScan, TablesSound, Allowed
<1>5. OwesRightly' /\ OwedIsThere'
  BY <1>1, <1>2 DEF OwesRightly, OwedIsThere, OurTarget, None
<1>6. SeekFits'
  BY <1>2 DEF SeekFits, Refused, Ours, Outstanding, Index
<1> QED
  BY <1>3, <1>4, <1>5, <1>6

LEMMA StepSeek ==
    ASSUME SeekInv, NEW t \in Targets, audio_seek(t)
    PROVE  SeekInv'
<1> USE DEF SeekInv, IndexInv
<1>0. command.gen \in 0 .. MaxPlays /\ command.gen > 0
  BY DEF audio_seek, Types, Commands
<1> DEFINE aim == Aim(t, command.gen)
<1>a. aim \in Aims /\ aim.gen = command.gen
  BY <1>0, RecordFacts
<1> HIDE DEF aim
<1>1. /\ command' \in Commands /\ command'.gen = command.gen /\ command'.restart = command.restart
      /\ command'.file = command.file /\ command'.stop = command.stop /\ command'.seek = aim
  <2>1. command' = [command EXCEPT !.seek = aim]
    BY DEF audio_seek, aim
  <2> QED
    BY <1>a, <2>1 DEF Types, Commands
<1>2. UNCHANGED <<deferred, slot, scan, track, tables, shared>>
  BY DEF audio_seek
<1>o. owed' = IF OnIt /\ ~command.stop THEN aim ELSE owed
  BY DEF audio_seek, aim
<1>3. Types'
  BY <1>a, <1>1, <1>2, <1>o DEF Types
<1>4. GenerationsInOrder' /\ OneScan' /\ TablesSound'
  BY <1>1, <1>2 DEF GenerationsInOrder, OneScan, TablesSound, Allowed
<1>5. owed' # None => OnIt /\ ~command.stop /\ owed' = aim
  BY <1>o DEF OwesRightly, OnIt
<1>6. OwesRightly' /\ OwedIsThere'
  BY <1>a, <1>1, <1>2, <1>5 DEF OwesRightly, OwedIsThere, OnIt, None
<1>7. SeekFits'
  BY <1>2 DEF SeekFits, Refused, Ours, Outstanding, Index
<1> QED
  BY <1>3, <1>4, <1>6, <1>7

-----------------------------------------------------------------------------
\* The worker and the clock.

\* A step that leaves the commands, the deferred fields, the track and what it
\* owes alone cannot disturb the seeks.
LEMMA SeeksUntouched ==
    ASSUME SeekInv, UNCHANGED <<command, deferred, track, owed>>
    PROVE  GenerationsInOrder' /\ OwesRightly' /\ OwedIsThere' /\ SeekFits'
<1> USE DEF SeekInv, IndexInv
<1>1. GenerationsInOrder'
  BY DEF GenerationsInOrder
<1>2. OwesRightly' /\ OwedIsThere'
  BY DEF OwesRightly, OwedIsThere, OurTarget, None
<1>3. SeekFits'
  BY DEF SeekFits, Refused, Ours, Outstanding, Index
<1> QED
  BY <1>1, <1>2, <1>3

\* The worker's own step: its job keeps its track and its file.
LEMMA ScanGoesEffect ==
    ASSUME SeekInv, scan.pc # "none",
           NEW pc \in {"scan", "save", "deliver"}, NEW outcome \in {"none", "ready", "transient", "permanent"},
           NEW extent \in Extents, outcome = "ready" => extent # "cut", pc = "save" => outcome = "ready",
           ScanGoes(pc, outcome, Table(JobFile, extent))
    PROVE  /\ scan' \in ScanSet /\ scan'.pc = pc /\ scan'.job.table.of = JobFile
           /\ scan'.job.outcome = outcome
           /\ JobFits(scan'.job, track.gen, track.file, shared)
<1> USE DEF SeekInv, IndexInv
<1>1. scan.job \in JobSet /\ JobFile \in Mp3Files
  BY DEF Types, ScanSet, OneScan, JobFile
<1> DEFINE tb == Table(JobFile, extent)
<1>2. tb \in TableSet /\ tb.of = JobFile /\ tb.extent = extent
  BY <1>1, RecordFacts
<1> HIDE DEF tb
<1> DEFINE j == [scan.job EXCEPT !.outcome = outcome, !.table = tb]
<1>3. j \in JobSet /\ j.gen = scan.job.gen /\ j.outcome = outcome /\ j.table = tb
  BY <1>1, <1>2 DEF JobSet
<1>4. scan' = [pc |-> pc, job |-> j]
  BY DEF ScanGoes, tb
<1> HIDE DEF j
<1>5. scan' \in ScanSet /\ scan'.pc = pc /\ scan'.job = j
  BY <1>3, <1>4 DEF ScanSet
<1>6. JobFits(j, track.gen, track.file, shared)
  BY <1>2, <1>3 DEF TablesSound, JobFits, JobFile
<1> QED
  BY <1>2, <1>3, <1>5, <1>6

LEMMA StepWorker ==
    ASSUME SeekInv, WorkerStep
    PROVE  SeekInv'
<1> USE DEF SeekInv, IndexInv
<1>0. UNCHANGED <<command, deferred, track, owed, shared>>
  BY DEF WorkerStep, WorkerLoads, WorkerScans, WorkerSaves, WorkerDelivers
<1>1. GenerationsInOrder' /\ OwesRightly' /\ OwedIsThere' /\ SeekFits'
  BY <1>0, SeeksUntouched
<1>2. CASE WorkerLoads \/ WorkerScans
  <2>1. /\ scan.pc # "none" /\ UNCHANGED <<slot, tables>> /\ JobFile \in Mp3Files
    BY <1>2 DEF WorkerLoads, WorkerScans, OneScan, JobFile
  <2>2. /\ scan' \in ScanSet /\ scan'.pc # "none" /\ scan'.job.table.of = JobFile
        /\ scan'.pc = "save" => scan'.job.outcome = "ready"
        /\ JobFits(scan'.job, track.gen, track.file, shared)
    <3> USE DEF Extents
    <3>1. CASE tables[JobFile] # "none" /\ ScanGoes("deliver", "ready", Table(JobFile, tables[JobFile]))
      <4>1. tables[JobFile] \in Extents /\ tables[JobFile] # "cut"
        BY <2>1 DEF TablesSound, Types
      <4> QED
        BY <2>1, <3>1, <4>1, ScanGoesEffect
    <3>2. CASE ScanGoes("scan", "none", Table(JobFile, "none"))
      BY <2>1, <3>2, ScanGoesEffect
    <3>3. CASE \E o \in {"transient", "permanent"}, e \in {"none", "cut"} : ScanGoes("deliver", o, Table(JobFile, e))
      <4>1. PICK o \in {"transient", "permanent"}, e \in {"none", "cut"} : ScanGoes("deliver", o, Table(JobFile, e))
        BY <3>3
      <4>2. o \in {"none", "ready", "transient", "permanent"} /\ o # "ready" /\ e \in Extents
        OBVIOUS
      <4> QED
        BY <2>1, <4>1, <4>2, ScanGoesEffect
    <3>4. CASE \E e \in {"whole", "short"} : ScanGoes("save", "ready", Table(JobFile, e))
      <4>1. PICK e \in {"whole", "short"} : ScanGoes("save", "ready", Table(JobFile, e))
        BY <3>4
      <4>2. e \in Extents /\ e # "cut"
        OBVIOUS
      <4> QED
        BY <2>1, <4>1, <4>2, ScanGoesEffect
    <3>5. CASE WorkerLoads
      BY <3>1, <3>2, <3>3, <3>5 DEF WorkerLoads
    <3>6. CASE WorkerScans
      BY <3>3, <3>4, <3>6 DEF WorkerScans
    <3> QED
      BY <1>2, <3>5, <3>6
  <2>3. Types' /\ OneScan' /\ TablesSound'
    BY <1>0, <2>1, <2>2 DEF Types, OneScan, TablesSound, Allowed
  <2> QED
    BY <1>1, <2>3
<1>3. CASE WorkerSaves
  <2>1. /\ scan' \in ScanSet /\ scan'.pc = "deliver" /\ scan'.job = scan.job /\ UNCHANGED slot
    BY <1>3 DEF WorkerSaves, Types, ScanSet
  <2>2. /\ JobFile \in Mp3Files /\ scan.job.table.extent \in Extents \ {"cut"}
    BY <1>3 DEF WorkerSaves, OneScan, JobFile, TablesSound, JobFits, Types, ScanSet, JobSet, TableSet
  <2>3. tables' = tables \/ tables' = [tables EXCEPT ![JobFile] = scan.job.table.extent]
    BY <1>3, <2>2 DEF WorkerSaves
  <2>4. tables' \in [Mp3Files -> Extents] /\ \A f \in Mp3Files : tables'[f] # "cut"
    BY <2>2, <2>3 DEF Types, TablesSound
  <2>5. Types' /\ OneScan' /\ TablesSound'
    BY <1>0, <1>3, <2>1, <2>2, <2>4 DEF Types, OneScan, TablesSound, WorkerSaves, Allowed
  <2> QED
    BY <1>1, <2>5
<1>4. CASE WorkerDelivers
  <2>1. /\ slot'.active = FALSE /\ slot'.result = scan.job /\ slot' \in [active : BOOLEAN, result : JobSet]
    BY <1>4 DEF WorkerDelivers, Types, ScanSet
  <2>2. scan' \in ScanSet /\ scan'.pc = "none" /\ scan'.job = NoJob /\ UNCHANGED tables
    BY <1>4, RecordFacts DEF WorkerDelivers, ScanSet
  <2>3. JobFits(NoJob, track.gen, track.file, shared)
    BY RecordFacts DEF JobFits, Types, TrackSet
  <2>4. Types' /\ OneScan' /\ TablesSound'
    BY <1>0, <2>1, <2>2, <2>3 DEF Types, OneScan, TablesSound, Allowed
  <2> QED
    BY <1>1, <2>4
<1> QED
  BY <1>2, <1>3, <1>4 DEF WorkerStep

LEMMA StepDelay ==
    ASSUME SeekInv, DelayElapses
    PROVE  SeekInv'
<1> USE DEF SeekInv, IndexInv
<1>1. deferred' \in DeferredSet /\ deferred'.on = deferred.on /\ deferred'.aim = deferred.aim
  BY DEF DelayElapses, Types, DeferredSet
<1>2. UNCHANGED <<command, slot, scan, track, tables, owed, shared>>
  BY DEF DelayElapses
<1>3. Types' /\ GenerationsInOrder' /\ OneScan' /\ TablesSound'
  BY <1>1, <1>2 DEF Types, GenerationsInOrder, OneScan, TablesSound, Allowed
<1>4. OwesRightly' /\ OwedIsThere'
  BY <1>1, <1>2 DEF OwesRightly, OwedIsThere, OurTarget, None
<1>5. SeekFits'
  BY <1>2 DEF SeekFits, Refused, Ours, Outstanding, Index
<1> QED
  BY <1>3, <1>4, <1>5

-----------------------------------------------------------------------------
\* The playback thread.

LEMMA StepRestart ==
    ASSUME SeekInv, TakesRestart
    PROVE  SeekInv'
<1> USE DEF SeekInv, IndexInv
<1>1. /\ track.gen <= command.gen /\ command.gen > 0 /\ command.file \in Mp3Files
      /\ command.gen \in 0 .. MaxPlays /\ track.gen \in 0 .. MaxPlays
      /\ command.seek \in Aims /\ None \in Aims
  BY RecordFacts DEF TakesRestart, GenerationsInOrder, Types, Commands, TrackSet
<1>2. StartAim \in Aims /\ (StartAim # None => StartAim.gen = command.gen)
  BY <1>1, RecordFacts DEF StartAim, Types, Commands
<1>3. /\ command' \in Commands /\ command'.gen = command.gen /\ command'.restart = FALSE
      /\ command'.file = command.file /\ command'.stop = command.stop /\ command'.seek = command.seek
  BY DEF TakesRestart, Types, Commands
<1>4. /\ track' \in TrackSet /\ track'.pc = "eager" /\ track'.gen = command.gen
      /\ track'.file = command.file /\ track'.table = NoFile /\ track'.seek = StartAim
  BY <1>1, <1>2, RecordFacts DEF TakesRestart, TrackSet
<1>5. /\ UNCHANGED <<deferred, slot, scan, tables>>
      /\ owed' = IF command.stop THEN None
                 ELSE IF command.seek.gen = command.gen THEN command.seek ELSE StartAim
      /\ shared' = IF track.gen = command.gen THEN command.gen ELSE shared
  BY DEF TakesRestart
<1>6. Types'
  BY <1>1, <1>2, <1>3, <1>4, <1>5 DEF Types
<1>7. GenerationsInOrder'
  <2>1. deferred.aim.gen \in 0 .. MaxPlays
    BY RecordFacts DEF Types, DeferredSet
  <2> QED
    BY <1>1, <1>3, <1>4, <1>5, <2>1 DEF GenerationsInOrder
<1>8. OneScan'
  BY <1>5 DEF OneScan
<1>9. TablesSound'
  <2>1. scan.job.gen \in 0 .. MaxPlays /\ slot.result.gen \in 0 .. MaxPlays
    BY DEF Types, ScanSet, JobSet
  <2>2. /\ JobFits(scan.job, command.gen, command.file, shared')
        /\ JobFits(slot.result, command.gen, command.file, shared')
    BY <1>1, <1>5, <2>1 DEF TablesSound, JobFits
  <2> QED
    BY <1>4, <1>5, <2>2 DEF TablesSound
<1>10. OwesRightly' /\ OwedIsThere'
  BY <1>2, <1>3, <1>4, <1>5 DEF OwesRightly, OwedIsThere, None
<1>11. SeekFits'
  BY <1>2, <1>4 DEF SeekFits, None
<1> QED
  BY <1>6, <1>7, <1>8, <1>9, <1>10, <1>11

\* What the thread has of the index when it looks.
LEMMA OursFacts ==
    ASSUME Types
    PROVE  /\ Ours \in IndexSet /\ ~Ours.started /\ Ours.table = track.table
           /\ Ours.attempted = track.attempted /\ Ours.d = deferred
  BY DEF Types, TrackSet, Ours, Index, IndexSet

LEMMA StepEager ==
    ASSUME SeekInv, RequestsEagerly
    PROVE  SeekInv'
<1> USE DEF SeekInv, IndexInv
<1>0. track.pc = "eager" /\ track.gen \in 0 .. MaxPlays /\ track.file \in Mp3Files
  BY DEF RequestsEagerly, Types, TrackSet, GenerationsInOrder
<1>1. PICK x \in IF track.file \in Indexed THEN request_mp3_seek_index_locked(track.file, Ours, FALSE) ELSE {Ours} :
         /\ track' = [track EXCEPT !.pc = IF track.seek = None THEN "publish" ELSE "start",
                                       !.table = x.table, !.attempted = x.attempted]
         /\ deferred' = x.d
         /\ Started(x, track.file, track.gen, FALSE)
  BY DEF RequestsEagerly
<1>2. UNCHANGED <<command, tables, owed, shared>>
  BY DEF RequestsEagerly
<1>3. Follows(x, Ours, Built(track.file)) /\ (x.started => ~Busy(FALSE))
  <2>1. tables \in [Mp3Files -> Extents] /\ tables[track.file] # "cut"
    BY <1>0 DEF Types, TablesSound
  <2>2. CASE track.file \in Indexed
    BY <1>0, <1>1, <2>1, <2>2, OursFacts, RequestFollows
  <2>3. CASE track.file \notin Indexed
    BY <1>1, <2>3, OursFacts DEF Follows
  <2> QED
    BY <2>2, <2>3
<1>4. /\ x \in IndexSet /\ x.table \in {track.table} \cup Built(track.file)
      /\ x.d.aim = deferred.aim /\ x.d \in DeferredSet
  BY <1>3, OursFacts DEF Follows, IndexSet
<1>5. /\ track' \in TrackSet /\ track'.gen = track.gen /\ track'.file = track.file
      /\ track'.table = x.table /\ track'.seek = track.seek
  BY <1>1, <1>4 DEF Types, TrackSet, IndexSet
<1>6. track'.pc = IF track.seek = None THEN "publish" ELSE "start"
  BY <1>1 DEF Types, TrackSet
<1>7. /\ slot' \in [active : BOOLEAN, result : JobSet] /\ scan' \in ScanSet
      /\ OneScan'
      /\ slot'.result \in {slot.result, NoJob}
      /\ scan'.job \in {scan.job, [gen |-> track.gen, outcome |-> "none", table |-> Table(track.file, "none")]}
  BY <1>0, <1>1, <1>3, <1>4, StartedEffect
<1>8. Types'
  BY <1>1, <1>2, <1>4, <1>5, <1>7 DEF Types
<1>9. GenerationsInOrder'
  BY <1>0, <1>1, <1>2, <1>4, <1>5 DEF GenerationsInOrder
<1>10. TablesSound'
  <2>1. /\ JobFits(NoJob, track.gen, track.file, shared)
        /\ JobFits([gen |-> track.gen, outcome |-> "none", table |-> Table(track.file, "none")], track.gen, track.file, shared)
    BY <1>0, NewJobFits
  <2>2. x.table \in Allowed \cup {NoFile} /\ Allowed' = Allowed
    BY <1>0, <1>2, <1>4, <1>5, BuiltIsAllowed DEF TablesSound, Allowed
  <2> QED
    BY <1>2, <1>5, <1>7, <2>1, <2>2 DEF TablesSound
<1>11. OwesRightly' /\ OwedIsThere'
  BY <1>0, <1>2, <1>5, <1>6 DEF OwesRightly, OwedIsThere, None
<1>12. SeekFits'
  BY <1>0, <1>5, <1>6 DEF SeekFits, None
<1> QED
  BY <1>7, <1>8, <1>9, <1>10, <1>11, <1>12

\* A step of the thread that leaves the index alone.
LEMMA IndexUntouched ==
    ASSUME SeekInv, UNCHANGED <<slot, scan, tables, shared>>, command' \in Commands, deferred' \in DeferredSet,
           track' \in TrackSet, owed' \in Aims,
           track'.gen = track.gen, track'.file = track.file, track'.table = track.table,
           command'.gen = command.gen, command'.restart = command.restart, command'.file = command.file,
           deferred'.aim.gen <= track.gen, track.pc # "idle"
    PROVE  IndexInv'
<1> USE DEF SeekInv, IndexInv
<1>1. Types'
  BY DEF Types
<1>2. GenerationsInOrder'
  BY DEF GenerationsInOrder
<1>3. OneScan' /\ TablesSound'
  BY DEF OneScan, TablesSound, Allowed
<1> QED
  BY <1>1, <1>2, <1>3

LEMMA StepFailsToOpen ==
    ASSUME SeekInv, FailsToOpen
    PROVE  SeekInv'
<1> USE DEF SeekInv, IndexInv
<1>1. /\ track.pc = "eager" /\ UNCHANGED <<deferred, slot, scan, tables, shared>> /\ owed' = None
      /\ None \in Aims /\ deferred \in DeferredSet /\ deferred.aim.gen <= track.gen
  BY RecordFacts DEF FailsToOpen, Types, GenerationsInOrder
<1>2. /\ track' \in TrackSet /\ track'.pc = "idle" /\ track'.gen = track.gen
      /\ track'.file = track.file /\ track'.table = track.table
  BY DEF FailsToOpen, TrackGoes, Types, TrackSet
<1>3. /\ command' \in Commands /\ command'.gen = command.gen /\ command'.restart = command.restart
      /\ command'.file = command.file
  BY DEF FailsToOpen, Types, Commands
<1>4. IndexInv'
  BY <1>1, <1>2, <1>3, IndexUntouched
<1>5. OwesRightly' /\ OwedIsThere' /\ SeekFits'
  BY <1>1, <1>2 DEF OwesRightly, OwedIsThere, SeekFits, None
<1> QED
  BY <1>4, <1>5

LEMMA StepStart ==
    ASSUME SeekInv, SeeksStart
    PROVE  SeekInv'
<1> USE DEF SeekInv, IndexInv
<1>0. /\ track.pc = "start" /\ track.seek \in Aims /\ None \in Aims /\ None.gen = 0
      /\ track.gen \in 0 .. MaxPlays /\ UNCHANGED <<slot, scan, tables, shared>>
      /\ deferred.aim.gen <= track.gen
  BY RecordFacts DEF SeeksStart, Types, TrackSet, GenerationsInOrder
<1>1. CASE track.file \in Indexed /\ Outstanding(Ours)
  <2>1. /\ deferred' = defer_mp3_seek_locked(track.seek) /\ UNCHANGED <<command, owed>>
        /\ track' = [track EXCEPT !.pc = "publish", !.seek = None]
    BY <1>1 DEF SeeksStart
  <2>2. deferred' \in DeferredSet /\ deferred'.on = TRUE /\ deferred'.aim = track.seek
    BY <1>0, <2>1, DeferredFacts
  <2>3. /\ track' \in TrackSet /\ track'.pc = "publish" /\ track'.seek = None /\ track'.gen = track.gen
        /\ track'.file = track.file /\ track'.table = track.table
    BY <1>0, <2>1 DEF Types, TrackSet
  <2>4. IndexInv'
    <3>1. deferred'.aim.gen <= track.gen
      BY <1>0, <2>2 DEF SeekFits
    <3>2. command' \in Commands /\ owed' \in Aims
      BY <2>1 DEF Types
    <3> QED
      BY <1>0, <2>1, <2>2, <2>3, <3>1, <3>2, IndexUntouched
  <2>5. OwesRightly'
    BY <1>0, <2>1, <2>3 DEF OwesRightly, None
  <2>6. OwedIsThere'
    BY <1>0, <2>1, <2>2, <2>3 DEF OwedIsThere, SeekFits, OurTarget, None
  <2>7. SeekFits'
    BY <2>3 DEF SeekFits, None
  <2> QED
    BY <2>4, <2>5, <2>6, <2>7
<1>2. CASE ~(track.file \in Indexed /\ Outstanding(Ours))
  <2>0. UNCHANGED deferred /\ deferred \in DeferredSet
    BY <1>2 DEF SeeksStart, Types
  <2>1. CASE /\ track' = [track EXCEPT !.pc = "publish", !.seek = None]
             /\ Landed(track.seek) /\ UNCHANGED command
    <3>1. /\ track' \in TrackSet /\ track'.pc = "publish" /\ track'.seek = None /\ track'.gen = track.gen
          /\ track'.file = track.file /\ track'.table = track.table
      BY <1>0, <2>1 DEF Types, TrackSet
    <3>2. owed' \in Aims /\ owed' \in {owed, None} /\ (owed' # track.seek \/ owed' = None)
      BY <1>0, <2>1 DEF Landed, Types
    <3>3. IndexInv'
      BY <1>0, <2>0, <2>1, <3>1, <3>2, IndexUntouched DEF Types
    <3>4. OwesRightly' /\ OwedIsThere'
      BY <1>0, <2>1, <3>1, <3>2 DEF OwesRightly, OwedIsThere, None
    <3>5. SeekFits'
      BY <3>1 DEF SeekFits, None
    <3> QED
      BY <3>3, <3>4, <3>5
  <2>2. CASE /\ track' = [track EXCEPT !.pc = "idle", !.seek = None]
             /\ owed' = None
             /\ command' = [command EXCEPT !.have = FALSE]
    <3>1. /\ track' \in TrackSet /\ track'.pc = "idle" /\ track'.seek = None /\ track'.gen = track.gen
          /\ track'.file = track.file /\ track'.table = track.table
      BY <1>0, <2>2 DEF Types, TrackSet
    <3>2. /\ command' \in Commands /\ command'.gen = command.gen /\ command'.restart = command.restart
          /\ command'.file = command.file
      BY <2>2 DEF Types, Commands
    <3>3. IndexInv'
      BY <1>0, <2>0, <2>2, <3>1, <3>2, IndexUntouched
    <3>4. OwesRightly' /\ OwedIsThere' /\ SeekFits'
      BY <2>2, <3>1 DEF OwesRightly, OwedIsThere, SeekFits, None
    <3> QED
      BY <3>3, <3>4
  <2> QED
    BY <1>2, <2>1, <2>2 DEF SeeksStart
<1> QED
  BY <1>1, <1>2

\* The track becomes the one that plays, or the thread goes back to waiting.
LEMMA StepPublish ==
    ASSUME SeekInv, PublishesTrack
    PROVE  SeekInv'
<1> USE DEF SeekInv, IndexInv
<1>0. /\ track.pc = "publish" /\ UNCHANGED <<deferred, slot, scan, tables, shared>> /\ track.seek = None
      /\ None \in Aims /\ deferred \in DeferredSet /\ deferred.aim.gen <= track.gen
  BY RecordFacts DEF PublishesTrack, SeekFits, Types, GenerationsInOrder
<1>1. /\ command' \in Commands /\ command'.gen = command.gen /\ command'.restart = command.restart
      /\ command'.file = command.file /\ command'.seek = command.seek
  <2>1. \/ command' = command \/ command' = [command EXCEPT !.have = TRUE]
        \/ command' = [command EXCEPT !.have = FALSE]
        \/ command' = [command EXCEPT !.have = FALSE, !.stop = FALSE, !.paused = FALSE]
    BY DEF PublishesTrack
  <2>2. command \in Commands
    BY DEF Types
  <2>3. CASE command' = command
    BY <2>2, <2>3
  <2>4. CASE command' = [command EXCEPT !.have = TRUE]
    BY <2>2, <2>4 DEF Commands
  <2>5. CASE command' = [command EXCEPT !.have = FALSE]
    BY <2>2, <2>5 DEF Commands
  <2>6. CASE command' = [command EXCEPT !.have = FALSE, !.stop = FALSE, !.paused = FALSE]
    BY <2>2, <2>6 DEF Commands
  <2> QED
    BY <2>1, <2>3, <2>4, <2>5, <2>6
<1>2. PICK pc \in {"top", "idle"} :
         /\ track' = [track EXCEPT !.pc = pc]
         /\ pc = "idle" => owed' = None
         /\ pc = "top" => owed' = owed /\ command' = [command EXCEPT !.have = TRUE]
  BY DEF PublishesTrack, TrackGoes
<1>3. /\ track' \in TrackSet /\ track'.pc = pc /\ track'.gen = track.gen /\ track'.file = track.file
      /\ track'.table = track.table /\ track'.seek = None
  BY <1>0, <1>2 DEF Types, TrackSet
<1>4. owed' \in Aims /\ owed' \in {owed, None} /\ (pc = "idle" => owed' = None)
  BY <1>0, <1>2 DEF Types
<1>5. IndexInv'
  BY <1>0, <1>1, <1>3, <1>4, IndexUntouched
<1>6. pc = "top" => command'.stop = command.stop
  BY <1>2 DEF Types, Commands
<1>7. OwesRightly'
  BY <1>0, <1>1, <1>3, <1>4, <1>6 DEF OwesRightly, None
<1>8. OwedIsThere'
  BY <1>0, <1>1, <1>3, <1>4 DEF OwedIsThere, OurTarget, None
<1>9. SeekFits'
  BY <1>3 DEF SeekFits, None
<1> QED
  BY <1>5, <1>7, <1>8, <1>9

LEMMA StepCarriesOut ==
    ASSUME SeekInv, Seeks
    PROVE  SeekInv'
<1> USE DEF SeekInv, IndexInv
<1>0. /\ track.pc = "seek" /\ UNCHANGED <<slot, scan, tables, shared>> /\ None \in Aims
      /\ deferred \in DeferredSet /\ deferred.aim.gen <= track.gen
  BY RecordFacts DEF Seeks, Types, GenerationsInOrder
<1>1. deferred' \in DeferredSet /\ deferred'.aim.gen <= track.gen
  BY <1>0, DeferredFacts DEF Seeks
<1>2. CASE /\ track' = [track EXCEPT !.pc = "top", !.seek = None]
           /\ Landed(track.seek) /\ UNCHANGED command
  <2>1. /\ track' \in TrackSet /\ track'.pc = "top" /\ track'.seek = None /\ track'.gen = track.gen
        /\ track'.file = track.file /\ track'.table = track.table
    BY <1>0, <1>2 DEF Types, TrackSet
  <2>2. owed' \in Aims /\ owed' \in {owed, None} /\ (owed' # track.seek \/ owed' = None)
    BY <1>0, <1>2 DEF Landed, Types
  <2>3. IndexInv'
    BY <1>0, <1>1, <1>2, <2>1, <2>2, IndexUntouched DEF Types
  <2>4. OwesRightly' /\ OwedIsThere'
    BY <1>0, <1>2, <2>1, <2>2 DEF OwesRightly, OwedIsThere, None
  <2>5. SeekFits'
    BY <2>1 DEF SeekFits, None
  <2> QED
    BY <2>3, <2>4, <2>5
<1>3. CASE /\ track' = [track EXCEPT !.pc = "tail", !.seek = None]
           /\ owed' = None
           /\ command' = [command EXCEPT !.have = FALSE, !.paused = FALSE]
  <2>1. /\ track' \in TrackSet /\ track'.pc = "tail" /\ track'.seek = None /\ track'.gen = track.gen
        /\ track'.file = track.file /\ track'.table = track.table
    BY <1>0, <1>3 DEF Types, TrackSet
  <2>2. /\ command' \in Commands /\ command'.gen = command.gen /\ command'.restart = command.restart
        /\ command'.file = command.file
    BY <1>3 DEF Types, Commands
  <2>3. IndexInv'
    BY <1>0, <1>1, <1>3, <2>1, <2>2, IndexUntouched
  <2>4. OwesRightly' /\ OwedIsThere' /\ SeekFits'
    BY <1>3, <2>1 DEF OwesRightly, OwedIsThere, SeekFits, None
  <2> QED
    BY <2>3, <2>4
<1> QED
  BY <1>2, <1>3 DEF Seeks

LEMMA StepChunk ==
    ASSUME SeekInv, PlaysChunk \/ TrackEnds \/ CleansUp
    PROVE  SeekInv'
<1> USE DEF SeekInv, IndexInv
<1>0. /\ track.pc \in {"chunk", "stopped", "tail"} /\ UNCHANGED <<deferred, slot, scan, tables, shared>>
      /\ None \in Aims /\ deferred \in DeferredSet /\ deferred.aim.gen <= track.gen
  BY RecordFacts DEF PlaysChunk, TrackEnds, CleansUp, Types, GenerationsInOrder
<1>1. PICK pc \in {"top", "tail", "idle"} :
         /\ track' = [track EXCEPT !.pc = pc]
         /\ pc = "top" => PlaysChunk
         /\ pc = "tail" => TrackEnds
         /\ pc = "idle" => CleansUp
  BY DEF PlaysChunk, TrackEnds, CleansUp, TrackGoes
<1>2. /\ track' \in TrackSet /\ track'.pc = pc /\ track'.gen = track.gen /\ track'.file = track.file
      /\ track'.table = track.table /\ track'.seek = track.seek
  BY <1>0, <1>1 DEF Types, TrackSet
<1>3. /\ command' \in Commands /\ command'.gen = command.gen /\ command'.restart = command.restart
      /\ command'.file = command.file
  <2>1. command \in Commands
    BY DEF Types
  <2>2. CASE CleansUp
    <3>1. command' = [command EXCEPT !.have = FALSE, !.paused = FALSE, !.stop = @ /\ track.pc = "tail"]
      BY <2>2 DEF CleansUp
    <3> QED
      BY <2>1, <3>1 DEF Commands
  <2>3. CASE PlaysChunk \/ TrackEnds
    BY <2>1, <2>3 DEF PlaysChunk, TrackEnds
  <2> QED
    BY <2>2, <2>3
<1>4. /\ pc = "top" => owed' = owed /\ UNCHANGED command /\ track.pc = "chunk"
      /\ pc # "top" => owed' = None
  BY <1>0, <1>1 DEF PlaysChunk, TrackEnds, CleansUp, OwesRightly
<1>5. IndexInv'
  BY <1>0, <1>2, <1>3, <1>4, IndexUntouched DEF Types
<1>6. OwesRightly'
  BY <1>0, <1>2, <1>4 DEF OwesRightly, None
<1>7. OwedIsThere'
  BY <1>0, <1>2, <1>4 DEF OwedIsThere, OurTarget, None
<1>8. SeekFits'
  BY <1>2, <1>4 DEF SeekFits, None
<1> QED
  BY <1>5, <1>6, <1>7, <1>8

LEMMA StepHandover ==
    ASSUME SeekInv, NEW f \in Mp3Files, HandsOverTo(f)
    PROVE  SeekInv'
<1> USE Mp3Bounds DEF SeekInv, IndexInv
<1> DEFINE g == command.gen + 1
           fresh == Index(NoFile, FALSE, finish_mp3_deferred_seek_locked(deferred), FALSE)
<1>0. /\ g \in 0 .. MaxPlays /\ g > 0 /\ track.gen < g
      /\ command.gen \in 0 .. MaxPlays /\ track.gen \in 0 .. MaxPlays
      /\ UNCHANGED <<tables, shared>> /\ owed' = None /\ None \in Aims
  BY RecordFacts DEF HandsOverTo, Types, Commands, TrackSet, GenerationsInOrder
<1>1. /\ command' \in Commands /\ command'.gen = g /\ command'.restart = command.restart
      /\ command'.file = command.file
  BY <1>0 DEF HandsOverTo, Types, Commands
<1>2. /\ fresh \in IndexSet /\ ~fresh.started /\ fresh.table = NoFile /\ fresh.d.aim = deferred.aim
  <2>1. finish_mp3_deferred_seek_locked(deferred) \in DeferredSet
        /\ finish_mp3_deferred_seek_locked(deferred).aim = deferred.aim
    BY DeferredFacts DEF Types
  <2> QED
    BY <2>1, RecordFacts DEF Index, IndexSet
<1>3. PICK pc \in {"top", "tail"},
           x \in IF f \in Indexed THEN request_mp3_seek_index_locked(f, fresh, FALSE) ELSE {fresh} :
         /\ track' = [pc |-> pc, gen |-> g, file |-> f, table |-> x.table,
                      attempted |-> x.attempted, seek |-> None]
         /\ deferred' = x.d
         /\ Started(x, f, g, FALSE)
  BY DEF HandsOverTo
<1> HIDE DEF g, fresh
<1>4. Follows(x, fresh, Built(f)) /\ (x.started => ~Busy(FALSE))
  <2>1. tables \in [Mp3Files -> Extents] /\ tables[f] # "cut"
    BY DEF Types, TablesSound
  <2>2. CASE f \in Indexed
    BY <1>2, <1>3, <2>1, <2>2, RequestFollows
  <2>3. CASE f \notin Indexed
    BY <1>2, <1>3, <2>3 DEF Follows
  <2> QED
    BY <2>2, <2>3
<1>5. /\ x \in IndexSet /\ x.table \in {NoFile} \cup Built(f) /\ x.table \in TableSet
      /\ x.d.aim = deferred.aim /\ x.d \in DeferredSet /\ x.attempted \in BOOLEAN
  BY <1>2, <1>4 DEF Follows, IndexSet
<1>6. /\ track' \in TrackSet /\ track'.pc = pc /\ track'.gen = g /\ track'.file = f
      /\ track'.table = x.table /\ track'.seek = None
  BY <1>0, <1>3, <1>5 DEF TrackSet
<1>7. /\ slot' \in [active : BOOLEAN, result : JobSet] /\ scan' \in ScanSet
      /\ OneScan'
      /\ slot'.result \in {slot.result, NoJob}
      /\ scan'.job \in {scan.job, [gen |-> g, outcome |-> "none", table |-> Table(f, "none")]}
  BY <1>0, <1>3, <1>4, <1>5, StartedEffect
<1>8. Types'
  BY <1>0, <1>1, <1>3, <1>5, <1>6, <1>7 DEF Types
<1>9. GenerationsInOrder'
  <2>1. deferred.aim.gen \in 0 .. MaxPlays /\ deferred.aim.gen <= track.gen
    BY RecordFacts DEF Types, DeferredSet, GenerationsInOrder
  <2> QED
    BY <1>0, <1>1, <1>3, <1>5, <1>6, <2>1 DEF GenerationsInOrder
<1>10. TablesSound'
  <2>1. /\ JobFits(NoJob, g, f, shared)
        /\ JobFits([gen |-> g, outcome |-> "none", table |-> Table(f, "none")], g, f, shared)
    BY <1>0, NewJobFits
  <2>2. scan.job.gen \in 0 .. MaxPlays /\ slot.result.gen \in 0 .. MaxPlays
    BY DEF Types, ScanSet, JobSet
  <2>3. JobFits(scan.job, g, f, shared) /\ JobFits(slot.result, g, f, shared)
    BY <1>0, <2>2 DEF TablesSound, JobFits
  <2>4. track'.table \in Allowed' \cup {NoFile}
    BY <1>5, <1>6, RecordFacts DEF Allowed, Built, Extents
  <2> QED
    BY <1>0, <1>6, <1>7, <2>1, <2>3, <2>4 DEF TablesSound
<1>11. OwesRightly' /\ OwedIsThere'
  BY <1>0 DEF OwesRightly, OwedIsThere, None
<1>12. SeekFits'
  BY <1>6 DEF SeekFits, None
<1> QED
  BY <1>7, <1>8, <1>9, <1>10, <1>11, <1>12

\* The heart of it: one look at the commands, the result and what is deferred.
LEMMA StepReads ==
    ASSUME SeekInv, ReadsCommands
    PROVE  SeekInv'
<1> USE DEF SeekInv, IndexInv
<1>0. /\ track.pc = "top" /\ track.gen \in 0 .. MaxPlays /\ track.gen > 0 /\ track.file \in Mp3Files
      /\ None \in Aims /\ None.gen = 0 /\ None.to = 0 /\ deferred \in DeferredSet /\ track.seek = None
      /\ command.seek \in Aims /\ deferred.aim.gen <= track.gen
  BY RecordFacts DEF ReadsCommands, Types, TrackSet, Commands, GenerationsInOrder, SeekFits
<1>1. /\ Ours \in IndexSet /\ ~Ours.started /\ Ours.table = track.table /\ Ours.d = deferred
  BY OursFacts
<1>a. PICK a \in Adopts(Ours, slot.result) :
         \E c \in Decides(a.x, Newest(a.aim)) :
            /\ track' = [track EXCEPT
                             !.table = c.x.table, !.attempted = c.x.attempted,
                             !.pc = CASE command.restart -> "idle"
                                      [] command.stop /\ ~command.restart -> "stopped"
                                      [] ~Cancelled /\ c.aim # None -> "seek"
                                      [] ~Cancelled /\ c.aim = None /\ (Holds(c) \/ command.paused) -> "top"
                                      [] OTHER -> "chunk",
                             !.seek = IF Cancelled THEN None ELSE c.aim]
            /\ deferred' = c.x.d
            /\ Started(c.x, track.file, track.gen, TRUE)
  BY DEF ReadsCommands
<1> DEFINE aim == Newest(a.aim)
<1>2. /\ Follows(a.x, Ours, Allowed) /\ ~a.x.started
      /\ a.aim \in {None, OurTarget(deferred)} /\ Kept(a, OurTarget(deferred))
  <2>1. slot.result \in JobSet /\ JobFits(slot.result, track.gen, track.file, shared)
    BY DEF Types, TablesSound
  <2> QED
    BY <1>0, <1>1, <2>1, AdoptsKeeps
<1>3. PICK c \in Decides(a.x, aim) :
            /\ track' = [track EXCEPT
                             !.table = c.x.table, !.attempted = c.x.attempted,
                             !.pc = CASE command.restart -> "idle"
                                      [] command.stop /\ ~command.restart -> "stopped"
                                      [] ~Cancelled /\ c.aim # None -> "seek"
                                      [] ~Cancelled /\ c.aim = None /\ (Holds(c) \/ command.paused) -> "top"
                                      [] OTHER -> "chunk",
                             !.seek = IF Cancelled THEN None ELSE c.aim]
            /\ deferred' = c.x.d
            /\ Started(c.x, track.file, track.gen, TRUE)
  BY <1>a
<1>4. UNCHANGED <<tables, owed, shared>> /\ command' = [command EXCEPT !.seek = None]
  BY DEF ReadsCommands
<1>5. a.x \in IndexSet /\ a.x.table \in {track.table} \cup Allowed /\ a.x.d.aim = deferred.aim
  BY <1>1, <1>2 DEF Follows
<1>6. /\ aim \in Aims /\ (aim = None \/ aim.gen = track.gen)
      /\ aim = IF command.seek.gen = track.gen THEN command.seek ELSE a.aim
  BY <1>0, <1>2, OurTargetFacts DEF Newest
<1> HIDE DEF aim
<1>7. /\ c.x \in IndexSet /\ c.x.table \in {a.x.table} \cup Built(track.file)
      /\ c.x.d.aim = a.x.d.aim \/ c.x.d.aim.gen = track.gen
      /\ c.x.started => ~slot.active
      /\ c.aim \in Aims /\ Kept(c, IF aim = None THEN OurTarget(a.x.d) ELSE aim)
      /\ c.aim # None => track.file \notin Indexed \/ c.x.attempted \/ c.aim.to = 0
  <2>1. tables \in [Mp3Files -> Extents] /\ tables[track.file] # "cut"
    BY <1>0 DEF Types, TablesSound
  <2> QED
    BY <1>0, <1>2, <1>3, <1>5, <1>6, <2>1, DecidesKeeps
<1>8. /\ command' \in Commands /\ command'.gen = command.gen /\ command'.restart = command.restart
      /\ command'.file = command.file /\ command'.stop = command.stop /\ command'.seek = None
  BY <1>0, <1>4 DEF Types, Commands
<1> DEFINE pc == CASE command.restart -> "idle"
                   [] command.stop /\ ~command.restart -> "stopped"
                   [] ~Cancelled /\ c.aim # None -> "seek"
                   [] ~Cancelled /\ c.aim = None /\ (Holds(c) \/ command.paused) -> "top"
                   [] OTHER -> "chunk"
           seek == IF Cancelled THEN None ELSE c.aim
<1>9. /\ pc \in {"idle", "stopped", "seek", "top", "chunk"}
      /\ pc = "seek" => ~Cancelled /\ c.aim # None
      /\ pc \in {"top", "chunk"} => seek = None
      /\ ~Cancelled => pc \in {"seek", "top", "chunk"}
  BY DEF Cancelled
<1>10. seek \in Aims
  BY <1>0, <1>7
<1>11. track' = [track EXCEPT !.table = c.x.table, !.attempted = c.x.attempted, !.pc = pc, !.seek = seek]
  BY <1>3
<1>12. ~Cancelled => seek = c.aim
  OBVIOUS
<1> HIDE DEF pc, seek
<1>13. c.x.table \in TableSet /\ c.x.attempted \in BOOLEAN /\ c.x.d \in DeferredSet
  BY <1>7 DEF IndexSet
<1>14. track' \in TrackSet
  BY <1>9, <1>10, <1>11, <1>13 DEF Types, TrackSet
<1>15. track'.gen = track.gen /\ track'.file = track.file /\ track'.pc = pc
  BY <1>11 DEF Types, TrackSet
<1>16. track'.table = c.x.table /\ track'.attempted = c.x.attempted /\ track'.seek = seek
  BY <1>11 DEF Types, TrackSet
<1>17. /\ slot' \in [active : BOOLEAN, result : JobSet] /\ scan' \in ScanSet
       /\ OneScan'
       /\ slot'.result \in {slot.result, NoJob}
       /\ scan'.job \in {scan.job, [gen |-> track.gen, outcome |-> "none", table |-> Table(track.file, "none")]}
  <2>1. c.x.started => ~Busy(TRUE)
    BY <1>7 DEF Busy
  <2> QED
    BY <1>0, <1>3, <1>7, <2>1, StartedEffect
<1>18. Types'
  BY <1>3, <1>4, <1>8, <1>13, <1>14, <1>17 DEF Types
<1>19. GenerationsInOrder'
  BY <1>0, <1>3, <1>5, <1>7, <1>8, <1>15 DEF GenerationsInOrder
<1>20. TablesSound'
  <2>1. /\ JobFits(NoJob, track.gen, track.file, shared)
        /\ JobFits([gen |-> track.gen, outcome |-> "none", table |-> Table(track.file, "none")], track.gen, track.file, shared)
    BY <1>0, NewJobFits
  <2>2. c.x.table \in Allowed \cup {NoFile} /\ Allowed' = Allowed
    BY <1>0, <1>4, <1>5, <1>7, <1>15, BuiltIsAllowed DEF TablesSound, Allowed
  <2> QED
    BY <1>4, <1>15, <1>16, <1>17, <2>1, <2>2 DEF TablesSound
<1>21. ASSUME owed # None
       PROVE  ~Cancelled /\ Kept(c, owed)
  <2>1. ~Cancelled
    BY <1>0, <1>21 DEF OwesRightly, GenerationsInOrder, Cancelled, Types, Commands
  <2>2. CASE command.seek.gen = track.gen
    <3>1. aim = owed
      BY <1>6, <1>21, <2>2 DEF OwesRightly
    <3> QED
      BY <1>7, <1>21, <2>1, <3>1
  <2>3. CASE command.seek.gen # track.gen
    <3>1. owed = OurTarget(deferred)
      BY <1>0, <1>21, <2>3 DEF OwesRightly, OwedIsThere
    <3>2. aim = a.aim
      BY <1>6, <2>3
    <3>3. CASE a.aim = owed
      BY <1>7, <1>21, <2>1, <3>2, <3>3
    <3>4. CASE a.aim = None /\ OurTarget(a.x.d) = owed
      BY <1>7, <2>1, <3>2, <3>4
    <3> QED
      BY <1>2, <3>1, <3>3, <3>4 DEF Kept
  <2> QED
    BY <2>2, <2>3
<1>22. OwesRightly'
  BY <1>0, <1>4, <1>8, <1>9, <1>15, <1>21 DEF OwesRightly, None
<1>23. OwedIsThere'
  <2> SUFFICES ASSUME owed # None
               PROVE  IF pc \in {"eager", "start", "seek"} THEN owed \in {command'.seek, track'.seek}
                      ELSE owed \in {command'.seek, OurTarget(c.x.d)}
    BY <1>3, <1>4, <1>15 DEF OwedIsThere, OurTarget, None
  <2>1. ~Cancelled /\ Kept(c, owed) /\ track'.seek = c.aim
    BY <1>12, <1>16, <1>21
  <2>2. pc = "seek" => c.aim # None
    BY <1>9
  <2>3. pc \in {"top", "chunk"} => c.aim = None
    BY <1>9, <1>12, <2>1
  <2> QED
    BY <1>9, <2>1, <2>2, <2>3 DEF Kept
<1>24. SeekFits'
  <2>1. (pc \in {"top", "chunk"} => track'.seek = None) /\ pc \notin {"eager", "start", "publish"}
    BY <1>9, <1>16
  <2>2. pc = "seek" => track.file \notin Indexed \/ track'.attempted \/ ~(track'.seek.to > 0)
    BY <1>7, <1>9, <1>12, <1>16
  <2>3. (pc = "seek" => ~Refused(track.seek)')
    BY <1>15, <2>2 DEF Refused, Outstanding, Ours, Index
  <2> QED
    BY <1>15, <2>1, <2>3 DEF SeekFits, None
<1> QED
  BY <1>17, <1>18, <1>19, <1>20, <1>22, <1>23, <1>24

-----------------------------------------------------------------------------
\* The invariant holds at the start, and every step keeps it.
LEMMA InitSeek ==
    Mp3Init => SeekInv
<1> SUFFICES ASSUME Mp3Init PROVE SeekInv
  OBVIOUS
<1> USE Mp3Bounds
<1>1. command \in Commands /\ command.gen = 0 /\ command.restart = FALSE
  BY RecordFacts DEF Mp3Init, Commands
<1>2. deferred \in DeferredSet /\ deferred.aim = None
  BY RecordFacts DEF Mp3Init, DeferredSet
<1>3. /\ slot \in [active : BOOLEAN, result : JobSet] /\ slot.active = FALSE /\ slot.result = NoJob
  BY RecordFacts DEF Mp3Init
<1>4. scan \in ScanSet /\ scan.pc = "none" /\ scan.job = NoJob
  BY RecordFacts DEF Mp3Init, ScanSet
<1>5. track \in TrackSet /\ track.pc = "idle" /\ track.gen = 0 /\ track.table = NoFile
  BY RecordFacts DEF Mp3Init, TrackSet
<1>6. /\ tables \in [Mp3Files -> Extents] /\ \A f \in Mp3Files : tables[f] = "none"
      /\ owed = None /\ shared \in 0 .. MaxPlays
  BY DEF Mp3Init, Extents
<1>7. Types
  BY <1>1, <1>2, <1>3, <1>4, <1>5, <1>6, RecordFacts DEF Types
<1>8. GenerationsInOrder
  BY <1>1, <1>2, <1>5, RecordFacts DEF GenerationsInOrder
<1>9. OneScan
  BY <1>3, <1>4 DEF OneScan
<1>10. TablesSound
  BY <1>3, <1>4, <1>5, <1>6, RecordFacts DEF TablesSound, JobFits
<1>11. OwesRightly /\ OwedIsThere /\ SeekFits
  BY <1>5, <1>6 DEF OwesRightly, OwedIsThere, SeekFits
<1> QED
  BY <1>7, <1>8, <1>9, <1>10, <1>11 DEF SeekInv, IndexInv

LEMMA NextSeek ==
    SeekInv /\ [Mp3Next]_mp3Vars => SeekInv'
<1> SUFFICES ASSUME SeekInv, [Mp3Next]_mp3Vars PROVE SeekInv'
  OBVIOUS
<1>1. CASE UNCHANGED mp3Vars
  <2>1. UNCHANGED <<command, deferred, slot, scan, track, tables, owed, shared>>
    BY <1>1 DEF mp3Vars
  <2>2. GenerationsInOrder' /\ OwesRightly' /\ OwedIsThere' /\ SeekFits'
    BY <2>1, SeeksUntouched
  <2>3. Types' /\ OneScan' /\ TablesSound'
    BY <2>1 DEF SeekInv, IndexInv, Types, OneScan, TablesSound, Allowed
  <2> QED
    BY <2>2, <2>3 DEF SeekInv, IndexInv
<1>2. CASE \E f \in Mp3Files, t \in Targets : audio_play_file_at(f, t)
  BY <1>2, StepPlay
<1>3. CASE audio_stop \/ audio_toggle_pause
  BY <1>3, StepStop, StepPause
<1>4. CASE \E t \in Targets : audio_seek(t)
  BY <1>4, StepSeek
<1>5. CASE WorkerStep \/ DelayElapses
  BY <1>5, StepWorker, StepDelay
<1>6. CASE PlaybackStep
  BY <1>6, StepRestart, StepFailsToOpen, StepEager, StepStart, StepPublish, StepReads, StepCarriesOut, StepChunk, StepHandover
     DEF PlaybackStep
<1> QED
  BY <1>1, <1>2, <1>3, <1>4, <1>5, <1>6 DEF Mp3Next

LEMMA SeekInvariant ==
    Mp3Spec => []SeekInv
  BY InitSeek, NextSeek, PTL DEF Mp3Spec

\* One scan at a time, no result lost to another, and every table the one of its
\* file and of a scan that was not cancelled, whatever tracks come and go while
\* it is built, except where two files were played under one generation.
THEOREM IndexIsSound ==
    Mp3Spec => []IndexSound
<1>1. SeekInv => IndexSound
  <2> SUFFICES ASSUME SeekInv PROVE IndexSound
    OBVIOUS
  <2> USE DEF SeekInv, IndexInv
  <2>1. Mp3TypeOK
    <3>1. scan.pc \in {"none", "load", "scan", "save", "deliver"} /\ scan.job \in JobSet
      BY DEF Types, ScanSet
    <3>2. /\ track.pc \in {"idle", "eager", "start", "publish", "top", "chunk", "seek", "stopped", "tail"}
          /\ track.table \in TableSet /\ track.attempted \in BOOLEAN /\ track.seek \in Aims
      BY DEF Types, TrackSet
    <3> QED
      BY <3>1, <3>2 DEF Types, Mp3TypeOK, Commands, DeferredSet
  <2>2. /\ track.table # NoFile /\ track.gen # shared => track.table.of = track.file
        /\ track.table.extent # "cut"
    BY RecordFacts DEF TablesSound, Allowed
  <2> QED
    BY <2>1, <2>2 DEF IndexSound, OneScan, TablesSound
<1> QED
  BY <1>1, SeekInvariant, PTL

\* The newest seek of the track that plays is never dropped: it is asked for,
\* in hand or deferred; and none that is carried out is refused.
THEOREM SeekIsKept ==
    Mp3Spec => []SeekKept
<1>1. SeekInv => SeekKept
  BY DEF SeekInv, OwedIsThere, SeekFits, SeekKept
<1> QED
  BY <1>1, SeekInvariant, PTL
=============================================================================
