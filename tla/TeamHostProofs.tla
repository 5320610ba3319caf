--------------------------- MODULE TeamHostProofs ---------------------------
(***************************************************************************)
(* Proofs about the team host, for every roster, set of requests and number *)
(* of updates, callers, generations and failures.                           *)
(***************************************************************************)
EXTENDS TeamHost, FiniteSetTheorems, TLAPS

-----------------------------------------------------------------------------
(* The inductive invariant.                                                  *)

\* What the host makes of a scene: the contract's snapshot, with a turn in flight
\* only while it runs, and one that a teardown has met cancelled.
SceneInv(o) ==
    /\ o \in S!SceneSnapshot
    /\ o.running => o.life \in {"live", "disposing"}
    /\ o.active # S!Nobody => o.running
    /\ o.aborting => o.active # S!Nobody
    /\ o.life = "disposing" /\ o.active # S!Nobody => o.aborting

\* The entry of a generation follows its scene.
EntryInv(g) ==
    /\ scene[g].life = "none" <=> g > built
    /\ scene[g].life = "live" <=> g = teams
    /\ disposed[g] <=> scene[g].life \in {"disposing", "disposed"}
    /\ scene[g].life \in {"live", "disposing"} => listening[g]
    /\ scene[g].life = "none" => streams[g] = {} /\ \A r \in Roster : mark[g][r] = "none"
    /\ streams[g] # {} => watching[g] \/ disposed[g]

\* The collectors follow the turn in flight, and are told when it is stopped.
TurnInv(g) ==
    /\ latched[g] \subseteq {scene[g].active}
    /\ scene[g].aborting => mark[g][scene[g].active] # "none"
    /\ \A r \in Roster : mark[g][r] = "ABORTED" => disposed[g]

\* A caller has one stream at most while its call is open, and on it has seen the
\* start of latched turns only.
CallerInv(c) ==
    /\ \A g \in Gen : c \in streams[g] => call[c] = "open" /\ shown[c] \subseteq latched[g]
    /\ \A g, h \in Gen : c \in streams[g] /\ c \in streams[h] => g = h
    /\ call[c] \in {"ended", "failed"} => shown[c] = {}

Busy == {"presets", "models", "teardown", "building"}

\* One materialization at a time is under way; while it replaces the team there is
\* none, and what is being released is the team it took down.
JobInv ==
    /\ job \in [Jobs -> [pc : Busy \cup {"new", "queued", "done", "rejected", "failed"},
                         req : Requests \cup {AnyRequest}]]
    /\ torn \in [Jobs -> Gen \cup {0}]
    /\ \A j \in Jobs :
          /\ job[j].pc \in Busy => chain # <<>> /\ Head(chain) = j
          /\ job[j].pc \in {"teardown", "building"} => teams = 0
          /\ job[j].pc = "teardown" => torn[j] # 0 /\ scene[torn[j]].life = "disposing"
          /\ torn[j] # 0 => job[j].pc \in {"teardown", "building", "done", "failed"}

TornInv ==
    \A g \in Gen : scene[g].life = "disposing" /\ down = "up" =>
       \E j \in Jobs : job[j].pc = "teardown" /\ torn[j] = g

ReaderInv == reader.pc = "reading" => reader.gen # 0

DownInv == down \in {"up", "tearing", "down"}

GensInv == \A g \in Gen : SceneInv(scene[g]) /\ EntryInv(g) /\ TurnInv(g)
CallersInv == \A c \in Calls : CallerInv(c)

HostInv ==
    /\ TypeOK /\ JobInv /\ TornInv /\ ReaderInv /\ DownInv
    /\ GensInv /\ CallersInv

\* The groups of variables the proofs handle together.
entries == <<teams, built, scene, entryVars, latched, failure, mark>>
callers == <<call, shown>>
others == <<presets, reader, down, faults>>

LEMMA HostInvIs ==
    HostInv <=> /\ TypeOK /\ JobInv /\ TornInv /\ ReaderInv /\ DownInv
                /\ GensInv /\ CallersInv
BY DEF HostInv

LEMMA HostInvNow ==
    ASSUME TypeOK', JobInv', TornInv', ReaderInv', DownInv', GensInv', CallersInv'
    PROVE  HostInv'
BY DEF HostInv

LEMMA HostInvInit == Init => HostInv
<1> SUFFICES ASSUME Init PROVE HostInv
  OBVIOUS
<1>n. /\ S!NewScene \in S!SceneSnapshot /\ S!NewScene.life = "none"
      /\ S!NewScene.active = S!Nobody /\ ~S!NewScene.aborting /\ ~S!NewScene.running
  BY S!NewFields
<1>g. \A g \in Gen : g \in Nat /\ g > 0
  BY HostAssumption DEF Gen
<1>s. \A g \in Gen : scene[g] = S!NewScene
  BY DEF Init
<1>1. TypeOK
  BY <1>n, HostAssumption DEF Init, TypeOK, NoRead
<1>2. JobInv
  <2>1. job \in [Jobs -> [pc : Busy \cup {"new", "queued", "done", "rejected", "failed"},
                         req : Requests \cup {AnyRequest}]]
    BY DEF Init, Busy
  <2>2. \A j \in Jobs : job[j].pc = "new" /\ torn[j] = 0
    BY DEF Init
  <2>3. torn \in [Jobs -> Gen \cup {0}]
    BY DEF Init
  <2> QED BY <2>1, <2>2, <2>3 DEF JobInv, Busy
<1>3. TornInv /\ ReaderInv /\ DownInv
  BY <1>n, <1>s DEF Init, TornInv, ReaderInv, DownInv, NoRead
<1>4. GensInv
  <2> SUFFICES ASSUME NEW g \in Gen PROVE SceneInv(scene[g]) /\ EntryInv(g) /\ TurnInv(g)
    BY DEF GensInv
  <2>1. SceneInv(scene[g])
    BY <1>n, <1>s DEF SceneInv
  <2>2. EntryInv(g)
    BY <1>n, <1>s, <1>g DEF Init, EntryInv
  <2>3. TurnInv(g)
    BY <1>n, <1>s DEF Init, TurnInv
  <2> QED BY <2>1, <2>2, <2>3
<1>5. CallersInv
  BY DEF Init, CallersInv, CallerInv
<1> QED BY <1>1, <1>2, <1>3, <1>4, <1>5, HostInvIs

-----------------------------------------------------------------------------
(* One generation at a time.                                                 *)

SameEntry(h) ==
    /\ scene'[h] = scene[h] /\ disposed'[h] = disposed[h] /\ listening'[h] = listening[h]
    /\ watching'[h] = watching[h] /\ latched'[h] = latched[h] /\ mark'[h] = mark[h]
    /\ streams'[h] \subseteq streams[h]
    /\ (h = teams' <=> h = teams) /\ (h > built' <=> h > built)

LEMMA EntryKept ==
    ASSUME NEW h \in Gen, SceneInv(scene[h]), EntryInv(h), TurnInv(h), SameEntry(h)
    PROVE  SceneInv(scene[h])' /\ EntryInv(h)' /\ TurnInv(h)'
<1>1. SceneInv(scene[h])'
  BY DEF SameEntry, SceneInv
<1>2. EntryInv(h)'
  BY DEF SameEntry, EntryInv
<1>3. TurnInv(h)'
  BY DEF SameEntry, TurnInv
<1> QED BY <1>1, <1>2, <1>3

LEMMA OneEntry ==
    ASSUME GensInv, NEW g, \A h \in Gen \ {g} : SameEntry(h),
           g \in Gen => SceneInv(scene[g])' /\ EntryInv(g)' /\ TurnInv(g)'
    PROVE  GensInv'
<1> SUFFICES ASSUME NEW h \in Gen PROVE SceneInv(scene[h])' /\ EntryInv(h)' /\ TurnInv(h)'
  BY DEF GensInv
<1>1. CASE h = g
  BY <1>1
<1>2. CASE h # g
  <2>1. SceneInv(scene[h]) /\ EntryInv(h) /\ TurnInv(h) /\ SameEntry(h)
    BY <1>2 DEF GensInv
  <2> QED BY <2>1, EntryKept
<1> QED BY <1>1, <1>2

LEMMA EntriesKept ==
    ASSUME GensInv, \A h \in Gen : SameEntry(h)
    PROVE  GensInv'
<1> SUFFICES ASSUME NEW h \in Gen PROVE SceneInv(scene[h])' /\ EntryInv(h)' /\ TurnInv(h)'
  BY DEF GensInv
<1>1. SceneInv(scene[h]) /\ EntryInv(h) /\ TurnInv(h) /\ SameEntry(h)
  BY DEF GensInv
<1> QED BY <1>1, EntryKept

\* What a caller sees of a step that neither opens nor closes a stream.
LEMMA CallersKept ==
    ASSUME CallersInv, call' = call, shown' = shown, streams' = streams,
           \A g \in Gen : latched[g] \subseteq latched'[g]
    PROVE  CallersInv'
BY DEF CallersInv, CallerInv

\* Steps that leave the entries alone.
LEMMA QuietEntries ==
    ASSUME HostInv, UNCHANGED entries, UNCHANGED callers
    PROVE  GensInv' /\ CallersInv'
<1>1. \A h \in Gen : SameEntry(h)
  BY DEF SameEntry, entries, entryVars
<1>2. GensInv'
  BY <1>1, EntriesKept, HostInvIs
<1>3. CallersInv'
  BY CallersKept, HostInvIs DEF entries, entryVars, callers
<1> QED BY <1>2, <1>3

-----------------------------------------------------------------------------
(* Steps that leave the entries alone: reads and the first checks of a job.   *)

LEMMA LiveEntry ==
    ASSUME HostInv
    PROVE  /\ liveEntry \in Gen \cup {0} /\ liveEntry \in 0..built
           /\ liveEntry # 0 => /\ liveEntry = teams /\ liveEntry \in Gen
                               /\ scene[liveEntry].life = "live" /\ ~disposed[liveEntry]
<1>1. teams \in Gen \cup {0} /\ built \in Gen \cup {0} /\ GensInv
  BY HostInvIs DEF TypeOK
<1>2. 0 \notin Gen /\ \A g \in Gen : g \in Nat
  BY HostAssumption DEF Gen
<1>3. CASE teams = 0
  BY <1>1, <1>2, <1>3 DEF liveEntry
<1>4. CASE teams # 0
  <2>1. teams \in Gen /\ EntryInv(teams)
    BY <1>1, <1>4 DEF GensInv
  <2>2. scene[teams].life = "live" /\ ~(teams > built)
    BY <2>1 DEF EntryInv
  <2> QED BY <1>1, <1>2, <2>1, <2>2 DEF liveEntry
<1> QED BY <1>3, <1>4

LEMMA ReadKeeps ==
    ASSUME HostInv, GetTeamMember \/ ReadServed \/ ReadFails \/ ReadStale
    PROVE  HostInv'
<1>1. UNCHANGED readFrame
  BY DEF GetTeamMember, ReadServed, ReadFails, ReadStale, readFrame
<1>a. reader.attempt \in Nat /\ built \in Nat
  BY HostInvIs, HostAssumption DEF TypeOK, Gen
<1>2. \/ reader' = NoRead
      \/ \E a \in Nat : a < MEMBER_READ_ATTEMPTS /\ liveEntry # 0
            /\ reader' = [pc |-> "reading", gen |-> liveEntry, attempt |-> a]
  <2>1. reader' = NoRead \/ Sample(0) \/ Sample(reader.attempt + 1)
    BY DEF GetTeamMember, ReadServed, ReadFails, ReadStale
  <2>2. ASSUME NEW a \in Nat, Sample(a)
        PROVE  \/ reader' = NoRead
               \/ a < MEMBER_READ_ATTEMPTS /\ liveEntry # 0
                     /\ reader' = [pc |-> "reading", gen |-> liveEntry, attempt |-> a]
    BY <2>2, HostAssumption DEF Sample
  <2>3. 0 \in Nat /\ reader.attempt + 1 \in Nat
    BY <1>a
  <2> QED BY <2>1, <2>2, <2>3
<1>3. /\ reader' \in [pc : {"idle", "reading"}, gen : 0..built, attempt : 0..(MEMBER_READ_ATTEMPTS - 1)]
      /\ reader'.pc = "reading" => reader'.gen # 0
  <2>1. CASE reader' = NoRead
    BY <2>1, <1>a, HostAssumption DEF NoRead
  <2>2. ASSUME NEW a \in Nat, a < MEMBER_READ_ATTEMPTS, liveEntry # 0,
               reader' = [pc |-> "reading", gen |-> liveEntry, attempt |-> a]
        PROVE  /\ reader' \in [pc : {"idle", "reading"}, gen : 0..built,
                               attempt : 0..(MEMBER_READ_ATTEMPTS - 1)]
               /\ reader'.gen # 0
    <3>1. a \in 0..(MEMBER_READ_ATTEMPTS - 1)
      BY <2>2, HostAssumption
    <3>2. liveEntry \in 0..built
      BY LiveEntry
    <3> DEFINE e == liveEntry
               A == 0..(MEMBER_READ_ATTEMPTS - 1)
    <3> HIDE DEF e, A
    <3>3. reader' = [pc |-> "reading", gen |-> e, attempt |-> a] /\ e \in 0..built /\ a \in A /\ e # 0
      BY <2>2, <3>1, <3>2 DEF e, A
    <3>4. reader' \in [pc : {"idle", "reading"}, gen : 0..built, attempt : A] /\ reader'.gen # 0
      BY <3>3
    <3> QED BY <3>4 DEF A
  <2> QED BY <1>2, <2>1, <2>2
<1>4. TypeOK'
  BY <1>1, <1>3, HostInvIs DEF TypeOK, readFrame, entryVars, turnVars, jobVars
<1>5. JobInv' /\ TornInv' /\ DownInv'
  BY <1>1, HostInvIs DEF JobInv, TornInv, DownInv, readFrame, entryVars, turnVars, jobVars
<1>6. ReaderInv'
  BY <1>3 DEF ReaderInv
<1>7. GensInv' /\ CallersInv'
  BY <1>1, QuietEntries DEF readFrame, entryVars, turnVars, entries, callers
<1> QED BY <1>4, <1>5, <1>6, <1>7, HostInvNow

\* What a job of a chain may become.
JobType == [pc : Busy \cup {"new", "queued", "done", "rejected", "failed"},
            req : Requests \cup {AnyRequest}]

\* Job j, which is first in the chain, or none, becomes something else.
LEMMA JobMoves ==
    ASSUME JobInv, chain \in Seq(Jobs), NEW j \in Jobs, NEW q \in JobType,
           job' = [job EXCEPT ![j] = q], torn' = torn, teams' = teams, scene' = scene,
           job[j].pc \notin {"done", "failed", "rejected"},
           \/ chain' = chain /\ (q.pc \in Busy => MayRun(j))
           \/ q.pc \notin Busy /\ chain # <<>> /\ Head(chain) = j /\ chain' \in Seq(Jobs)
              /\ (\A k \in Jobs \ {j} : job[k].pc \notin Busy)
           \/ q.pc = "queued" /\ chain' = Append(chain, j),
           q.pc \in {"teardown", "building"} => teams = 0,
           q.pc = "teardown" => torn[j] # 0 /\ scene[torn[j]].life = "disposing",
           torn[j] # 0 => q.pc \in {"teardown", "building", "done", "failed"}
    PROVE  JobInv'
<1>1. job' \in [Jobs -> JobType] /\ torn' \in [Jobs -> Gen \cup {0}]
  BY DEF JobInv, JobType
<1>2. \A k \in Jobs : job'[k] = IF k = j THEN q ELSE job[k]
  BY DEF JobInv
<1>3. ASSUME NEW k \in Jobs
      PROVE  /\ job'[k].pc \in {"teardown", "building"} => teams' = 0
             /\ job'[k].pc = "teardown" => torn'[k] # 0 /\ scene'[torn'[k]].life = "disposing"
             /\ torn'[k] # 0 => job'[k].pc \in {"teardown", "building", "done", "failed"}
  BY <1>2 DEF JobInv
<1>4. ASSUME NEW k \in Jobs, job'[k].pc \in Busy PROVE chain' # <<>> /\ Head(chain') = k
  <2>1. CASE chain' = chain /\ (q.pc \in Busy => MayRun(j))
    BY <1>2, <1>4, <2>1 DEF JobInv, MayRun
  <2>2. CASE q.pc \notin Busy /\ \A i \in Jobs \ {j} : job[i].pc \notin Busy
    BY <1>2, <1>4, <2>2
  <2>3. CASE q.pc = "queued" /\ chain' = Append(chain, j)
    <3>1. k # j /\ job[k].pc \in Busy
      BY <1>2, <1>4, <2>3 DEF Busy
    <3>2. chain # <<>> /\ Head(chain) = k
      BY <3>1 DEF JobInv
    <3> QED BY <2>3, <3>2
  <2> QED BY <2>1, <2>2, <2>3
<1> QED BY <1>1, <1>3, <1>4 DEF JobInv, JobType

\* The chain's jobs before they touch the team.
LEMMA OneBusy ==
    ASSUME JobInv, NEW j \in Jobs, job[j].pc \in Busy
    PROVE  /\ chain # <<>> /\ Head(chain) = j
           /\ \A k \in Jobs \ {j} : job[k].pc \notin Busy
BY DEF JobInv

LEMMA FinishType ==
    ASSUME NEW pc \in {"done", "rejected", "failed"}
    PROVE  [pc |-> pc, req |-> AnyRequest] \in JobType
BY DEF JobType

LEMMA TailType == ASSUME chain \in Seq(Jobs), chain # <<>> PROVE Tail(chain) \in Seq(Jobs)
OBVIOUS

\* A job that moves on or is refused changes nothing else.
LEMMA JobAloneKeeps ==
    ASSUME HostInv, NEW j \in Jobs, NEW q \in JobType, job' = [job EXCEPT ![j] = q],
           UNCHANGED <<teams, built, scene, entryVars, turnVars, torn, jobFrame>>,
           JobInv', chain' \in Seq(Jobs),
           job[j].pc # "teardown", q.pc # "teardown"
    PROVE  HostInv'
<1>j. job \in [Jobs -> JobType]
  BY HostInvIs DEF JobInv, JobType
<1>p. job' \in [Jobs -> JobType]
  BY <1>j
<1>1. TypeOK'
  <2>1. \A k \in Jobs : job'[k].pc \in {"new", "queued", "presets", "models", "teardown",
                                     "building", "done", "rejected", "failed"}
    BY <1>p DEF JobType, Busy
  <2> QED BY <2>1, HostInvIs DEF TypeOK, entryVars, turnVars, jobFrame
<1>2. TornInv'
  <2> SUFFICES ASSUME NEW g \in Gen, scene[g].life = "disposing", down = "up"
               PROVE  \E k \in Jobs : job'[k].pc = "teardown" /\ torn[k] = g
    BY DEF TornInv, jobFrame
  <2>1. PICK k \in Jobs : job[k].pc = "teardown" /\ torn[k] = g
    BY HostInvIs DEF TornInv
  <2> QED BY <1>j, <2>1
<1>3. ReaderInv' /\ DownInv'
  BY HostInvIs DEF ReaderInv, DownInv, jobFrame
<1>4. GensInv' /\ CallersInv'
  BY QuietEntries DEF entries, callers, entryVars, turnVars, jobFrame
<1> QED BY <1>1, <1>2, <1>3, <1>4, HostInvNow

LEMMA UpdateTeamKeeps ==
    ASSUME HostInv, NEW j \in Jobs, NEW q \in Requests, UpdateTeam(j, q)
    PROVE  HostInv'
<1>1. JobInv /\ chain \in Seq(Jobs) /\ job[j].pc = "new" /\ job \in [Jobs -> JobType]
  BY HostInvIs DEF UpdateTeam, JobAt, TypeOK, JobInv, JobType
<1>2. torn[j] = 0
  BY <1>1 DEF JobInv
<1>u. UNCHANGED <<teams, built, scene, entryVars, turnVars, torn, faults, jobFrame>>
  BY DEF UpdateTeam
<1>3. CASE WiredScene(q) /\ ValidStructure(q) /\ ValidMask(q)
  <2> DEFINE x == [pc |-> "queued", req |-> q]
  <2>1. x \in JobType /\ x.pc = "queued"
    BY DEF JobType
  <2>2. job' = [job EXCEPT ![j] = x] /\ chain' = Append(chain, j)
    BY <1>3 DEF UpdateTeam
  <2> HIDE DEF x
  <2>3. JobInv'
    BY <1>1, <1>2, <1>u, <2>1, <2>2, JobMoves DEF Busy
  <2>4. chain' \in Seq(Jobs)
    BY <1>1, <2>2
  <2> QED BY <1>1, <1>u, <2>1, <2>2, <2>3, <2>4, JobAloneKeeps
<1>4. CASE ~(WiredScene(q) /\ ValidStructure(q) /\ ValidMask(q))
  <2> DEFINE x == [job[j] EXCEPT !.pc = "rejected"]
  <2>1. x \in JobType /\ x.pc = "rejected"
    BY <1>1 DEF JobType
  <2>2. job' = [job EXCEPT ![j] = x] /\ chain' = chain
    BY <1>4 DEF UpdateTeam
  <2> HIDE DEF x
  <2>3. JobInv'
    BY <1>1, <1>2, <1>u, <2>1, <2>2, JobMoves DEF Busy
  <2> QED BY <1>1, <1>u, <2>1, <2>2, <2>3, JobAloneKeeps
<1> QED BY <1>3, <1>4

\* Job j goes on to pc, or is finished, with the team as it was.
LEMMA GoKeeps ==
    ASSUME HostInv, NEW j \in Jobs, NEW pc \in Busy \ {"teardown"}, Go(j, pc), chain' = chain,
           MayRun(j), torn[j] = 0 \/ pc = "building", pc = "building" => teams = 0,
           job[j].pc \in {"queued", "presets", "models"},
           UNCHANGED <<teams, built, scene, entryVars, turnVars, torn, faults, jobFrame>>
    PROVE  HostInv'
<1>1. JobInv /\ chain \in Seq(Jobs) /\ job \in [Jobs -> JobType]
  BY HostInvIs DEF TypeOK, JobInv, JobType
<1> DEFINE x == [job[j] EXCEPT !.pc = pc]
<1>2. x \in JobType /\ x.pc = pc
  BY <1>1 DEF JobType
<1>3. job' = [job EXCEPT ![j] = x]
  BY DEF Go
<1> HIDE DEF x
<1>4. JobInv'
  BY <1>1, <1>2, <1>3, JobMoves DEF Busy
<1> QED BY <1>1, <1>2, <1>3, <1>4, JobAloneKeeps DEF Busy

LEMMA FinishKeeps ==
    ASSUME HostInv, NEW j \in Jobs, NEW pc \in {"done", "rejected", "failed"}, Finish(j, pc),
           MayRun(j), job[j].pc \in {"queued", "presets", "models", "building"},
           torn[j] = 0 \/ pc \in {"done", "failed"},
           UNCHANGED <<teams, built, scene, entryVars, turnVars, torn, jobFrame>>
    PROVE  HostInv'
<1>1. JobInv /\ chain \in Seq(Jobs) /\ job \in [Jobs -> JobType]
  BY HostInvIs DEF TypeOK, JobInv, JobType
<1> DEFINE x == [pc |-> pc, req |-> AnyRequest]
<1>2. x \in JobType /\ x.pc = pc
  BY FinishType
<1>3. job' = [job EXCEPT ![j] = x] /\ chain' = Tail(chain)
  BY DEF Finish
<1> HIDE DEF x
<1>4. chain # <<>> /\ Head(chain) = j /\ \A k \in Jobs \ {j} : job[k].pc \notin Busy
  BY <1>1 DEF MayRun, JobInv
<1>5. chain' \in Seq(Jobs)
  BY <1>1, <1>3, <1>4, TailType
<1>6. JobInv'
  BY <1>1, <1>2, <1>3, <1>4, <1>5, JobMoves DEF Busy
<1> QED BY <1>1, <1>2, <1>3, <1>5, <1>6, JobAloneKeeps

LEMMA CheckKeeps ==
    ASSUME HostInv, NEW j \in Jobs, CheckRoster(j) \/ CheckPresets(j)
    PROVE  HostInv'
<1>1. JobInv /\ job[j].pc \in {"queued", "presets"}
  BY HostInvIs DEF CheckRoster, CheckPresets, JobAt
<1>2. torn[j] = 0 /\ MayRun(j)
  BY <1>1 DEF JobInv, MayRun, Busy, CheckRoster, CheckPresets, JobAt
<1>u. UNCHANGED <<teams, built, scene, entryVars, turnVars, torn, faults, jobFrame>>
  BY DEF CheckRoster, CheckPresets
<1>3. \/ Go(j, "presets") /\ chain' = chain
      \/ Go(j, "models") /\ chain' = chain
      \/ Finish(j, "rejected")
  BY DEF CheckRoster, CheckPresets
<1>4. {"presets", "models"} \subseteq Busy \ {"teardown"}
  BY DEF Busy
<1> QED BY <1>1, <1>2, <1>u, <1>3, <1>4, GoKeeps, FinishKeeps

-----------------------------------------------------------------------------
(* Callers and the turns of a team.                                          *)

LEMMA JobsKept ==
    ASSUME HostInv, UNCHANGED <<teams, jobVars, down>>,
           \A g \in Gen : scene'[g].life = scene[g].life
    PROVE  JobInv' /\ TornInv'
<1>1. JobInv'
  <2>1. JobInv
    BY HostInvIs
  <2>2. ASSUME NEW j \in Jobs, job[j].pc = "teardown" PROVE torn[j] # 0 /\ scene'[torn[j]].life = "disposing"
    BY <2>1, <2>2 DEF JobInv
  <2> QED BY <2>1, <2>2 DEF JobInv, jobVars
<1>2. TornInv'
  BY HostInvIs DEF TornInv, jobVars
<1> QED BY <1>1, <1>2

LEMMA SendKeeps == ASSUME HostInv, NEW c \in Calls, Send(c) PROVE HostInv'
<1>1. PICK g \in Gen :
         g = liveEntry /\ g = teams /\ scene[g].life = "live" /\ ~disposed[g] /\ call[c] = "gone"
  BY LiveEntry DEF Send
<1>2. PICK o \in S!SubmitResults(scene[g]) : scene' = [scene EXCEPT ![g] = o]
  BY <1>1 DEF Send
<1>t. TypeOK /\ GensInv /\ CallersInv /\ JobInv /\ TornInv /\ ReaderInv /\ DownInv
  BY HostInvIs
<1>s. scene[g] \in S!SceneSnapshot /\ SceneInv(scene[g]) /\ EntryInv(g) /\ TurnInv(g)
  BY <1>1, <1>t DEF TypeOK, GensInv
<1>3. /\ o \in S!SceneSnapshot /\ o.life = scene[g].life /\ o.aborting = scene[g].aborting
      /\ o.active = scene[g].active \/ (scene[g].active = S!Nobody /\ o.running)
      /\ scene[g].running => o.running
  BY <1>2, <1>s, S!SubmitFields
<1>4. /\ scene'[g] = o /\ \A h \in Gen \ {g} : scene'[h] = scene[h]
      /\ scene' \in [Gen -> S!SceneSnapshot]
  BY <1>1, <1>2, <1>3, <1>t DEF TypeOK
<1>5. /\ streams' = [streams EXCEPT ![g] = @ \cup {c}] /\ call' = [call EXCEPT ![c] = "open"]
      /\ shown' = [shown EXCEPT ![c] = {}]
      /\ watching' = [watching EXCEPT ![g] = @ \/ (~disposed[g] /\ (scene'[g].running \/ streams'[g] # {}))]
  BY <1>1 DEF Send, Watch
<1>u. UNCHANGED <<teams, built, disposed, listening, latched, failure, mark, jobVars, presets, reader, down, faults>>
  BY DEF Send
<1>6. /\ streams' \in [Gen -> SUBSET Calls] /\ watching'[g] /\ watching' \in [Gen -> BOOLEAN]
      /\ streams'[g] = streams[g] \cup {c}
      /\ \A h \in Gen \ {g} : streams'[h] = streams[h] /\ watching'[h] = watching[h]
  BY <1>1, <1>5, <1>t DEF TypeOK
<1>7. TypeOK'
  BY <1>4, <1>5, <1>6, <1>u, <1>t DEF TypeOK, jobVars
<1>8. JobInv' /\ TornInv'
  BY <1>3, <1>4, <1>u, JobsKept
<1>9. ReaderInv' /\ DownInv'
  BY <1>u, <1>t DEF ReaderInv, DownInv
<1>10. GensInv'
  <2>1. \A h \in Gen \ {g} : SameEntry(h)
    BY <1>4, <1>6, <1>u DEF SameEntry
  <2>2. SceneInv(o)
    BY <1>1, <1>3, <1>s DEF SceneInv
  <2>3. EntryInv(g)'
    BY <1>1, <1>3, <1>4, <1>6, <1>u, <1>s DEF EntryInv
  <2>a. o.aborting => o.active = scene[g].active
    BY <1>3, <1>s DEF SceneInv
  <2>l. latched[g] # {} => o.active = scene[g].active
    <3>1. latched[g] \subseteq Roster /\ S!Nobody \notin Roster
      BY <1>1, <1>t, HostAssumption DEF TypeOK, S!Nobody
    <3> QED BY <3>1, <1>3, <1>s DEF TurnInv
  <2>4. TurnInv(g)'
    BY <1>3, <1>4, <1>u, <1>s, <2>a, <2>l DEF TurnInv
  <2> QED BY <1>4, <1>t, <2>1, <2>2, <2>3, <2>4, OneEntry
<1>11. CallersInv'
  <2> SUFFICES ASSUME NEW d \in Calls PROVE CallerInv(d)'
    BY DEF CallersInv
  <2>0. CallerInv(d) /\ CallerInv(c)
    BY <1>t DEF CallersInv
  <2>1. CASE d = c
    <3>1. \A h \in Gen : c \notin streams[h]
      BY <1>1, <2>0 DEF CallerInv
    <3>2. \A h \in Gen : c \in streams'[h] => h = g
      BY <1>6, <3>1
    <3>3. call'[c] = "open" /\ shown'[c] = {}
      BY <1>5, <1>t DEF TypeOK
    <3> QED BY <2>1, <3>2, <3>3 DEF CallerInv
  <2>2. CASE d # c
    <3>1. call'[d] = call[d] /\ shown'[d] = shown[d]
      BY <1>5, <1>t, <2>2 DEF TypeOK
    <3>2. \A h \in Gen : d \in streams'[h] <=> d \in streams[h]
      BY <1>6, <2>2
    <3> QED BY <1>u, <2>0, <3>1, <3>2 DEF CallerInv
  <2> QED BY <2>1, <2>2
<1> QED BY <1>7, <1>8, <1>9, <1>10, <1>11, HostInvNow

LEMMA DisconnectKeeps == ASSUME HostInv, NEW c \in Calls, Disconnect(c) PROVE HostInv'
<1>t. TypeOK /\ GensInv /\ CallersInv /\ JobInv /\ TornInv /\ ReaderInv /\ DownInv
  BY HostInvIs
<1>u. UNCHANGED <<teams, built, scene, disposed, listening, watching, latched, failure, mark, jobVars,
                   presets, reader, down, faults>>
  BY DEF Disconnect
<1>1. /\ streams' = [g \in Gen |-> streams[g] \ {c}] /\ call' = [call EXCEPT ![c] = "gone"]
      /\ shown' = [shown EXCEPT ![c] = {}]
  BY DEF Disconnect
<1>2. TypeOK'
  BY <1>1, <1>u, <1>t DEF TypeOK, jobVars
<1>3. JobInv' /\ TornInv'
  BY <1>u, JobsKept
<1>4. ReaderInv' /\ DownInv'
  BY <1>u, <1>t DEF ReaderInv, DownInv
<1>5. GensInv'
  <2>1. \A h \in Gen : SameEntry(h)
    BY <1>1, <1>u DEF SameEntry
  <2> QED BY <1>t, <2>1, EntriesKept
<1>6. CallersInv'
  <2> SUFFICES ASSUME NEW d \in Calls PROVE CallerInv(d)'
    BY DEF CallersInv
  <2>0. CallerInv(d)
    BY <1>t DEF CallersInv
  <2>1. CASE d = c
    BY <1>1, <1>t, <2>1 DEF CallerInv, TypeOK
  <2>2. CASE d # c
    <3>1. call'[d] = call[d] /\ shown'[d] = shown[d]
      BY <1>1, <1>t, <2>2 DEF TypeOK
    <3>2. \A h \in Gen : d \in streams'[h] <=> d \in streams[h]
      BY <1>1, <2>2
    <3> QED BY <1>u, <2>0, <3>1, <3>2 DEF CallerInv
  <2> QED BY <2>1, <2>2
<1> QED BY <1>2, <1>3, <1>4, <1>5, <1>6, HostInvNow

Marks == [Roster -> {"none", "CANCELED", "ABORTED"}]

\* A step of the scene, the watcher and the collectors of one entry that stays
\* in its life.
LEMMA SceneMoves ==
    ASSUME HostInv, NEW g \in Gen, SceneInv(scene'[g]), scene'[g].life = scene[g].life,
           scene[g].life # "none",
           scene' \in [Gen -> S!SceneSnapshot], watching' \in [Gen -> BOOLEAN],
           mark' \in [Gen -> Marks], latched' \in [Gen -> SUBSET Roster],
           failure' \in [Gen -> SUBSET Roster], shown' \in [Calls -> SUBSET Roster],
           \A h \in Gen \ {g} : /\ scene'[h] = scene[h] /\ watching'[h] = watching[h]
                                /\ mark'[h] = mark[h] /\ latched'[h] = latched[h],
           watching[g] => watching'[g], TurnInv(g)', CallersInv',
           UNCHANGED <<teams, built, disposed, streams, listening, jobVars, presets, call,
                       reader, down, faults>>
    PROVE  HostInv'
<1>t. TypeOK /\ GensInv /\ JobInv /\ TornInv /\ ReaderInv /\ DownInv
  BY HostInvIs
<1>1. TypeOK'
  BY <1>t DEF TypeOK, jobVars, Marks
<1>2. JobInv' /\ TornInv'
  BY JobsKept
<1>3. ReaderInv' /\ DownInv'
  BY <1>t DEF ReaderInv, DownInv
<1>4. GensInv'
  <2>1. \A h \in Gen \ {g} : SameEntry(h)
    BY DEF SameEntry
  <2>2. EntryInv(g)'
    BY <1>t DEF EntryInv, GensInv
  <2> QED BY <1>t, <2>1, <2>2, OneEntry
<1> QED BY <1>1, <1>2, <1>3, <1>4, HostInvNow

LEMMA MarkType ==
    ASSUME HostInv, NEW g \in Gen, NEW status \in {"CANCELED", "ABORTED"}, Mark(g, status)
    PROVE  /\ mark' \in [Gen -> Marks] /\ \A h \in Gen \ {g} : mark'[h] = mark[h]
           /\ scene[g].active # S!Nobody => mark'[g][scene[g].active] = status
           /\ \A r \in Roster : r # scene[g].active => mark'[g][r] = mark[g][r]
           /\ scene[g].active = S!Nobody => mark' = mark
<1>1. mark \in [Gen -> Marks] /\ scene[g].active \in Roster \cup {S!Nobody}
  BY HostInvIs DEF TypeOK, Marks, S!SceneSnapshot
<1>2. CASE scene[g].active = S!Nobody
  BY <1>1, <1>2 DEF Mark, InFlight
<1>3. CASE scene[g].active # S!Nobody
  BY <1>1, <1>3 DEF Mark, InFlight, Marks
<1> QED BY <1>2, <1>3

LEMMA CancelKeeps == ASSUME HostInv, Cancel PROVE HostInv'
<1>1. PICK g \in Gen : g = liveEntry /\ g = teams /\ scene[g].life = "live" /\ ~disposed[g]
  BY LiveEntry DEF Cancel
<1>2. PICK o \in S!CancelResults(scene[g]) : scene' = [scene EXCEPT ![g] = o]
  BY <1>1 DEF Cancel
<1>t. TypeOK /\ GensInv /\ CallersInv
  BY HostInvIs
<1>s. scene[g] \in S!SceneSnapshot /\ SceneInv(scene[g]) /\ EntryInv(g) /\ TurnInv(g)
  BY <1>t DEF TypeOK, GensInv
<1>3. /\ o \in S!SceneSnapshot /\ o.life = scene[g].life /\ o.active = scene[g].active
      /\ o.running = scene[g].running
      /\ o.aborting => scene[g].aborting \/ scene[g].active # S!Nobody
  BY <1>2, <1>s, S!CancelFields
<1>4. /\ scene'[g] = o /\ \A h \in Gen \ {g} : scene'[h] = scene[h]
      /\ scene' \in [Gen -> S!SceneSnapshot]
  BY <1>2, <1>3, <1>t DEF TypeOK
<1>u. UNCHANGED <<teams, built, disposed, streams, listening, latched, failure, shown,
                       jobVars, presets, call, reader, down, faults>>
  BY DEF Cancel
<1>5. /\ watching' \in [Gen -> BOOLEAN] /\ (watching[g] => watching'[g])
      /\ \A h \in Gen \ {g} : watching'[h] = watching[h]
  BY <1>1, <1>t DEF Cancel, Watch, TypeOK
<1>6. Mark(g, "CANCELED")
  BY <1>1 DEF Cancel
<1>7. /\ mark' \in [Gen -> Marks] /\ \A h \in Gen \ {g} : mark'[h] = mark[h]
      /\ scene[g].active # S!Nobody => mark'[g][scene[g].active] = "CANCELED"
      /\ \A r \in Roster : r # scene[g].active => mark'[g][r] = mark[g][r]
  BY <1>6, MarkType
<1>8. SceneInv(o)
  BY <1>1, <1>3, <1>s DEF SceneInv
<1>9. TurnInv(g)'
  <2>1. latched'[g] \subseteq {scene'[g].active}
    BY <1>3, <1>4, <1>u, <1>s DEF TurnInv
  <2>2. scene'[g].aborting => mark'[g][scene'[g].active] # "none"
    BY <1>3, <1>4, <1>7, <1>s DEF SceneInv
  <2>3. ASSUME NEW r \in Roster, mark'[g][r] = "ABORTED" PROVE disposed'[g]
    <3>1. CASE r = scene[g].active
      <4>1. S!Nobody \notin Roster
        BY HostAssumption DEF S!Nobody
      <4> QED BY <1>7, <2>3, <3>1, <4>1
    <3>2. CASE r # scene[g].active
      BY <1>7, <1>u, <1>s, <2>3, <3>2 DEF TurnInv
    <3> QED BY <3>1, <3>2
  <2> QED BY <2>1, <2>2, <2>3 DEF TurnInv
<1>10. CallersInv'
  BY <1>t, <1>u, CallersKept
<1>11. /\ latched' \in [Gen -> SUBSET Roster] /\ failure' \in [Gen -> SUBSET Roster]
       /\ shown' \in [Calls -> SUBSET Roster]
       /\ \A h \in Gen \ {g} : latched'[h] = latched[h]
  BY <1>u, <1>t DEF TypeOK
<1> QED BY <1>1, <1>3, <1>4, <1>5, <1>7, <1>8, <1>9, <1>10, <1>11, <1>u, SceneMoves

LEMMA SeenFields ==
    ASSUME NEW o \in S!SceneSnapshot
    PROVE  /\ Seen(o) \in S!SceneSnapshot /\ Seen(o).life = o.life /\ Seen(o).active = o.active
           /\ Seen(o).running = o.running /\ Seen(o).aborting = o.aborting
BY DEF Seen, S!SceneSnapshot, S!SceneFailureOrigin

\* Between turns: only the scene moves, and no turn is in flight before.
LEMMA BetweenTurnsKeeps ==
    ASSUME HostInv, NEW g \in Gen, NEW o \in S!SceneSnapshot, scene' = [scene EXCEPT ![g] = o],
           scene[g].running, scene[g].active = S!Nobody, o.life = scene[g].life,
           o.aborting = scene[g].aborting,
           o.active = S!Nobody \/ (o.running /\ o.life = "live"),
           UNCHANGED <<teams, built, entryVars, turnVars, jobVars, presets, call, reader, down, faults>>
    PROVE  HostInv'
<1>t. TypeOK /\ GensInv /\ CallersInv
  BY HostInvIs
<1>s. SceneInv(scene[g]) /\ EntryInv(g) /\ TurnInv(g)
  BY <1>t DEF GensInv
<1>1. scene'[g] = o /\ scene' \in [Gen -> S!SceneSnapshot] /\ \A h \in Gen \ {g} : scene'[h] = scene[h]
  BY <1>t DEF TypeOK
<1>2. SceneInv(o) /\ o.life # "none" /\ ~o.aborting
  BY <1>s DEF SceneInv
<1>3. latched[g] = {}
  <2>1. latched[g] \subseteq Roster /\ S!Nobody \notin Roster
    BY <1>t, HostAssumption DEF TypeOK, S!Nobody
  <2> QED BY <1>s, <2>1 DEF TurnInv
<1>4. TurnInv(g)'
  BY <1>1, <1>2, <1>3, <1>s DEF TurnInv, entryVars, turnVars
<1>5. CallersInv'
  BY <1>t, CallersKept DEF entryVars, turnVars
<1>6. /\ watching' \in [Gen -> BOOLEAN] /\ mark' \in [Gen -> Marks]
      /\ latched' \in [Gen -> SUBSET Roster] /\ failure' \in [Gen -> SUBSET Roster]
      /\ shown' \in [Calls -> SUBSET Roster]
      /\ \A h \in Gen \ {g} : /\ watching'[h] = watching[h] /\ mark'[h] = mark[h]
                              /\ latched'[h] = latched[h]
      /\ watching[g] => watching'[g]
      /\ UNCHANGED <<teams, built, disposed, streams, listening, jobVars, presets, call,
                     reader, down, faults>>
  BY <1>t DEF TypeOK, Marks, entryVars, turnVars
<1> QED BY <1>1, <1>2, <1>4, <1>5, <1>6, SceneMoves

LEMMA ContinuesKeeps == ASSUME HostInv, NEW g \in Gen, Continues(g) PROVE HostInv'
<1>t. scene[g] \in S!SceneSnapshot
  BY HostInvIs DEF TypeOK
<1>1. PICK o \in S!ContinueResults(scene[g]) : scene' = [scene EXCEPT ![g] = Seen(o)]
  BY DEF Continues
<1>2. /\ o \in S!SceneSnapshot /\ o.life = scene[g].life /\ o.aborting = scene[g].aborting
      /\ o.running = scene[g].running
  BY <1>1, <1>t, S!ContinueFields
<1> DEFINE q == Seen(o)
<1>3. /\ q \in S!SceneSnapshot /\ q.life = scene[g].life /\ q.aborting = scene[g].aborting
      /\ q.running = scene[g].running
  BY <1>2, SeenFields
<1>4. scene' = [scene EXCEPT ![g] = q]
  BY <1>1
<1> HIDE DEF q
<1>5. scene[g].running /\ scene[g].active = S!Nobody /\ scene[g].life = "live"
      /\ UNCHANGED <<teams, built, entryVars, turnVars, jobVars, presets, call, reader, down, faults>>
  BY DEF Continues
<1> QED BY <1>3, <1>4, <1>5, BetweenTurnsKeeps

LEMMA RestsKeeps == ASSUME HostInv, NEW g \in Gen, Rests(g) PROVE HostInv'
<1>t. scene[g] \in S!SceneSnapshot
  BY HostInvIs DEF TypeOK
<1>0. scene[g].running /\ scene[g].active = S!Nobody
      /\ UNCHANGED <<teams, built, entryVars, turnVars, jobVars, presets, call, reader, down, faults>>
  BY DEF Rests
<1>1. CASE scene[g].life = "live"
  <2>1. PICK o \in S!RestResults(scene[g]) : scene' = [scene EXCEPT ![g] = o]
    BY <1>1 DEF Rests
  <2>2. /\ o \in S!SceneSnapshot /\ o.life = scene[g].life /\ o.aborting = scene[g].aborting
        /\ o.active = scene[g].active
    BY <2>1, <1>t, S!RestFields
  <2> QED BY <1>0, <2>1, <2>2, BetweenTurnsKeeps
<1>2. CASE scene[g].life # "live"
  <2> DEFINE o == [scene[g] EXCEPT !.running = FALSE]
  <2>1. scene' = [scene EXCEPT ![g] = o]
    BY <1>2 DEF Rests
  <2>2. /\ o \in S!SceneSnapshot /\ o.life = scene[g].life /\ o.aborting = scene[g].aborting
        /\ o.active = scene[g].active
    BY <1>t DEF S!SceneSnapshot
  <2> HIDE DEF o
  <2> QED BY <1>0, <2>1, <2>2, BetweenTurnsKeeps
<1> QED BY <1>1, <1>2

\* A turn of g that a collector sees start, seen by its streams.
LEMMA TurnStartsKeeps == ASSUME HostInv, NEW g \in Gen, TurnStarts(g) PROVE HostInv'
<1>t. TypeOK /\ GensInv /\ CallersInv
  BY HostInvIs
<1>s. SceneInv(scene[g]) /\ EntryInv(g) /\ TurnInv(g)
  BY <1>t DEF GensInv
<1>1. PICK r \in Roster : r = scene[g].active
  BY <1>t DEF TurnStarts, TypeOK, S!SceneSnapshot
<1>2. /\ latched' = [latched EXCEPT ![g] = @ \cup {r}]
      /\ shown' = [c \in Calls |-> IF c \in streams[g] THEN shown[c] \cup {r} ELSE shown[c]]
  BY <1>1 DEF TurnStarts, Turns
<1>u. UNCHANGED <<teams, built, scene, entryVars, failure, mark, jobVars, presets,
                       call, reader, down, faults>>
  BY DEF TurnStarts
<1>3. SceneInv(scene'[g]) /\ scene'[g].life = scene[g].life /\ scene[g].life # "none"
  BY <1>u, <1>s, <1>1, HostAssumption DEF SceneInv, TurnStarts
<1>4. TurnInv(g)'
  BY <1>1, <1>2, <1>u, <1>s, <1>t DEF TurnInv, TypeOK, entryVars
<1>5. CallersInv'
  <2> SUFFICES ASSUME NEW c \in Calls PROVE CallerInv(c)'
    BY DEF CallersInv
  <2>0. CallerInv(c)
    BY <1>t DEF CallersInv
  <2>1. CASE c \in streams[g]
    <3>1. call[c] = "open" /\ shown[c] \subseteq latched[g] /\ \A h \in Gen : c \in streams[h] => h = g
      BY <2>0, <2>1 DEF CallerInv
    <3>2. shown'[c] \subseteq latched'[g]
      BY <1>2, <1>t, <2>1, <3>1 DEF TypeOK
    <3> QED BY <1>u, <3>1, <3>2 DEF CallerInv, entryVars
  <2>2. CASE c \notin streams[g]
    <3>1. shown'[c] = shown[c] /\ \A h \in Gen : latched[h] \subseteq latched'[h]
      BY <1>2, <1>t, <2>2 DEF TypeOK
    <3> QED BY <1>u, <2>0, <3>1 DEF CallerInv, entryVars
  <2> QED BY <2>1, <2>2
<1>6. /\ scene' \in [Gen -> S!SceneSnapshot] /\ watching' \in [Gen -> BOOLEAN]
      /\ mark' \in [Gen -> Marks] /\ latched' \in [Gen -> SUBSET Roster]
      /\ failure' \in [Gen -> SUBSET Roster] /\ shown' \in [Calls -> SUBSET Roster]
      /\ \A h \in Gen \ {g} : /\ scene'[h] = scene[h] /\ watching'[h] = watching[h]
                              /\ mark'[h] = mark[h] /\ latched'[h] = latched[h]
      /\ watching[g] => watching'[g]
      /\ UNCHANGED <<teams, built, disposed, streams, listening, jobVars, presets, call,
                     reader, down, faults>>
  BY <1>2, <1>u, <1>t DEF TypeOK, Marks, entryVars
<1> QED BY <1>3, <1>4, <1>5, <1>6, SceneMoves

LEMMA TurnFailsKeeps == ASSUME HostInv, NEW g \in Gen, TurnFails(g) PROVE HostInv'
<1>t. TypeOK /\ GensInv /\ CallersInv
  BY HostInvIs
<1>s. SceneInv(scene[g]) /\ EntryInv(g) /\ TurnInv(g)
  BY <1>t DEF GensInv
<1>1. PICK r \in Roster : r = scene[g].active /\ r # S!Nobody
  BY <1>t DEF TurnFails, TypeOK, S!SceneSnapshot
<1>2. failure' = [failure EXCEPT ![g] = @ \cup {r}]
  BY <1>1 DEF TurnFails
<1>u. UNCHANGED <<teams, built, scene, entryVars, latched, mark, shown, jobVars,
                       presets, call, reader, down, faults>>
  BY DEF TurnFails
<1>3. SceneInv(scene'[g]) /\ scene'[g].life = scene[g].life /\ scene[g].life # "none"
  BY <1>u, <1>s, <1>1 DEF SceneInv
<1>4. TurnInv(g)'
  BY <1>u, <1>s DEF TurnInv, entryVars
<1>5. CallersInv'
  BY <1>u, <1>t, CallersKept DEF entryVars
<1>6. /\ scene' \in [Gen -> S!SceneSnapshot] /\ watching' \in [Gen -> BOOLEAN]
      /\ mark' \in [Gen -> Marks] /\ latched' \in [Gen -> SUBSET Roster]
      /\ failure' \in [Gen -> SUBSET Roster] /\ shown' \in [Calls -> SUBSET Roster]
      /\ \A h \in Gen \ {g} : /\ scene'[h] = scene[h] /\ watching'[h] = watching[h]
                              /\ mark'[h] = mark[h] /\ latched'[h] = latched[h]
      /\ watching[g] => watching'[g]
      /\ UNCHANGED <<teams, built, disposed, streams, listening, jobVars, presets, call,
                     reader, down, faults>>
  BY <1>2, <1>u, <1>t DEF TypeOK, Marks, entryVars
<1> QED BY <1>3, <1>4, <1>5, <1>6, SceneMoves

\* The turn in flight ends: its collector has settled or has seen nothing of it.
LEMMA TurnEndsKeeps == ASSUME HostInv, NEW g \in Gen, TurnEnds(g) PROVE HostInv'
<1>t. TypeOK /\ GensInv /\ CallersInv
  BY HostInvIs
<1>s. SceneInv(scene[g]) /\ EntryInv(g) /\ TurnInv(g) /\ scene[g] \in S!SceneSnapshot
  BY <1>t DEF GensInv, TypeOK
<1>1. PICK r \in Roster : r = scene[g].active /\ r # S!Nobody
  BY <1>t DEF TurnEnds, TypeOK, S!SceneSnapshot
<1> DEFINE failed == r \in failure[g]
<1>2. PICK p \in S!TurnEndResults(scene[g], failed) : scene' = [scene EXCEPT ![g] = Seen(p)]
  BY <1>1 DEF TurnEnds
<1>3. p \in S!SceneSnapshot /\ p.life = scene[g].life /\ p.active = S!Nobody /\ ~p.aborting
  <2>1. failed \in BOOLEAN
    OBVIOUS
  <2> HIDE DEF failed
  <2> QED BY <1>2, <1>s, <2>1, S!TurnEndFields
<1> DEFINE o == Seen(p)
<1>4. o \in S!SceneSnapshot /\ o.life = scene[g].life /\ o.active = S!Nobody /\ ~o.aborting
  BY <1>3, SeenFields
<1> HIDE DEF o
<1>5. scene' = [scene EXCEPT ![g] = o]
  BY <1>2 DEF o
<1>u. UNCHANGED <<teams, built, entryVars, jobVars, presets, call, reader, down, faults>>
  BY DEF TurnEnds
<1>6. Settle(g, r)
  BY <1>1 DEF TurnEnds
<1>7. scene[g].life \in {"live", "disposing"} /\ listening[g] /\ latched[g] \subseteq {r}
  BY <1>1, <1>s DEF SceneInv, EntryInv, TurnInv
<1>8. scene' \in [Gen -> S!SceneSnapshot] /\ scene'[g] = o /\ \A h \in Gen \ {g} : scene'[h] = scene[h]
  BY <1>4, <1>5, <1>t DEF TypeOK
<1>9. SceneInv(scene'[g]) /\ scene'[g].life = scene[g].life /\ scene[g].life # "none"
  BY <1>4, <1>7, <1>8 DEF SceneInv
<1>f. /\ watching' \in [Gen -> BOOLEAN]
      /\ \A h \in Gen : watching'[h] = watching[h]
      /\ UNCHANGED <<teams, built, disposed, streams, listening, jobVars, presets, call,
                     reader, down, faults>>
  BY <1>u, <1>t DEF TypeOK, entryVars
<1>10. CASE r \in latched[g]
  <2>1. /\ latched' = [latched EXCEPT ![g] = @ \ {r}] /\ failure' = [failure EXCEPT ![g] = @ \ {r}]
        /\ mark' = [mark EXCEPT ![g][r] = "none"]
        /\ shown' = [c \in Calls |-> IF c \in streams[g] THEN shown[c] \ {r} ELSE shown[c]]
    BY <1>6, <1>7, <1>10 DEF Settle, Turns
  <2>2. /\ mark' \in [Gen -> Marks] /\ latched' \in [Gen -> SUBSET Roster]
        /\ failure' \in [Gen -> SUBSET Roster] /\ shown' \in [Calls -> SUBSET Roster]
        /\ latched'[g] = {} /\ mark'[g][r] = "none" /\ \A q \in Roster \ {r} : mark'[g][q] = mark[g][q]
        /\ \A h \in Gen \ {g} : mark'[h] = mark[h] /\ latched'[h] = latched[h]
    BY <2>1, <1>7, <1>t DEF TypeOK, Marks
  <2>3. TurnInv(g)'
    BY <2>2, <1>4, <1>8, <1>f, <1>s DEF TurnInv
  <2>4. CallersInv'
    <3> SUFFICES ASSUME NEW c \in Calls PROVE CallerInv(c)'
      BY DEF CallersInv
    <3>0. CallerInv(c)
      BY <1>t DEF CallersInv
    <3>1. CASE c \in streams[g]
      <4>1. call[c] = "open" /\ shown[c] \subseteq latched[g] /\ \A h \in Gen : c \in streams[h] => h = g
        BY <3>0, <3>1 DEF CallerInv
      <4>2. shown'[c] \subseteq latched'[g]
        BY <2>1, <1>t, <3>1, <4>1 DEF TypeOK
      <4> QED BY <1>f, <4>1, <4>2 DEF CallerInv
    <3>2. CASE c \notin streams[g]
      <4>1. shown'[c] = shown[c]
        BY <2>1, <3>2
      <4> QED BY <1>f, <2>2, <3>0, <3>2, <4>1 DEF CallerInv
    <3> QED BY <3>1, <3>2
  <2> QED BY <1>8, <1>9, <1>f, <2>2, <2>3, <2>4, SceneMoves
<1>11. CASE r \notin latched[g]
  <2>1. UNCHANGED turnVars
    BY <1>6, <1>11 DEF Settle
  <2>2. /\ mark' \in [Gen -> Marks] /\ latched' \in [Gen -> SUBSET Roster]
        /\ failure' \in [Gen -> SUBSET Roster] /\ shown' \in [Calls -> SUBSET Roster]
        /\ latched'[g] = {} /\ \A h \in Gen : mark'[h] = mark[h] /\ latched'[h] = latched[h]
    BY <2>1, <1>7, <1>11, <1>t DEF TypeOK, Marks, turnVars
  <2>3. TurnInv(g)'
    BY <2>2, <1>4, <1>8, <1>f, <1>s DEF TurnInv
  <2>4. CallersInv'
    BY <2>1, <1>f, <1>t, CallersKept DEF turnVars
  <2> QED BY <1>8, <1>9, <1>f, <2>2, <2>3, <2>4, SceneMoves
<1> QED BY <1>10, <1>11

-----------------------------------------------------------------------------
(* Streams that close, and the release of a team.                            *)

\* At rest no collector has a turn.
LEMMA RestUnlatched ==
    ASSUME HostInv, NEW g \in Gen, ~scene[g].running
    PROVE  scene[g].active = S!Nobody /\ ~scene[g].aborting /\ latched[g] = {}
<1>t. TypeOK /\ GensInv
  BY HostInvIs
<1>1. scene[g].active = S!Nobody /\ ~scene[g].aborting
  BY <1>t DEF GensInv, SceneInv
<1>2. latched[g] \subseteq Roster /\ S!Nobody \notin Roster
  BY <1>t, HostAssumption DEF TypeOK, S!Nobody
<1>3. latched[g] \subseteq {scene[g].active}
  BY <1>t DEF GensInv, TurnInv
<1> QED BY <1>1, <1>2, <1>3

\* Streams of a team at rest have shown the end of every turn.
LEMMA CloseKeeps ==
    ASSUME HostInv, NEW g \in Gen, ~scene[g].running, NEW how \in {"ended", "failed"},
           CloseStreams(g, how), shown' = shown,
           \A h \in Gen \ {g} : latched'[h] = latched[h]
    PROVE  /\ CallersInv' /\ call' \in [Calls -> {"gone", "open", "ended", "failed"}]
           /\ streams' \in [Gen -> SUBSET Calls] /\ streams'[g] = {}
           /\ \A h \in Gen \ {g} : streams'[h] = streams[h]
<1>t. TypeOK /\ CallersInv
  BY HostInvIs
<1>1. /\ call' = [c \in Calls |-> IF c \in streams[g] THEN how ELSE call[c]]
      /\ streams' = [streams EXCEPT ![g] = {}]
  BY DEF CloseStreams
<1>2. /\ call' \in [Calls -> {"gone", "open", "ended", "failed"}]
      /\ streams' \in [Gen -> SUBSET Calls] /\ streams'[g] = {}
      /\ \A h \in Gen \ {g} : streams'[h] = streams[h]
  BY <1>1, <1>t DEF TypeOK
<1>3. CallersInv'
  <2> SUFFICES ASSUME NEW c \in Calls PROVE CallerInv(c)'
    BY DEF CallersInv
  <2>0. CallerInv(c)
    BY <1>t DEF CallersInv
  <2>1. CASE c \in streams[g]
    <3>1. shown[c] \subseteq latched[g] /\ \A h \in Gen : c \in streams[h] => h = g
      BY <2>0, <2>1 DEF CallerInv
    <3>2. shown'[c] = {}
      BY <3>1, RestUnlatched
    <3>3. \A h \in Gen : c \notin streams'[h]
      BY <1>2, <3>1
    <3> QED BY <3>2, <3>3 DEF CallerInv
  <2>2. CASE c \notin streams[g]
    <3>1. call'[c] = call[c]
      BY <1>1, <2>2
    <3>2. \A h \in Gen : c \in streams'[h] => c \in streams[h] /\ h # g
      BY <1>2
    <3> QED BY <2>0, <3>1, <3>2 DEF CallerInv
  <2> QED BY <2>1, <2>2
<1> QED BY <1>2, <1>3

LEMMA WatchSettlesKeeps == ASSUME HostInv, NEW g \in Gen, WatchSettles(g) PROVE HostInv'
<1>t. TypeOK /\ GensInv /\ CallersInv /\ JobInv /\ TornInv /\ ReaderInv /\ DownInv
  BY HostInvIs
<1>u. UNCHANGED <<teams, built, scene, disposed, listening, turnVars, jobVars, presets, reader, down, faults>>
  BY DEF WatchSettles
<1>1. /\ watching' \in [Gen -> BOOLEAN] /\ ~scene[g].running
      /\ \A h \in Gen \ {g} : watching'[h] = watching[h]
  BY <1>t DEF WatchSettles, WatchDue, TypeOK
<1>2. /\ CallersInv' /\ call' \in [Calls -> {"gone", "open", "ended", "failed"}]
      /\ streams' \in [Gen -> SUBSET Calls] /\ (streams'[g] = {} \/ disposed[g])
      /\ \A h \in Gen \ {g} : streams'[h] = streams[h]
      /\ streams'[g] \subseteq streams[g]
  <2>1. CASE disposed[g]
    <3>1. call' = call /\ streams' = streams
      BY <2>1 DEF WatchSettles
    <3>2. CallersInv'
      BY <1>t, <1>u, <3>1, CallersKept DEF turnVars
    <3> QED BY <1>t, <2>1, <3>1, <3>2 DEF TypeOK
  <2>2. CASE ~disposed[g]
    <3>1. PICK how \in {"ended", "failed"} : CloseStreams(g, how)
      BY <2>2 DEF WatchSettles
    <3>2. shown' = shown /\ \A h \in Gen \ {g} : latched'[h] = latched[h]
      BY <1>u DEF turnVars
    <3> QED BY <1>1, <3>1, <3>2, CloseKeeps
  <2> QED BY <2>1, <2>2
<1>3. TypeOK'
  BY <1>1, <1>2, <1>u, <1>t DEF TypeOK, turnVars, jobVars
<1>4. JobInv' /\ TornInv'
  BY <1>u, JobsKept
<1>5. ReaderInv' /\ DownInv'
  BY <1>u, <1>t DEF ReaderInv, DownInv
<1>6. GensInv'
  <2>0. SceneInv(scene[g]) /\ EntryInv(g) /\ TurnInv(g)
    BY <1>t DEF GensInv
  <2>1. \A h \in Gen \ {g} : SameEntry(h)
    BY <1>1, <1>2, <1>u DEF SameEntry, turnVars
  <2>2. SceneInv(scene[g])'
    BY <2>0, <1>u
  <2>3. EntryInv(g)'
    BY <2>0, <1>2, <1>u DEF EntryInv, turnVars
  <2>4. TurnInv(g)'
    BY <2>0, <1>u DEF TurnInv, turnVars
  <2> QED BY <1>t, <2>1, <2>2, <2>3, <2>4, OneEntry
<1> QED BY <1>2, <1>3, <1>4, <1>5, <1>6, HostInvNow

\* Steps that change nothing but the presets, the service's state or nothing.
LEMMA AsideKeeps ==
    ASSUME HostInv, UNCHANGED <<teams, built, scene, entryVars, turnVars, jobVars, call, reader>>,
           presets' \subseteq presets, down' = down \/ (down' = "down" /\ down # "up")
    PROVE  HostInv'
<1>t. TypeOK /\ JobInv /\ TornInv /\ ReaderInv /\ DownInv
  BY HostInvIs
<1>1. TypeOK'
  BY <1>t DEF TypeOK, entryVars, turnVars, jobVars
<1>2. JobInv' /\ ReaderInv' /\ DownInv'
  BY <1>t DEF JobInv, ReaderInv, DownInv, jobVars
<1>3. TornInv'
  BY <1>t DEF TornInv, jobVars
<1>4. GensInv' /\ CallersInv'
  BY QuietEntries DEF entries, callers, entryVars, turnVars
<1> QED BY <1>1, <1>2, <1>3, <1>4, HostInvNow

LEMMA DeletePresetKeeps == ASSUME HostInv, NEW p, DeletePreset(p) PROVE HostInv'
BY AsideKeeps DEF DeletePreset

LEMMA ShutdownEndsKeeps == ASSUME HostInv, ShutdownEnds PROVE HostInv'
BY AsideKeeps DEF ShutdownEnds

LEMMA SendRejectedKeeps == ASSUME HostInv, NEW c \in Calls, SendRejected(c) PROVE HostInv'
<1>1. call' = call
  BY HostInvIs DEF SendRejected, TypeOK
<1> QED BY <1>1, AsideKeeps DEF SendRejected

LEMMA StutterKeeps == ASSUME HostInv, UNCHANGED vars PROVE HostInv'
BY AsideKeeps DEF vars

-----------------------------------------------------------------------------
(* The replacement of a team.                                                *)

\* The team in the registry, which lives, leaves it and is being torn down.
LEMMA StartTeardownKeeps ==
    ASSUME HostInv, NEW g \in Gen, g = teams, teams' = 0, StartTeardown(g),
           UNCHANGED <<built, streams, listening, watching, latched, failure, shown, call>>
    PROVE  /\ GensInv' /\ CallersInv' /\ scene' \in [Gen -> S!SceneSnapshot]
           /\ disposed' \in [Gen -> BOOLEAN] /\ mark' \in [Gen -> Marks]
           /\ scene'[g].life = "disposing" /\ \A h \in Gen \ {g} : scene'[h] = scene[h]
<1>t. TypeOK /\ GensInv /\ CallersInv
  BY HostInvIs
<1>s. scene[g] \in S!SceneSnapshot /\ SceneInv(scene[g]) /\ EntryInv(g) /\ TurnInv(g)
  BY <1>t DEF TypeOK, GensInv
<1>1. PICK o \in S!DisposeResults(scene[g]) : scene' = [scene EXCEPT ![g] = o]
  BY DEF StartTeardown
<1>2. /\ o \in S!SceneSnapshot /\ o.life = "disposing" /\ o.active = scene[g].active
      /\ o.running = scene[g].running /\ (o.aborting <=> scene[g].active # S!Nobody)
  BY <1>1, <1>s, S!DisposeFields
<1>3. /\ scene'[g] = o /\ scene' \in [Gen -> S!SceneSnapshot]
      /\ \A h \in Gen \ {g} : scene'[h] = scene[h]
  BY <1>1, <1>2, <1>t DEF TypeOK
<1>4. /\ disposed' \in [Gen -> BOOLEAN] /\ disposed'[g]
      /\ \A h \in Gen \ {g} : disposed'[h] = disposed[h]
  BY <1>t DEF StartTeardown, TypeOK
<1>5. /\ mark' \in [Gen -> Marks] /\ \A h \in Gen \ {g} : mark'[h] = mark[h]
      /\ scene[g].active # S!Nobody => mark'[g][scene[g].active] = "ABORTED"
      /\ \A r \in Roster : r # scene[g].active => mark'[g][r] = mark[g][r]
  BY MarkType DEF StartTeardown
<1>6. CallersInv'
  BY <1>t, CallersKept
<1>7. GensInv'
  <2>0. 0 \notin Gen
    BY HostAssumption DEF Gen
  <2>1. \A h \in Gen \ {g} : SameEntry(h)
    BY <1>3, <1>4, <1>5, <2>0 DEF SameEntry
  <2>2. SceneInv(scene[g])'
    BY <1>2, <1>3, <1>s DEF SceneInv
  <2>l. scene[g].life = "live" /\ listening[g] /\ ~(g > built)
    BY <1>s DEF EntryInv
  <2>3. EntryInv(g)'
    BY <1>2, <1>3, <1>4, <2>0, <2>l DEF EntryInv
  <2>4. TurnInv(g)'
    BY <1>2, <1>3, <1>4, <1>5, <1>s DEF TurnInv
  <2> QED BY <1>t, <2>1, <2>2, <2>3, <2>4, OneEntry
<1> QED BY <1>2, <1>3, <1>4, <1>5, <1>6, <1>7

LEMMA DeadFields ==
    /\ Dead \in S!SceneSnapshot /\ Dead.life = "disposed" /\ Dead.active = S!Nobody
    /\ ~Dead.aborting /\ ~Dead.running
BY S!NewFields, S!ReleaseFields DEF Dead

\* A team on its way out is released, with its streams or, when that fails,
\* without.
LEMMA ReleaseKeeps ==
    ASSUME HostInv, NEW g \in Gen, Released(g), EndTeardown(g) \/ TeardownFails(g),
           UNCHANGED <<teams, built, disposed, watching, shown>>
    PROVE  /\ GensInv' /\ CallersInv' /\ scene' \in [Gen -> S!SceneSnapshot]
           /\ listening' \in [Gen -> BOOLEAN] /\ streams' \in [Gen -> SUBSET Calls]
           /\ latched' \in [Gen -> SUBSET Roster] /\ failure' \in [Gen -> SUBSET Roster]
           /\ mark' \in [Gen -> Marks]
           /\ call' \in [Calls -> {"gone", "open", "ended", "failed"}]
           /\ scene'[g].life = "disposed" /\ \A h \in Gen \ {g} : scene'[h] = scene[h]
<1>t. TypeOK /\ GensInv /\ CallersInv
  BY HostInvIs
<1>s. SceneInv(scene[g]) /\ EntryInv(g) /\ TurnInv(g)
  BY <1>t DEF GensInv
<1>r. scene[g].life = "disposing" /\ ~scene[g].running /\ latched[g] = {}
  BY RestUnlatched DEF Released
<1>1. scene' = [scene EXCEPT ![g] = Dead]
  BY DEF EndTeardown, TeardownFails
<1>2. /\ scene'[g] = Dead /\ scene' \in [Gen -> S!SceneSnapshot]
      /\ \A h \in Gen \ {g} : scene'[h] = scene[h]
  BY <1>1, <1>t, DeadFields DEF TypeOK
<1>3. /\ listening' \in [Gen -> BOOLEAN] /\ latched' \in [Gen -> SUBSET Roster]
      /\ failure' \in [Gen -> SUBSET Roster] /\ mark' \in [Gen -> Marks]
      /\ latched'[g] = {}
      /\ \A h \in Gen \ {g} : /\ listening'[h] = listening[h] /\ latched'[h] = latched[h]
                              /\ mark'[h] = mark[h]
      /\ \A r \in Roster : mark'[g][r] \in {"none", mark[g][r]}
  <2>1. CASE EndTeardown(g)
    <3>1. /\ listening' = [listening EXCEPT ![g] = FALSE] /\ latched' = [latched EXCEPT ![g] = {}]
          /\ failure' = [failure EXCEPT ![g] = {}]
          /\ mark' = [mark EXCEPT ![g] = [r \in Roster |-> "none"]]
      BY <2>1 DEF EndTeardown
    <3> QED BY <3>1, <1>t DEF TypeOK, Marks
  <2>2. CASE TeardownFails(g)
    BY <2>2, <1>r, <1>t DEF TeardownFails, TypeOK, Marks
  <2> QED BY <2>1, <2>2
<1>4. /\ CallersInv' /\ call' \in [Calls -> {"gone", "open", "ended", "failed"}]
      /\ streams' \in [Gen -> SUBSET Calls]
      /\ \A h \in Gen \ {g} : streams'[h] = streams[h]
  <2>1. CASE EndTeardown(g)
    <3>1. CloseStreams(g, "ended")
      BY <2>1 DEF EndTeardown
    <3> QED BY <1>3, <1>r, <3>1, CloseKeeps
  <2>2. CASE TeardownFails(g)
    <3>1. UNCHANGED <<call, streams, latched>>
      BY <2>2 DEF TeardownFails
    <3>2. CallersInv'
      BY <3>1, <1>t, CallersKept
    <3> QED BY <3>1, <3>2, <1>t DEF TypeOK
  <2> QED BY <2>1, <2>2
<1>5. GensInv'
  <2>1. \A h \in Gen \ {g} : SameEntry(h)
    BY <1>2, <1>3, <1>4 DEF SameEntry
  <2>2. SceneInv(scene[g])'
    BY <1>2, DeadFields DEF SceneInv
  <2>3. EntryInv(g)'
    BY <1>2, <1>r, <1>s, DeadFields DEF EntryInv
  <2>4. TurnInv(g)'
    BY <1>2, <1>3, <1>s, DeadFields DEF TurnInv
  <2> QED BY <1>t, <2>1, <2>2, <2>3, <2>4, OneEntry
<1>6. scene'[g].life = "disposed"
  BY <1>2, DeadFields
<1> QED BY <1>2, <1>3, <1>4, <1>5, <1>6

LEMMA JobTeardownKeeps ==
    ASSUME HostInv, NEW j \in Jobs, JobTeardownEnds(j) \/ JobTeardownFails(j)
    PROVE  HostInv'
<1>t. TypeOK /\ JobInv /\ TornInv /\ ReaderInv /\ DownInv /\ job \in [Jobs -> JobType]
  BY HostInvIs DEF JobInv, JobType
<1>1. job[j].pc = "teardown" /\ torn[j] # 0 /\ torn[j] \in Gen \cup {0}
  BY <1>t DEF JobInv, JobTeardownEnds, JobTeardownFails, JobAt
<1>2. PICK g \in Gen : g = torn[j]
  BY <1>1
<1>3. /\ Released(g) /\ (EndTeardown(g) \/ TeardownFails(g))
      /\ UNCHANGED <<teams, built, disposed, watching, shown, torn, presets, reader, down>>
  BY <1>2 DEF JobTeardownEnds, JobTeardownFails
<1>4. /\ GensInv' /\ CallersInv' /\ scene' \in [Gen -> S!SceneSnapshot]
      /\ listening' \in [Gen -> BOOLEAN] /\ streams' \in [Gen -> SUBSET Calls]
      /\ latched' \in [Gen -> SUBSET Roster] /\ failure' \in [Gen -> SUBSET Roster]
      /\ mark' \in [Gen -> Marks]
      /\ call' \in [Calls -> {"gone", "open", "ended", "failed"}]
      /\ scene'[g].life = "disposed" /\ \A h \in Gen \ {g} : scene'[h] = scene[h]
  BY <1>3, ReleaseKeeps
<1>5. chain # <<>> /\ Head(chain) = j /\ \A k \in Jobs \ {j} : job[k].pc \notin Busy
  BY <1>1, <1>t, OneBusy DEF Busy
<1>6. PICK q \in JobType : /\ job' = [job EXCEPT ![j] = q] /\ chain' \in Seq(Jobs)
                           /\ \/ q.pc = "building" /\ chain' = chain
                              \/ q.pc = "failed"
  <2>1. CASE JobTeardownEnds(j)
    <3> DEFINE x == [job[j] EXCEPT !.pc = "building"]
    <3>1. x \in JobType /\ x.pc = "building"
      BY <1>t DEF JobType, Busy
    <3>2. job' = [job EXCEPT ![j] = x] /\ chain' = chain
      BY <2>1 DEF JobTeardownEnds, Go
    <3> HIDE DEF x
    <3> QED BY <1>t, <3>1, <3>2 DEF TypeOK
  <2>2. CASE JobTeardownFails(j)
    <3> DEFINE x == [pc |-> "failed", req |-> AnyRequest]
    <3>1. x \in JobType /\ x.pc = "failed"
      BY FinishType
    <3>2. job' = [job EXCEPT ![j] = x] /\ chain' = Tail(chain)
      BY <2>2 DEF JobTeardownFails, Finish
    <3>3. chain' \in Seq(Jobs)
      BY <1>t, <1>5, <3>2, TailType DEF TypeOK
    <3> HIDE DEF x
    <3> QED BY <3>1, <3>2, <3>3
  <2> QED BY <2>1, <2>2
<1>7. job' \in [Jobs -> JobType] /\ job'[j] = q /\ \A k \in Jobs \ {j} : job'[k] = job[k]
  BY <1>6, <1>t
<1>8. JobInv'
  <2>1. ASSUME NEW k \in Jobs
        PROVE  /\ job'[k].pc \in Busy => chain' # <<>> /\ Head(chain') = k
               /\ job'[k].pc \in {"teardown", "building"} => teams' = 0
               /\ job'[k].pc = "teardown" => torn'[k] # 0 /\ scene'[torn'[k]].life = "disposing"
               /\ torn'[k] # 0 => job'[k].pc \in {"teardown", "building", "done", "failed"}
    <3>1. CASE k = j
      BY <1>1, <1>3, <1>5, <1>6, <1>7, <1>t, <3>1 DEF JobInv, Busy
    <3>2. CASE k # j
      BY <1>3, <1>5, <1>7, <1>t, <3>2 DEF JobInv, Busy
    <3> QED BY <3>1, <3>2
  <2>2. torn' \in [Jobs -> Gen \cup {0}]
    BY <1>3, <1>t DEF JobInv
  <2> QED BY <1>7, <2>1, <2>2 DEF JobInv, JobType
<1>9. TornInv'
  <2> SUFFICES ASSUME NEW h \in Gen, scene'[h].life = "disposing", down = "up" PROVE FALSE
    BY <1>3 DEF TornInv
  <2>1. h # g /\ scene[h].life = "disposing"
    BY <1>4
  <2>2. PICK k \in Jobs : job[k].pc = "teardown" /\ torn[k] = h
    BY <1>t, <2>1 DEF TornInv
  <2> QED BY <1>2, <1>5, <2>1, <2>2 DEF Busy
<1>10. TypeOK'
  <2>1. \A k \in Jobs : job'[k].pc \in {"new", "queued", "presets", "models", "teardown",
                                     "building", "done", "rejected", "failed"}
    BY <1>7 DEF JobType, Busy
  <2> QED BY <2>1, <1>3, <1>4, <1>6, <1>t DEF TypeOK, Marks
<1>11. ReaderInv' /\ DownInv'
  BY <1>3, <1>t DEF ReaderInv, DownInv
<1> QED BY <1>4, <1>8, <1>9, <1>10, <1>11, HostInvNow

LEMMA CheckModelsKeeps == ASSUME HostInv, NEW j \in Jobs, CheckModels(j) PROVE HostInv'
<1>t. TypeOK /\ JobInv /\ TornInv /\ ReaderInv /\ DownInv /\ job \in [Jobs -> JobType]
  BY HostInvIs DEF JobInv, JobType
<1>1. job[j].pc = "models" /\ job[j].pc \in Busy
  BY DEF CheckModels, JobAt, Busy
<1>2. torn[j] = 0 /\ MayRun(j) /\ \A k \in Jobs \ {j} : job[k].pc \notin Busy
  BY <1>1, <1>t, OneBusy DEF JobInv, MayRun
<1>u. UNCHANGED <<built, streams, listening, watching, latched, failure, shown, faults, jobFrame>>
  BY DEF CheckModels
<1>3. CASE ~(\A r \in Roster : ValidModel(job[j].req, r))
  <2>1. Finish(j, "rejected") /\ UNCHANGED <<teams, torn, disposed, mark, scene>>
    BY <1>3 DEF CheckModels
  <2> QED BY <1>1, <1>2, <1>u, <2>1, FinishKeeps DEF entryVars, turnVars
<1>4. CASE (\A r \in Roster : ValidModel(job[j].req, r)) /\ teams = 0
  <2>1. Go(j, "building") /\ chain' = chain /\ UNCHANGED <<teams, torn, disposed, mark, scene>>
    BY <1>4 DEF CheckModels
  <2>2. "building" \in Busy \ {"teardown"}
    BY DEF Busy
  <2> QED BY <1>1, <1>2, <1>4, <1>u, <2>1, <2>2, GoKeeps DEF entryVars, turnVars
<1>5. CASE (\A r \in Roster : ValidModel(job[j].req, r)) /\ teams # 0
  <2>1. PICK g \in Gen : g = teams
    BY <1>5, <1>t DEF TypeOK
  <2>2. /\ teams' = 0 /\ torn' = [torn EXCEPT ![j] = g] /\ StartTeardown(g) /\ Go(j, "teardown")
        /\ chain' = chain
    BY <1>5, <2>1 DEF CheckModels
  <2>c. call' = call /\ UNCHANGED <<presets, reader, down>>
    BY <1>u DEF jobFrame
  <2>3. /\ GensInv' /\ CallersInv' /\ scene' \in [Gen -> S!SceneSnapshot]
        /\ disposed' \in [Gen -> BOOLEAN] /\ mark' \in [Gen -> Marks]
        /\ scene'[g].life = "disposing" /\ \A h \in Gen \ {g} : scene'[h] = scene[h]
    BY <1>u, <2>1, <2>2, <2>c, StartTeardownKeeps
  <2>4. 0 \notin Gen
    BY HostAssumption DEF Gen
  <2>5. torn' \in [Jobs -> Gen \cup {0}] /\ torn'[j] = g /\ \A k \in Jobs \ {j} : torn'[k] = torn[k]
    BY <2>2, <1>t DEF JobInv
  <2>6. /\ job' \in [Jobs -> JobType] /\ job'[j].pc = "teardown"
        /\ \A k \in Jobs \ {j} : job'[k] = job[k]
    <3> DEFINE x == [job[j] EXCEPT !.pc = "teardown"]
    <3>1. x \in JobType /\ x.pc = "teardown"
      BY <1>t DEF JobType, Busy
    <3>2. job' = [job EXCEPT ![j] = x]
      BY <2>2 DEF Go
    <3> HIDE DEF x
    <3> QED BY <1>t, <3>1, <3>2
  <2>7. JobInv'
    <3>1. ASSUME NEW k \in Jobs
          PROVE  /\ job'[k].pc \in Busy => chain' # <<>> /\ Head(chain') = k
                 /\ job'[k].pc \in {"teardown", "building"} => teams' = 0
                 /\ job'[k].pc = "teardown" => torn'[k] # 0 /\ scene'[torn'[k]].life = "disposing"
                 /\ torn'[k] # 0 => job'[k].pc \in {"teardown", "building", "done", "failed"}
      <4>1. CASE k = j
        BY <1>2, <2>2, <2>3, <2>4, <2>5, <2>6, <4>1 DEF MayRun
      <4>2. CASE k # j
        BY <1>2, <2>2, <2>5, <2>6, <1>t, <4>2 DEF JobInv, Busy
      <4> QED BY <4>1, <4>2
    <3> QED BY <2>5, <2>6, <3>1 DEF JobInv, JobType
  <2>8. TornInv'
    <3> SUFFICES ASSUME NEW h \in Gen, scene'[h].life = "disposing", down = "up"
                 PROVE  \E k \in Jobs : job'[k].pc = "teardown" /\ torn'[k] = h
      BY <2>c DEF TornInv
    <3>1. CASE h = g
      BY <2>5, <2>6, <3>1
    <3>2. CASE h # g
      <4>1. PICK k \in Jobs : job[k].pc = "teardown" /\ torn[k] = h
        BY <2>3, <3>2, <1>t DEF TornInv
      <4> QED BY <1>1, <2>5, <2>6, <4>1
    <3> QED BY <3>1, <3>2
  <2>9. TypeOK'
    <3>1. \A k \in Jobs : job'[k].pc \in {"new", "queued", "presets", "models", "teardown",
                                     "building", "done", "rejected", "failed"}
      BY <2>6 DEF JobType, Busy
    <3> QED BY <1>u, <2>2, <2>3, <2>c, <3>1, <1>t DEF TypeOK, Marks
  <2>10. ReaderInv' /\ DownInv'
    BY <2>c, <1>t DEF ReaderInv, DownInv
  <2> QED BY <2>3, <2>7, <2>8, <2>9, <2>10, HostInvNow
<1> QED BY <1>3, <1>4, <1>5

LEMMA BuildFailsKeeps == ASSUME HostInv, NEW j \in Jobs, BuildFails(j) PROVE HostInv'
<1>1. job[j].pc = "building" /\ MayRun(j)
  BY HostInvIs, OneBusy DEF BuildFails, JobAt, Busy, MayRun
<1> QED BY <1>1, FinishKeeps DEF BuildFails

LEMMA BuildKeeps == ASSUME HostInv, NEW j \in Jobs, Build(j) PROVE HostInv'
<1>t. TypeOK /\ GensInv /\ CallersInv /\ JobInv /\ TornInv /\ ReaderInv /\ DownInv
      /\ job \in [Jobs -> JobType]
  BY HostInvIs DEF JobInv, JobType
<1>1. job[j].pc = "building" /\ job[j].pc \in Busy /\ teams = 0
  BY <1>t DEF Build, JobAt, JobInv, Busy
<1>2. MayRun(j) /\ chain # <<>> /\ \A k \in Jobs \ {j} : job[k].pc \notin Busy
  BY <1>1, <1>t, OneBusy DEF MayRun
<1>3. PICK g \in Gen : g = built + 1
  BY DEF Build
<1>4. /\ built' = g /\ teams' = g /\ Finish(j, "done")
      /\ scene' = [scene EXCEPT ![g] = S!MaterializeResult(@)]
      /\ listening' = [listening EXCEPT ![g] = TRUE]
      /\ UNCHANGED <<disposed, streams, watching, turnVars, torn, faults, jobFrame>>
  BY <1>3 DEF Build
<1>5. /\ built \in Nat /\ 0 \notin Gen /\ \A h \in Gen : h \in Nat
  BY <1>t, HostAssumption DEF TypeOK, Gen
<1>s. SceneInv(scene[g]) /\ EntryInv(g) /\ TurnInv(g) /\ scene[g] \in S!SceneSnapshot
  BY <1>t DEF GensInv, TypeOK
<1>6. g > built /\ scene[g].life = "none" /\ ~scene[g].running
  BY <1>3, <1>5, <1>s DEF EntryInv, SceneInv
<1> DEFINE o == S!MaterializeResult(scene[g])
<1>7. /\ o \in S!SceneSnapshot /\ o.life = "live" /\ o.active = scene[g].active
      /\ o.aborting = scene[g].aborting /\ o.running = scene[g].running
  BY <1>s DEF S!MaterializeResult, S!SceneSnapshot
<1>8. scene' = [scene EXCEPT ![g] = o]
  BY <1>4
<1> HIDE DEF o
<1>9. /\ scene'[g] = o /\ scene' \in [Gen -> S!SceneSnapshot]
      /\ \A h \in Gen \ {g} : scene'[h] = scene[h]
  BY <1>7, <1>8, <1>t DEF TypeOK
<1>10. /\ listening'[g] /\ listening' \in [Gen -> BOOLEAN]
       /\ \A h \in Gen \ {g} : listening'[h] = listening[h]
  BY <1>4, <1>t DEF TypeOK
<1>11. GensInv'
  <2>1. \A h \in Gen \ {g} : SameEntry(h)
    <3> TAKE h \in Gen \ {g}
    <3>1. h = teams' <=> h = teams
      BY <1>1, <1>4, <1>5
    <3>2. \A b \in Nat, k \in Nat : k # b + 1 => (k > b + 1 <=> k > b)
      OBVIOUS
    <3>3. h \in Nat /\ h # built + 1 /\ built' = built + 1
      BY <1>3, <1>4, <1>5
    <3>4. h > built' <=> h > built
      BY <1>5, <3>2, <3>3
    <3> QED BY <3>1, <3>4, <1>4, <1>9, <1>10 DEF SameEntry, turnVars
  <2>2. SceneInv(scene[g])'
    BY <1>6, <1>7, <1>9, <1>s DEF SceneInv
  <2>3. EntryInv(g)'
    <3>1. ~disposed[g] /\ streams[g] = {} /\ ~(g > g)
      BY <1>5, <1>6, <1>s DEF EntryInv
    <3> QED BY <3>1, <1>4, <1>7, <1>9, <1>10 DEF EntryInv
  <2>4. TurnInv(g)'
    BY <1>4, <1>7, <1>9, <1>s DEF TurnInv, turnVars
  <2> QED BY <1>t, <2>1, <2>2, <2>3, <2>4, OneEntry
<1>12. CallersInv'
  BY <1>4, <1>t, CallersKept DEF turnVars, jobFrame
<1> DEFINE x == [pc |-> "done", req |-> AnyRequest]
<1>13. x \in JobType /\ x.pc = "done"
  BY FinishType
<1>14. job' = [job EXCEPT ![j] = x] /\ chain' = Tail(chain)
  BY <1>4 DEF Finish
<1> HIDE DEF x
<1>15. /\ job' \in [Jobs -> JobType] /\ job'[j].pc = "done" /\ \A k \in Jobs \ {j} : job'[k] = job[k]
       /\ chain' \in Seq(Jobs)
  BY <1>2, <1>13, <1>14, <1>t, TailType DEF TypeOK
<1>16. JobInv'
  <2>1. ASSUME NEW k \in Jobs
        PROVE  /\ job'[k].pc \notin Busy
               /\ torn'[k] # 0 => job'[k].pc \in {"teardown", "building", "done", "failed"}
    <3>1. CASE k = j
      BY <1>15, <3>1 DEF Busy
    <3>2. CASE k # j
      BY <1>2, <1>4, <1>15, <1>t, <3>2 DEF JobInv
    <3> QED BY <3>1, <3>2
  <2>2. torn' \in [Jobs -> Gen \cup {0}]
    BY <1>4, <1>t DEF JobInv
  <2> QED BY <1>15, <2>1, <2>2 DEF JobInv, JobType, Busy
<1>17. TornInv'
  <2> SUFFICES ASSUME NEW h \in Gen, scene'[h].life = "disposing", down = "up" PROVE FALSE
    BY <1>4 DEF TornInv, jobFrame
  <2>1. scene[h].life = "disposing"
    BY <1>7, <1>9
  <2>2. PICK k \in Jobs : job[k].pc = "teardown"
    BY <1>t, <2>1 DEF TornInv
  <2> QED BY <1>1, <1>2, <2>2 DEF Busy
<1>18. TypeOK'
  <2>1. \A k \in Jobs : job'[k].pc \in {"new", "queued", "presets", "models", "teardown",
                                     "building", "done", "rejected", "failed"}
    BY <1>15 DEF JobType, Busy
  <2>2. reader' \in [pc : {"idle", "reading"}, gen : 0..built', attempt : 0..(MEMBER_READ_ATTEMPTS - 1)]
    <3> DEFINE A == 0..(MEMBER_READ_ATTEMPTS - 1)
    <3>1. reader' \in [pc : {"idle", "reading"}, gen : 0..built, attempt : A]
      BY <1>4, <1>t DEF TypeOK, jobFrame
    <3>2. 0..built \subseteq 0..built'
      BY <1>3, <1>4, <1>5
    <3> HIDE DEF A
    <3>3. reader' \in [pc : {"idle", "reading"}, gen : 0..built', attempt : A]
      BY <3>1, <3>2
    <3> QED BY <3>3 DEF A
  <2> QED BY <1>4, <1>9, <1>10, <1>15, <2>1, <2>2, <1>t DEF TypeOK, turnVars, jobFrame
<1>19. ReaderInv' /\ DownInv'
  BY <1>4, <1>t DEF ReaderInv, DownInv, jobFrame
<1> QED BY <1>11, <1>12, <1>16, <1>17, <1>18, <1>19, HostInvNow

-----------------------------------------------------------------------------
(* Shutdown.                                                                 *)

LEMMA ShutdownKeeps == ASSUME HostInv, Shutdown PROVE HostInv'
<1>t. TypeOK /\ GensInv /\ JobInv /\ ReaderInv /\ CallersInv
  BY HostInvIs
<1>u. UNCHANGED <<built, streams, listening, watching, latched, failure, shown,
                   jobVars, presets, call, reader, faults>>
  BY DEF Shutdown
<1>1. down' = "tearing" /\ teams' = 0
  BY DEF Shutdown
<1>2. /\ GensInv' /\ CallersInv' /\ scene' \in [Gen -> S!SceneSnapshot]
      /\ disposed' \in [Gen -> BOOLEAN] /\ mark' \in [Gen -> Marks]
      /\ \A h \in Gen : scene[h].life = "disposing" => scene'[h].life = "disposing"
  <2>1. CASE teams = 0
    <3>1. UNCHANGED <<disposed, mark, scene, teams>>
      BY <1>1, <2>1 DEF Shutdown
    <3>2. GensInv' /\ CallersInv'
      BY <1>u, <3>1, QuietEntries DEF entries, callers, entryVars
    <3> QED BY <3>1, <3>2, <1>t DEF TypeOK, Marks
  <2>2. CASE teams # 0
    <3>1. PICK g \in Gen : g = teams
      BY <2>2, <1>t DEF TypeOK
    <3>2. StartTeardown(g)
      BY <2>2, <3>1 DEF Shutdown
    <3> QED BY <1>1, <1>u, <3>1, <3>2, StartTeardownKeeps
  <2> QED BY <2>1, <2>2
<1>3. TypeOK'
  BY <1>1, <1>2, <1>u, <1>t DEF TypeOK, Marks, jobVars
<1>4. JobInv'
  <2>1. ASSUME NEW j \in Jobs, job[j].pc = "teardown"
        PROVE  torn[j] # 0 /\ scene'[torn[j]].life = "disposing"
    BY <1>2, <1>t, <2>1 DEF JobInv
  <2> QED BY <1>1, <1>u, <1>t, <2>1 DEF JobInv, jobVars
<1>5. TornInv' /\ ReaderInv' /\ DownInv'
  BY <1>1, <1>u, <1>t DEF TornInv, ReaderInv, DownInv
<1> QED BY <1>2, <1>3, <1>4, <1>5, HostInvNow

LEMMA ShutdownTeardownKeeps ==
    ASSUME HostInv, NEW g \in Gen, ShutdownTeardownEnds(g)
    PROVE  HostInv'
<1>t. TypeOK /\ JobInv /\ ReaderInv /\ DownInv
  BY HostInvIs
<1>1. /\ Released(g) /\ (EndTeardown(g) \/ TeardownFails(g)) /\ down = "tearing"
      /\ \A j \in Jobs : torn[j] # g
      /\ UNCHANGED <<teams, built, disposed, watching, shown, jobVars, presets, reader, down>>
  BY DEF ShutdownTeardownEnds, ShutdownGen
<1>2. /\ GensInv' /\ CallersInv' /\ scene' \in [Gen -> S!SceneSnapshot]
      /\ listening' \in [Gen -> BOOLEAN] /\ streams' \in [Gen -> SUBSET Calls]
      /\ latched' \in [Gen -> SUBSET Roster] /\ failure' \in [Gen -> SUBSET Roster]
      /\ mark' \in [Gen -> Marks]
      /\ call' \in [Calls -> {"gone", "open", "ended", "failed"}]
      /\ \A h \in Gen \ {g} : scene'[h] = scene[h]
  BY <1>1, ReleaseKeeps
<1>3. TypeOK'
  BY <1>1, <1>2, <1>t DEF TypeOK, Marks, jobVars
<1>4. JobInv'
  <2>1. ASSUME NEW j \in Jobs, job[j].pc = "teardown"
        PROVE  torn[j] # 0 /\ scene'[torn[j]].life = "disposing"
    <3>1. torn[j] # 0 /\ torn[j] \in Gen /\ scene[torn[j]].life = "disposing"
      BY <1>t, <2>1 DEF JobInv
    <3> QED BY <1>1, <1>2, <3>1
  <2> QED BY <1>1, <1>t, <2>1 DEF JobInv, jobVars
<1>5. TornInv' /\ ReaderInv' /\ DownInv'
  BY <1>1, <1>t DEF TornInv, ReaderInv, DownInv
<1> QED BY <1>2, <1>3, <1>4, <1>5, HostInvNow

-----------------------------------------------------------------------------
(* The theorems.                                                             *)

LEMMA HostInvNext == HostInv /\ [Next]_vars => HostInv'
<1> SUFFICES ASSUME HostInv, [Next]_vars PROVE HostInv'
  OBVIOUS
<1>1. ASSUME NEW c \in Calls, SendRejected(c) \/ Send(c) \/ Disconnect(c) PROVE HostInv'
  BY <1>1, SendRejectedKeeps, SendKeeps, DisconnectKeeps
<1>2. CASE Cancel \/ GetTeamMember \/ ReadServed \/ ReadFails \/ ReadStale
  BY <1>2, CancelKeeps, ReadKeeps
<1>3. ASSUME NEW g \in Gen,
             \/ WatchSettles(g) \/ TurnStarts(g) \/ TurnFails(g) \/ TurnEnds(g)
             \/ Continues(g) \/ Rests(g) \/ ShutdownTeardownEnds(g)
      PROVE  HostInv'
  BY <1>3, WatchSettlesKeeps, TurnStartsKeeps, TurnFailsKeeps, TurnEndsKeeps, ContinuesKeeps,
     RestsKeeps, ShutdownTeardownKeeps
<1>4. ASSUME NEW j \in Jobs, NEW q \in Requests, UpdateTeam(j, q) PROVE HostInv'
  BY <1>4, UpdateTeamKeeps
<1>5. ASSUME NEW j \in Jobs,
             \/ CheckRoster(j) \/ CheckPresets(j) \/ CheckModels(j)
             \/ JobTeardownEnds(j) \/ JobTeardownFails(j) \/ Build(j) \/ BuildFails(j)
      PROVE  HostInv'
  BY <1>5, CheckKeeps, CheckModelsKeeps, JobTeardownKeeps, BuildKeeps, BuildFailsKeeps
<1>6. ASSUME NEW p \in DOMAIN PresetRole, DeletePreset(p) PROVE HostInv'
  BY <1>6, DeletePresetKeeps
<1>7. CASE Shutdown \/ ShutdownEnds
  BY <1>7, ShutdownKeeps, ShutdownEndsKeeps
<1>8. CASE UNCHANGED vars
  BY <1>8, StutterKeeps
<1> QED BY <1>1, <1>2, <1>3, <1>4, <1>5, <1>6, <1>7, <1>8 DEF Next

\* The inductive invariant of the host.
THEOREM HostInvHolds == FairSpec => []HostInv
BY HostInvInit, HostInvNext, PTL DEF FairSpec

LEMMA AtMostOneTeam == ASSUME HostInv PROVE OneTeam
<1> SUFFICES ASSUME down = "up"
             PROVE  Cardinality({g \in Gen : scene[g].life \in {"live", "disposing"}}) <= 1
  BY DEF OneTeam
<1> DEFINE T == {g \in Gen : scene[g].life \in {"live", "disposing"}}
<1>t. GensInv /\ JobInv /\ TornInv
  BY HostInvIs
<1>0. 0 \notin Gen
  BY HostAssumption DEF Gen
<1>1. ASSUME NEW g \in Gen, scene[g].life = "live" PROVE g = teams
  BY <1>1, <1>t DEF GensInv, EntryInv
<1>2. ASSUME NEW g \in Gen, scene[g].life = "disposing"
      PROVE  teams = 0 /\ \E j \in Jobs : /\ job[j].pc = "teardown" /\ torn[j] = g
                                          /\ chain # <<>> /\ Head(chain) = j
  <2>1. PICK j \in Jobs : job[j].pc = "teardown" /\ torn[j] = g
    BY <1>2, <1>t DEF TornInv
  <2> QED BY <1>t, <2>1 DEF JobInv, Busy
<1>3. ASSUME NEW g \in T, NEW h \in T PROVE g = h
  <2>1. CASE scene[g].life = "live" /\ scene[h].life = "live"
    BY <1>1, <2>1
  <2>2. CASE scene[g].life = "disposing" /\ scene[h].life = "disposing"
    BY <1>2, <2>2
  <2>3. CASE scene[g].life # scene[h].life
    <3>1. teams = 0 /\ teams \in Gen
      BY <1>1, <1>2, <2>3
    <3> QED BY <1>0, <3>1
  <2> QED BY <2>1, <2>2, <2>3
<1> HIDE DEF T
<1>4. CASE T = {}
  BY <1>4, FS_EmptySet DEF T
<1>5. CASE T # {}
  <2>1. PICK g \in T : TRUE
    BY <1>5
  <2>2. T = {g}
    BY <1>3, <2>1
  <2>3. Cardinality(T) = 1
    BY <2>2, FS_Singleton
  <2> QED BY <2>3 DEF T
<1> QED BY <1>4, <1>5

\* The registry tells the truth, for every roster and however updates, deletions,
\* failures and the shutdown interleave: while the service is up a session has at
\* most one set of member agents, the entry doMaterialize registered is live, and
\* a refused update has torn nothing down.
THEOREM RegistryIsTrue == FairSpec => []RegistryTrue
<1>1. HostInv => RegistryTrue
  <2> SUFFICES ASSUME HostInv PROVE RegistryTrue
    OBVIOUS
  <2>t. TypeOK /\ GensInv /\ JobInv
    BY HostInvIs
  <2>1. VisibleIsLive
    <3> SUFFICES ASSUME teams # 0
                 PROVE  scene[teams].life = "live" /\ ~disposed[teams] /\ listening[teams]
      BY DEF VisibleIsLive
    <3>1. teams \in Gen /\ EntryInv(teams)
      BY <2>t DEF TypeOK, GensInv
    <3> QED BY <3>1 DEF EntryInv
  <2>2. RefusedKeepsTeam
    BY <2>t DEF JobInv, RefusedKeepsTeam
  <2> QED BY <2>t, <2>1, <2>2, AtMostOneTeam DEF RegistryTrue
<1> QED BY <1>1, HostInvHolds, PTL

\* The frame of a turn that ends is labelled with what became of the turn.
LEMMA LabelTrue ==
    ASSUME HostInv, NEW g \in Gen, NEW r \in Roster, scene[g].active = r
    PROVE  /\ Label(g, r) = "COMPLETED" => Truth(g, r) = "completed"
           /\ Label(g, r) = "ERROR" => Truth(g, r) = "failed"
           /\ Label(g, r) = "ABORTED" => Truth(g, r) = "aborted"
<1>t. SceneInv(scene[g]) /\ EntryInv(g) /\ TurnInv(g) /\ TypeOK
  BY HostInvIs DEF GensInv
<1>1. r # S!Nobody /\ scene[g].running
  BY <1>t, HostAssumption DEF SceneInv, S!Nobody
<1>2. mark[g][r] \in {"none", "CANCELED", "ABORTED"}
  BY <1>t DEF TypeOK
<1>3. scene[g].aborting => mark[g][r] # "none"
  BY <1>t DEF TurnInv
<1>4. mark[g][r] = "ABORTED" => scene[g].aborting
  BY <1>t, <1>1 DEF TurnInv, EntryInv, SceneInv
<1> QED BY <1>2, <1>3, <1>4 DEF Label, Truth, S!OutcomeOf

\* What clients are told is true, for every roster, any number of callers and
\* generations: a stream closes only when every turn it showed has ended on it, a
\* turn_end says how the turn ended, and a member's prompt is that of a live team.
THEOREM ClientsAreToldTrue == FairSpec => ClientsToldTrue
<1>1. HostInv => NoDanglingTurn
  BY HostInvIs DEF CallersInv, CallerInv, NoDanglingTurn
<1>2. HostInv => \A g \in Gen, r \in Roster : EndFrame(g, r) =>
          /\ Label(g, r) = "COMPLETED" => Truth(g, r) = "completed"
          /\ Label(g, r) = "ERROR" => Truth(g, r) = "failed"
          /\ Label(g, r) = "ABORTED" => Truth(g, r) = "aborted"
  BY LabelTrue DEF EndFrame
<1>3. HostInv => (ReadServed => scene[reader.gen].life = "live" /\ teams = reader.gen)
  <2> SUFFICES ASSUME HostInv, ReadServed
               PROVE  scene[reader.gen].life = "live" /\ teams = reader.gen
    OBVIOUS
  <2>1. reader.gen # 0 /\ liveEntry = reader.gen
    BY HostInvIs DEF ReaderInv, ReadServed
  <2> QED BY <2>1, LiveEntry
<1>4. FairSpec => []NoDanglingTurn
  BY <1>1, HostInvHolds, PTL
<1>5. FairSpec => EndFrameTrue
  BY <1>2, HostInvHolds, PTL DEF EndFrameTrue
<1>6. FairSpec => ServesLivePrompt
  BY <1>3, HostInvHolds, PTL DEF ServesLivePrompt
<1> QED BY <1>4, <1>5, <1>6 DEF ClientsToldTrue

\* No open stream is forgotten: the watcher of its entry is armed, or the teardown
\* of its team has begun.
THEOREM StreamsHaveEnder == FairSpec => []StreamHasEnder
<1>1. HostInv => StreamHasEnder
  BY HostInvIs DEF GensInv, EntryInv, StreamHasEnder
<1> QED BY <1>1, HostInvHolds, PTL
=============================================================================
