----------------------------- MODULE TeamHost -----------------------------
(***************************************************************************)
(* The team registry of the agent service for one session (session.ts) with *)
(* the RPC handlers in front of it (server.ts) and the turn bookkeeping of   *)
(* the member collectors (history.ts), over an orchestration of which only   *)
(* the contract is known (SceneOrchestration).                               *)
(*                                                                          *)
(* Every handler runs to its end before the next one, and what a promise     *)
(* resolution starts runs before the next handler: Calm says that none of    *)
(* this is outstanding.  Generations are the entries doMaterialize builds    *)
(* one after the other.                                                      *)
(***************************************************************************)
EXTENDS Naturals, Sequences, FiniteSets, SequencesExt

CONSTANTS
    Roster,             \* scene.roster: the roles with an agent
    WiredTemplates,     \* templates whose scene is orchestratable
    PresetRole,         \* preset id -> the role it carries
    Models,             \* the provider's catalog
    Requests,           \* UpdateTeam requests, see RequestShape
    MaxUpdates,         \* bound: UpdateTeam calls, numbered as they arrive
    Calls,              \* Send callers, each calls again after a disconnect
    MEMBER_READ_ATTEMPTS,
    Deletable,          \* bound: presets that may be deleted
    MaxGenerations,     \* bound: entries built
    MaxFaults           \* bound: failures of building and releasing members

ASSUME HostAssumption ==
    /\ "nobody" \notin Roster
    /\ MEMBER_READ_ATTEMPTS \in Nat \ {0}
    /\ MaxGenerations \in Nat \ {0} /\ MaxFaults \in Nat /\ MaxUpdates \in Nat

VARIABLES
    teams,      \* the generation in the registry, 0 for none
    built,      \* generations built so far
    scene,      \* scene[g]: the orchestration's snapshot
    disposed,   \* disposed[g]: entry.disposed
    streams,    \* streams[g]: the calls in entry.streams
    listening,  \* listening[g]: streamOff has not been called
    watching,   \* watching[g]: quiescenceWatch is set
    latched,    \* latched[g]: roles whose collector has an active turn
    failure,    \* failure[g]: roles whose active turn recorded a failure
    mark,       \* mark[g][r]: pendingOutcome, "none" for undefined
    chain,      \* materializations: the jobs of the session, in order
    job,        \* job[j]: [pc, req], the materialization of an UpdateTeam
    presets,    \* presets in the store
    call,       \* call[c]: "gone", "open", "ended", "failed"
    shown,      \* shown[c]: roles whose turn the stream saw start and not end
    reader,     \* GetTeamMember: [pc, gen, attempt]
    down,       \* "up", "tearing" or "down"
    faults,
    torn        \* history: torn[j], the generation job j tore down

entryVars == <<disposed, streams, listening, watching>>
turnVars  == <<latched, failure, mark, shown>>
jobVars   == <<chain, job, torn>>
vars == <<teams, built, scene, entryVars, turnVars, jobVars, presets, call, reader, down, faults>>

S == INSTANCE SceneOrchestration WITH Roles <- Roster

Gen == 1..MaxGenerations
Jobs == 1..MaxUpdates
RequestShape(q) ==      \* one member of Requests
    /\ DOMAIN q = {"template", "members", "masked", "mask"}
    /\ \A i \in DOMAIN q.members : DOMAIN q.members[i] = {"role", "template", "preset", "model"}

-----------------------------------------------------------------------------
(* Validation of an UpdateTeam request.                                      *)

\* wiredScene: the scene gate, before any other check.
WiredScene(q) == q.template \in WiredTemplates

\* validateMemberStructure, also done by the RPC handler.
ValidStructure(q) ==
    /\ q.members # <<>>
    /\ \A i \in DOMAIN q.members :
          q.members[i].role # "" /\ q.members[i].template = q.template

\* An explicit mask may only name members.
ValidMask(q) == q.masked => q.mask = {"members"}

\* validateSceneRoster: the scene's member count, and every role of it.
ValidRoster(q) ==
    /\ Len(q.members) = Cardinality(Roster)
    /\ \A r \in Roster : \E i \in DOMAIN q.members : q.members[i].role = r

\* memberFor: the first member with the role.
MemberFor(q, r) ==
    q.members[CHOOSE i \in DOMAIN q.members :
        q.members[i].role = r /\ \A k \in 1..(i - 1) : q.members[k].role # r]

\* validateMemberPreset: the preset exists and carries the member's role.
ValidPreset(q, r) ==
    LET p == MemberFor(q, r).preset
    IN  p \in presets /\ PresetRole[p] = r

\* validateModel: an empty selector is the deployment default.
ValidModel(q, r) == MemberFor(q, r).model \in Models \cup {""}

-----------------------------------------------------------------------------
AnyRequest == CHOOSE q \in Requests : TRUE

\* GetTeamMember: not called, or answered.
NoRead == [pc |-> "idle", gen |-> 0, attempt |-> 0]

Init ==
    /\ teams = 0 /\ built = 0
    /\ scene = [g \in Gen |-> S!NewScene]
    /\ disposed = [g \in Gen |-> FALSE] /\ streams = [g \in Gen |-> {}]
    /\ listening = [g \in Gen |-> FALSE] /\ watching = [g \in Gen |-> FALSE]
    /\ latched = [g \in Gen |-> {}] /\ failure = [g \in Gen |-> {}]
    /\ mark = [g \in Gen |-> [r \in Roster |-> "none"]]
    /\ chain = <<>> /\ job = [j \in Jobs |-> [pc |-> "new", req |-> AnyRequest]]
    /\ presets = DOMAIN PresetRole
    /\ call = [c \in Calls |-> "gone"] /\ shown = [c \in Calls |-> {}]
    /\ reader = NoRead
    /\ down = "up" /\ faults = 0
    /\ torn = [j \in Jobs |-> 0]

\* The watcher of g resumes as soon as the orchestration is quiescent.
WatchDue(g) == watching[g] /\ ~scene[g].running

\* No promise reaction is outstanding.
Calm ==
    \A g \in Gen :
       /\ scene[g].running => scene[g].active # S!Nobody
       /\ ~WatchDue(g)

\* agentMemberInFlight
InFlight(g) == scene[g].active

\* Of lastError the host asks only whether the orchestration itself failed.
Seen(o) == [o EXCEPT !.error = IF @ = "member-turn" THEN "none" ELSE @]

\* markOutcome
Mark(g, status) ==
    mark' = IF InFlight(g) = S!Nobody THEN mark
            ELSE [mark EXCEPT ![g][InFlight(g)] = status]

\* The sink of generation g: a frame reaches every stream of the entry.
Turns(g, roles) ==
    shown' = [c \in Calls |-> IF c \in streams[g] THEN roles[c] ELSE shown[c]]

\* liveEntry, requireEntry
liveEntry == IF teams # 0 /\ ~disposed[teams] THEN teams ELSE 0

-----------------------------------------------------------------------------
(* Send, Cancel and the end of streams.                                      *)

\* watchQuiescence: armed once per entry, not on a disposed one; at rest and
\* without a stream it would resume at once and do nothing.
Watch(g) ==
    watching' = [watching EXCEPT
                    ![g] = @ \/ (~disposed[g] /\ (scene'[g].running \/ streams'[g] # {}))]

\* Send without a team: the call is rejected before its stream opens.
SendRejected(c) ==
    /\ Calm /\ call[c] = "gone" /\ liveEntry = 0
    /\ call' = [call EXCEPT ![c] = "gone"]
    /\ UNCHANGED <<teams, built, scene, entryVars, turnVars, jobVars, presets, reader, down, faults>>

\* Send: attach the stream, submit the text, arm the watcher.
Send(c) ==
    LET g == liveEntry
    IN  /\ Calm /\ call[c] = "gone" /\ g # 0
        /\ call' = [call EXCEPT ![c] = "open"] /\ shown' = [shown EXCEPT ![c] = {}]
        /\ streams' = [streams EXCEPT ![g] = @ \cup {c}]
        /\ \E o \in S!SubmitResults(scene[g]) : scene' = [scene EXCEPT ![g] = o]
        /\ Watch(g)
        /\ UNCHANGED <<teams, built, disposed, listening, latched, failure, mark, jobVars, presets, reader, down, faults>>

\* The peer disconnects: its stream is detached, the team runs on.
Disconnect(c) ==
    /\ Calm /\ call[c] = "open"
    /\ call' = [call EXCEPT ![c] = "gone"]
    /\ streams' = [g \in Gen |-> streams[g] \ {c}]
    /\ shown' = [shown EXCEPT ![c] = {}]
    /\ UNCHANGED <<teams, built, scene, disposed, listening, watching, latched, failure, mark, jobVars,
                   presets, reader, down, faults>>

\* Mutant of Cancel: the mark is set after the orchestration was cancelled and
\* only if the member is still in flight by then.
CancelUnmarked ==
    LET g == liveEntry
    IN  /\ Calm /\ g # 0
        /\ \E o \in S!CancelResults(scene[g]) : scene' = [scene EXCEPT ![g] = o]
        /\ UNCHANGED streams /\ Watch(g)
        /\ UNCHANGED <<teams, built, disposed, listening, turnVars,
                       jobVars, presets, call, reader, down, faults>>

\* Cancel: the collector of the turn in flight is told first.
Cancel ==
    LET g == liveEntry
    IN  /\ Calm /\ g # 0
        /\ Mark(g, "CANCELED")
        /\ \E o \in S!CancelResults(scene[g]) : scene' = [scene EXCEPT ![g] = o]
        /\ UNCHANGED streams /\ Watch(g)
        /\ UNCHANGED <<teams, built, disposed, listening, latched, failure, shown,
                       jobVars, presets, call, reader, down, faults>>

\* endStreams and failStreams
CloseStreams(g, how) ==
    /\ call' = [c \in Calls |-> IF c \in streams[g] THEN how ELSE call[c]]
    /\ streams' = [streams EXCEPT ![g] = {}]

\* The watcher resumes at the static point: streams end cleanly unless the
\* orchestration itself failed; a disposed entry is left to its teardown.
WatchSettles(g) ==
    /\ WatchDue(g)
    /\ watching' = [watching EXCEPT ![g] = FALSE]
    /\ IF disposed[g]
       THEN UNCHANGED <<call, streams>>
       ELSE CloseStreams(g, IF scene[g].error = "orchestration" THEN "failed" ELSE "ended")
    /\ UNCHANGED <<teams, built, scene, disposed, listening, turnVars, jobVars, presets, reader, down, faults>>

-----------------------------------------------------------------------------
(* The orchestration and the collectors that listen to it.                   *)

\* ensureActive, on the running transition or the first event of the turn.
TurnStarts(g) ==
    LET r == scene[g].active
    IN  /\ Calm /\ r # S!Nobody /\ r \notin latched[g] /\ listening[g]
        /\ latched' = [latched EXCEPT ![g] = @ \cup {r}]
        /\ Turns(g, [c \in Calls |-> shown[c] \cup {r}])
        /\ UNCHANGED <<teams, built, scene, entryVars, failure, mark, jobVars, presets,
                       call, reader, down, faults>>

\* recordFailure, from agent/error or turn/end.
TurnFails(g) ==
    LET r == scene[g].active
    IN  /\ Calm /\ r # S!Nobody /\ r \in latched[g] \ failure[g] /\ listening[g]
        /\ ~scene[g].aborting
        /\ failure' = [failure EXCEPT ![g] = @ \cup {r}]
        /\ UNCHANGED <<teams, built, scene, entryVars, latched, mark, shown, jobVars,
                       presets, call, reader, down, faults>>

\* onStatus(idle): the label of turn_end.
Label(g, r) ==
    IF mark[g][r] # "none" THEN mark[g][r]
    ELSE IF r \in failure[g] THEN "ERROR" ELSE "COMPLETED"

\* onStatus(idle) with a latched turn: the turn_end frame; else nothing.
Settle(g, r) ==
    IF r \in latched[g] /\ listening[g]
    THEN /\ latched' = [latched EXCEPT ![g] = @ \ {r}]
         /\ failure' = [failure EXCEPT ![g] = @ \ {r}]
         /\ mark' = [mark EXCEPT ![g][r] = "none"]
         /\ Turns(g, [c \in Calls |-> shown[c] \ {r}])
    ELSE UNCHANGED turnVars

\* The agent becomes idle: its collector settles, then the orchestration goes
\* on.  A turn that was not cancelled has been seen running.
TurnEnds(g) ==
    LET r == scene[g].active
        failed == r \in failure[g]
    IN  /\ Calm /\ r # S!Nobody
        /\ r \in latched[g] \/ scene[g].aborting \/ ~listening[g]
        /\ Settle(g, r)
        /\ \E o \in S!TurnEndResults(scene[g], failed) : scene' = [scene EXCEPT ![g] = Seen(o)]
        /\ UNCHANGED <<teams, built, entryVars, jobVars, presets, call, reader, down, faults>>

\* The orchestration goes on by itself after a turn.
Continues(g) ==
    /\ scene[g].running /\ scene[g].active = S!Nobody /\ scene[g].life = "live"
    /\ \E o \in S!ContinueResults(scene[g]) : scene' = [scene EXCEPT ![g] = Seen(o)]
    /\ UNCHANGED <<teams, built, entryVars, turnVars, jobVars, presets, call, reader, down, faults>>

\* ... or comes to rest.
Rests(g) ==
    /\ scene[g].running /\ scene[g].active = S!Nobody
    /\ IF scene[g].life = "live"
       THEN \E o \in S!RestResults(scene[g]) : scene' = [scene EXCEPT ![g] = o]
       ELSE scene' = [scene EXCEPT ![g].running = FALSE]
    /\ UNCHANGED <<teams, built, entryVars, turnVars, jobVars, presets, call, reader, down, faults>>

-----------------------------------------------------------------------------
(* UpdateTeam: the materializations of the session run one after the other.  *)

JobAt(j, pc) == job[j].pc = pc
Go(j, pc) == job' = [job EXCEPT ![j].pc = pc]
jobFrame == <<presets, call, reader, down>>

\* The handler's own checks; then the job joins the chain.
UpdateTeam(j, q) ==
    /\ Calm /\ JobAt(j, "new") /\ down = "up"
    /\ \A k \in 1..(j - 1) : ~JobAt(k, "new")
    /\ IF WiredScene(q) /\ ValidStructure(q) /\ ValidMask(q)
       THEN /\ job' = [job EXCEPT ![j] = [pc |-> "queued", req |-> q]]
            /\ chain' = Append(chain, j)
       ELSE /\ job' = [job EXCEPT ![j].pc = "rejected"]
            /\ UNCHANGED chain
    /\ UNCHANGED <<teams, built, scene, entryVars, turnVars, torn, faults, jobFrame>>

\* Mutant of MayRun: a materialization does not wait for the one before it.
MayRunAtOnce(j) == Contains(chain, j)

\* The promise chain: a job runs when every earlier one is done.
MayRun(j) == chain # <<>> /\ Head(chain) = j

\* The job, which is the first of the chain, is done and the next one may run.
Finish(j, pc) ==
    /\ job' = [job EXCEPT ![j] = [pc |-> pc, req |-> AnyRequest]]
    /\ chain' = Tail(chain)

\* doMaterialize up to its first await.
CheckRoster(j) ==
    /\ Calm /\ MayRun(j) /\ JobAt(j, "queued")
    /\ IF ValidRoster(job[j].req) THEN Go(j, "presets") /\ UNCHANGED chain
                                  ELSE Finish(j, "rejected")
    /\ UNCHANGED <<teams, built, scene, entryVars, turnVars, torn, faults, jobFrame>>

\* All presets are read.
CheckPresets(j) ==
    /\ Calm /\ JobAt(j, "presets")
    /\ IF \A r \in Roster : ValidPreset(job[j].req, r) THEN Go(j, "models") /\ UNCHANGED chain
                                                      ELSE Finish(j, "rejected")
    /\ UNCHANGED <<teams, built, scene, entryVars, turnVars, torn, faults, jobFrame>>

\* teardownEntry up to its first await.
StartTeardown(g) ==
    /\ disposed' = [disposed EXCEPT ![g] = TRUE]
    /\ Mark(g, "ABORTED")
    /\ \E o \in S!DisposeResults(scene[g]) : scene' = [scene EXCEPT ![g] = o]

\* The models are read; then the existing entry leaves the registry and its
\* teardown begins.
CheckModels(j) ==
    /\ Calm /\ JobAt(j, "models")
    /\ IF \A r \in Roster : ValidModel(job[j].req, r)
       THEN /\ UNCHANGED chain
            /\ IF teams # 0
               THEN /\ teams' = 0 /\ torn' = [torn EXCEPT ![j] = teams]
                    /\ StartTeardown(teams)
                    /\ Go(j, "teardown")
               ELSE /\ Go(j, "building")
                    /\ UNCHANGED <<teams, torn, disposed, mark, scene>>
       ELSE /\ Finish(j, "rejected")
            /\ UNCHANGED <<teams, torn, disposed, mark, scene>>
    /\ UNCHANGED <<built, streams, listening, watching, latched, failure, shown, faults, jobFrame>>

\* Nobody asks a released orchestration whether it is paused.
Dead == S!ReleaseResult(S!NewScene)

\* Mutant of EndTeardown: the entry's streams are not ended.
EndTeardownSilent(g) ==
    /\ scene' = [scene EXCEPT ![g] = Dead]
    /\ listening' = [listening EXCEPT ![g] = FALSE]
    /\ latched' = [latched EXCEPT ![g] = {}] /\ failure' = [failure EXCEPT ![g] = {}]
    /\ mark' = [mark EXCEPT ![g] = [r \in Roster |-> "none"]]
    /\ UNCHANGED <<call, streams>>

\* teardownEntry after dispose(): unsubscribe, release the collectors, end the
\* streams.
EndTeardown(g) ==
    /\ scene' = [scene EXCEPT ![g] = Dead]
    /\ listening' = [listening EXCEPT ![g] = FALSE]
    /\ latched' = [latched EXCEPT ![g] = {}] /\ failure' = [failure EXCEPT ![g] = {}]
    /\ mark' = [mark EXCEPT ![g] = [r \in Roster |-> "none"]]
    /\ CloseStreams(g, "ended")

\* A member's release fails: dispose() rejects and the rest is skipped.
TeardownFails(g) ==
    /\ faults < MaxFaults /\ faults' = faults + 1
    /\ scene' = [scene EXCEPT ![g] = Dead]
    /\ UNCHANGED <<listening, latched, failure, mark, call, streams>>

Released(g) == scene[g].life = "disposing" /\ ~scene[g].running

JobTeardownEnds(j) ==
    /\ Calm /\ JobAt(j, "teardown") /\ Released(torn[j])
    /\ EndTeardown(torn[j]) /\ Go(j, "building") /\ UNCHANGED <<chain, faults>>
    /\ UNCHANGED <<teams, built, disposed, watching, shown, torn, presets, reader, down>>

JobTeardownFails(j) ==
    /\ Calm /\ JobAt(j, "teardown") /\ Released(torn[j])
    /\ TeardownFails(torn[j]) /\ Finish(j, "failed")
    /\ UNCHANGED <<teams, built, disposed, watching, shown, torn, presets, reader, down>>

\* The orchestration is built from presets that must still be there, the
\* member runtimes and the subscription are made, the entry is registered.
Build(j) ==
    LET g == built + 1
    IN  /\ Calm /\ JobAt(j, "building") /\ g \in Gen
        /\ \A r \in Roster : MemberFor(job[j].req, r).preset \in presets
        /\ built' = g /\ teams' = g
        /\ scene' = [scene EXCEPT ![g] = S!MaterializeResult(@)]
        /\ listening' = [listening EXCEPT ![g] = TRUE]
        /\ Finish(j, "done")
        /\ UNCHANGED <<disposed, streams, watching, turnVars, torn, faults, jobFrame>>

\* Building fails: everything built is rolled back, there is no entry.
BuildFails(j) ==
    /\ Calm /\ JobAt(j, "building")
    /\ \/ /\ \E r \in Roster : MemberFor(job[j].req, r).preset \notin presets
          /\ UNCHANGED faults
       \/ faults < MaxFaults /\ faults' = faults + 1
    /\ Finish(j, "failed")
    /\ UNCHANGED <<teams, built, scene, entryVars, turnVars, torn, jobFrame>>

\* DeletePreset removes the stored record; a materialized team is untouched.
DeletePreset(p) ==
    /\ Calm /\ p \in presets \cap Deletable
    /\ presets' = presets \ {p}
    /\ UNCHANGED <<teams, built, scene, entryVars, turnVars, jobVars, call, reader, down, faults>>

-----------------------------------------------------------------------------
(* GetTeamMember                                                             *)

\* Start, or sample the live generation again.
Sample(attempt) ==
    reader' = IF attempt >= MEMBER_READ_ATTEMPTS \/ liveEntry = 0
              THEN NoRead
              ELSE [pc |-> "reading", gen |-> liveEntry, attempt |-> attempt]

GetTeamMember ==
    /\ Calm /\ reader.pc # "reading"
    /\ Sample(0)
    /\ UNCHANGED <<teams, built, scene, entryVars, turnVars, jobVars, presets, call, down, faults>>

readFrame == <<teams, built, scene, entryVars, turnVars, jobVars, presets, call, down, faults>>

\* The prompt has been assembled: it is served if the generation still lives.
ReadServed ==
    /\ Calm /\ reader.pc = "reading" /\ liveEntry = reader.gen
    /\ reader' = NoRead
    /\ UNCHANGED readFrame

\* Assembling it failed, in a generation that lives: INTERNAL.
ReadFails ==
    /\ Calm /\ reader.pc = "reading" /\ liveEntry = reader.gen
    /\ reader' = NoRead
    /\ UNCHANGED readFrame

\* Either way the generation has changed meanwhile: it is sampled again.
ReadStale ==
    /\ Calm /\ reader.pc = "reading" /\ liveEntry # reader.gen
    /\ Sample(reader.attempt + 1)
    /\ UNCHANGED readFrame

-----------------------------------------------------------------------------
(* Shutdown: after the server has stopped, so every call is over.            *)

\* shutdown: the registry is emptied and every entry is torn down.
Shutdown ==
    /\ Calm /\ down = "up"
    /\ \A c \in Calls : call[c] # "open"
    /\ down' = "tearing" /\ teams' = 0
    /\ IF teams # 0 THEN StartTeardown(teams) ELSE UNCHANGED <<disposed, mark, scene>>
    /\ UNCHANGED <<built, streams, listening, watching, latched, failure, shown,
                   jobVars, presets, call, reader, faults>>

\* The generation shutdown tears down: no job did.
ShutdownGen(g) == disposed[g] /\ \A j \in Jobs : torn[j] # g

ShutdownTeardownEnds(g) ==
    /\ Calm /\ down = "tearing" /\ ShutdownGen(g) /\ Released(g)
    /\ \/ EndTeardown(g) /\ UNCHANGED faults
       \/ TeardownFails(g)
    /\ UNCHANGED <<teams, built, disposed, watching, shown, jobVars, presets, reader, down>>

\* allSettled, then the composition's fiber is disposed.
ShutdownEnds ==
    /\ Calm /\ down = "tearing"
    /\ \A g \in Gen : ShutdownGen(g) => scene[g].life = "disposed"
    /\ down' = "down"
    /\ UNCHANGED <<teams, built, scene, entryVars, turnVars, jobVars, presets, call, reader, faults>>

Next ==
    \/ \E c \in Calls : SendRejected(c) \/ Send(c) \/ Disconnect(c)
    \/ Cancel \/ GetTeamMember \/ ReadServed \/ ReadFails \/ ReadStale
    \/ \E g \in Gen : \/ WatchSettles(g) \/ TurnStarts(g) \/ TurnFails(g) \/ TurnEnds(g)
                      \/ Continues(g) \/ Rests(g) \/ ShutdownTeardownEnds(g)
    \/ \E j \in Jobs : \/ \E q \in Requests : UpdateTeam(j, q)
                       \/ CheckRoster(j) \/ CheckPresets(j) \/ CheckModels(j)
                       \/ JobTeardownEnds(j) \/ JobTeardownFails(j) \/ Build(j) \/ BuildFails(j)
    \/ \E p \in DOMAIN PresetRole : DeletePreset(p)
    \/ Shutdown \/ ShutdownEnds

\* Promise reactions and awaited calls come back, a turn starts and ends, and
\* the orchestration comes to rest (ComesToRest of the scene's loop).
JobStep(j) ==
    \/ CheckRoster(j) \/ CheckPresets(j) \/ CheckModels(j)
    \/ JobTeardownEnds(j) \/ JobTeardownFails(j) \/ Build(j) \/ BuildFails(j)

HostFairness ==
    /\ \A g \in Gen :
          /\ WF_vars(WatchSettles(g)) /\ WF_vars(TurnStarts(g) \/ TurnEnds(g))
          /\ SF_vars(Rests(g))
    /\ \A j \in Jobs : SF_vars(JobStep(j))

FairSpec == Init /\ [][Next]_vars /\ HostFairness

-----------------------------------------------------------------------------
TypeOK ==
    /\ teams \in Gen \cup {0} /\ built \in Gen \cup {0}
    /\ scene \in [Gen -> S!SceneSnapshot]
    /\ disposed \in [Gen -> BOOLEAN] /\ listening \in [Gen -> BOOLEAN]
    /\ watching \in [Gen -> BOOLEAN] /\ streams \in [Gen -> SUBSET Calls]
    /\ latched \in [Gen -> SUBSET Roster] /\ failure \in [Gen -> SUBSET Roster]
    /\ mark \in [Gen -> [Roster -> {"none", "CANCELED", "ABORTED"}]]
    /\ shown \in [Calls -> SUBSET Roster]
    /\ call \in [Calls -> {"gone", "open", "ended", "failed"}]
    /\ chain \in Seq(Jobs) /\ presets \subseteq DOMAIN PresetRole
    /\ reader \in [pc : {"idle", "reading"}, gen : 0..built, attempt : 0..(MEMBER_READ_ATTEMPTS - 1)]
    /\ \A j \in Jobs : job[j].pc \in {"new", "queued", "presets", "models", "teardown",
                                     "building", "done", "rejected", "failed"}

\* While the service is up a session has at most one set of member agents: the
\* next team is built only when the last one is released, however the updates
\* and their failures interleave.
OneTeam ==
    down = "up" => Cardinality({g \in Gen : scene[g].life \in {"live", "disposing"}}) <= 1

\* The entry in the registry is a team that lives and is listened to.
VisibleIsLive ==
    teams # 0 => scene[teams].life = "live" /\ ~disposed[teams] /\ listening[teams]

\* An update that is refused has not touched the team it would have replaced.
RefusedKeepsTeam == \A j \in Jobs : job[j].pc = "rejected" => torn[j] = 0

\* The step writes the turn_end frame of role r, and how that turn ended.
EndFrame(g, r) == r \in latched[g] /\ r \notin latched'[g] /\ scene[g].active = r
Truth(g, r) == S!OutcomeOf(scene[g], r \in failure[g])

\* A turn_end frame tells how the turn ended; CANCELED is CanceledMeansStopped.
EndFrameTrue ==
    [][\A g \in Gen, r \in Roster : EndFrame(g, r) =>
          /\ Label(g, r) = "COMPLETED" => Truth(g, r) = "completed"
          /\ Label(g, r) = "ERROR" => Truth(g, r) = "failed"
          /\ Label(g, r) = "ABORTED" => Truth(g, r) = "aborted"]_vars

\* A turn whose start a stream showed has ended on it before the stream ends,
\* whether by quiescence, by cancel, by failure or by a refresh.
NoDanglingTurn == \A c \in Calls : call[c] \in {"ended", "failed"} => shown[c] = {}

\* An open stream always has somebody who will end it.
StreamHasEnder ==
    \A g \in Gen : streams[g] # {} =>
       watching[g] \/ disposed[g]

\* "The old lifecycle's subscriptions die with it": a released team has no
\* stream left open.
ReleasedEndsStreams == \A g \in Gen : scene[g].life = "disposed" => streams[g] = {}

\* "Terminate the in-flight member turn with a CANCELED terminal frame": a turn
\* that is reported CANCELED was stopped.
CanceledMeansStopped ==
    [][\A g \in Gen, r \in Roster :
          EndFrame(g, r) /\ Label(g, r) = "CANCELED" => Truth(g, r) = "aborted"]_vars

\* The prompt GetTeamMember serves was assembled from a team that lived all the
\* time, never from one whose sections were being released.
ServesLivePrompt ==
    [][ReadServed =>
          scene[reader.gen].life = "live" /\ teams = reader.gen]_vars

\* Every stream ends, unless its team's release failed.
StreamsEnd ==
    \A c \in Calls :
       call[c] = "open" ~> \/ call[c] # "open"
                          \/ \E g \in Gen : c \in streams[g] /\ scene[g].life = "disposed" /\ listening[g]

\* Every update is answered, though an earlier one of the session fails.
UpdatesAnswered ==
    \A j \in Jobs : job[j].pc = "queued" ~> job[j].pc \in {"done", "rejected", "failed"}

\* The registry tells the truth: one team at a time, the visible one lives, and a
\* refused update leaves it alone.
RegistryTrue == TypeOK /\ OneTeam /\ VisibleIsLive /\ RefusedKeepsTeam

\* What clients are told is true: they see every turn end that they saw start,
\* with the reason it ended for, and read the prompts of a team that lives.
ClientsToldTrue == []NoDanglingTurn /\ EndFrameTrue /\ ServesLivePrompt

\* Nobody waits for ever: an open stream has somebody to end it and ends, an
\* update is answered.
RequestsEnd == []StreamHasEnder /\ StreamsEnd /\ UpdatesAnswered
=============================================================================
