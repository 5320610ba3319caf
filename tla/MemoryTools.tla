----------------------------- MODULE MemoryTools -----------------------------
(***************************************************************************)
(* The agent side of long-term memory: the `memory` tool and the three     *)
(* wiki tools of common/js/memory, called by the members of a team, each   *)
(* bound to one preset (the memory scope) and to the template (the wiki    *)
(* scope).  A call is a chain of unary RPCs with no transaction around it: *)
(* every RPC is one step, so the calls of two members and the writes of    *)
(* the web user interleave between any two of them.                        *)
(*                                                                         *)
(* An RPC is answered, or it never reaches the service, or it is applied   *)
(* and its answer is lost; the last two reach the caller as an error.      *)
(* Result texts are abstracted to the kind of the answer and the positions *)
(* (or entries) it names.                                                  *)
(***************************************************************************)
EXTENDS MemoryService

CONSTANTS
  Agents,        \* the team members
  Presets,       \* the presets of the template
  Scope,         \* Scope[a]: the preset member a was materialized from
  Locators,      \* old_text values (0 is a blank one)
  Substrings,      \* Substrings[c]: the locators that content c includes
  Calls,         \* the tool calls a model may make
  PageSize,      \* the service's default page size
  SearchPage,    \* WIKI_SEARCH_PAGE_SIZE
  SnapshotLimit, \* SNAPSHOT_ENTRY_LIMIT
  MaxEvents,     \* bound: tool calls, user events and faults in a behaviour
  InitialClock,  \* the writes behind the collections a behaviour starts with
  MaxWrites      \* bound: the service's clock

VARIABLES
  mem,        \* mem[p]: the memories of preset p
  wikis,      \* the wikis of the template
  clock,      \* the number of writes served: update_time
  agent,      \* agent[a]: the call member a is in
  events,     \* tool calls, user events and faults so far
  start,      \* start[a]: the collections when a's call began
  log,        \* log[a]: the writes of a's call the service really applied
  disturbed   \* members whose call met somebody else's write, or a fault

toolVars == <<mem, wikis, clock, agent, events, start, log, disturbed>>

-----------------------------------------------------------------------------
(* The operation core of operations.ts.                                    *)

MEMORY_ACTIONS == {"add", "replace", "remove"}
MemoryOp == [action : MEMORY_ACTIONS \cup {"unknown"},
             content : 0..Oversize, old_text : Locators \cup {0}]

Found(entry) == [ok |-> TRUE, entry |-> entry]
NotFound     == [ok |-> FALSE]

\* The entries are in list order: among hits of one content the first wins.
matchBySubstring(entries, old) ==
  LET hits == SelectSeq(entries, LAMBDA e : old \in Substrings[e.content])
  IN IF \/ old = 0
        \/ hits = <<>>
        \/ \E i, j \in DOMAIN hits : hits[i].content # hits[j].content
       THEN NotFound
       ELSE Found(hits[1])

Legal(content) == content \in Contents

Write(kind, id, content, position) ==
  [kind |-> kind, id |-> id, content |-> content, position |-> position]

Refused(plan) == [plan EXCEPT !.ok = FALSE, !.writes = <<>>]

\* Mutant of PlanReplace: the working copy is not updated.
PlanReplaceForgets(plan, op, i) ==
  LET match == matchBySubstring(plan.working, op.old_text)
  IN IF ~Legal(op.content) \/ ~match.ok THEN Refused(plan)
     ELSE [plan EXCEPT !.writes = Append(@,
             Write("update", match.entry.memory_id, op.content, i))]

\* The preflight of one operation against the batch's working copy.
PlanAdd(plan, op, i) ==
  IF ~Legal(op.content) THEN Refused(plan)
  ELSE IF \E k \in DOMAIN plan.working : plan.working[k].content = op.content
    THEN plan
    ELSE LET id == generateMemoryId(op.content)
         IN [plan EXCEPT
               !.working = Append(@, [memory_id |-> id, content |-> op.content]),
               !.writes  = Append(@, Write("create", id, op.content, i))]

IndexOf(working, id) ==
  CHOOSE k \in DOMAIN working :
    /\ working[k].memory_id = id
    /\ \A j \in 1..(k - 1) : working[j].memory_id # id

PlanReplace(plan, op, i) ==
  LET match == matchBySubstring(plan.working, op.old_text)
  IN IF ~Legal(op.content) \/ ~match.ok THEN Refused(plan)
     ELSE LET id == match.entry.memory_id
          IN [plan EXCEPT
                !.working[IndexOf(plan.working, id)].content = op.content,
                !.writes = Append(@, Write("update", id, op.content, i))]

PlanRemove(plan, op, i) ==
  LET match == matchBySubstring(plan.working, op.old_text)
  IN IF ~match.ok THEN Refused(plan)
     ELSE LET id == match.entry.memory_id
          IN [plan EXCEPT
                !.working = RemoveAt(@, IndexOf(plan.working, id)),
                !.writes  = Append(@, Write("delete", id, 0, i))]

PlanOperation(plan, op, i) ==
  IF ~plan.ok THEN plan
  ELSE CASE op.action = "add"     -> PlanAdd(plan, op, i)
         [] op.action = "replace" -> PlanReplace(plan, op, i)
         [] op.action = "remove"  -> PlanRemove(plan, op, i)
         [] OTHER                 -> Refused(plan)

\* The preflight of a whole batch: one snapshot of the entries, each
\* operation against the effects of the ones before it.
Preflight(entries, ops) ==
  LET plan[i \in 0..Len(ops)] ==
        IF i = 0 THEN [ok |-> TRUE, working |-> entries, writes |-> <<>>]
        ELSE PlanOperation(plan[i - 1], ops[i], i)
  IN plan[Len(ops)]

\* The reference: the operations one by one, each as a call of its own on
\* the collection the ones before it left.
InListOrder(coll) == SetToSortSeq(coll, LAMBDA x, y : x.memory_id < y.memory_id)

ApplyAlone(coll, op) ==
  LET match == matchBySubstring(InListOrder(coll), op.old_text)
  IN CASE op.action # "add" /\ ~match.ok -> coll
       [] op.action = "add" ->
            (IF \E e \in coll : e.content = op.content THEN coll
             ELSE createMemory(coll, Write("create", generateMemoryId(op.content),
                                           op.content, 0), 0).coll)
       [] op.action = "replace" ->
            updateMemory(coll, Write("update", match.entry.memory_id, op.content, 0), 0).coll
       [] op.action = "remove" ->
            deleteMemory(coll, Write("delete", match.entry.memory_id, 0, 0)).coll

OneByOne(coll, ops) == FoldLeft(ApplyAlone, coll, ops)

\* How often each content is stored.
Stored(coll) == [c \in Contents |-> Cardinality({e \in coll : e.content = c})]

-----------------------------------------------------------------------------
(* What a member can call: the capability units mounted on it, and the     *)
(* arguments each tool's schema admits.                                    *)

memoryUnit == {"memory"}
wikiUnit   == {"wiki_search", "wiki_get", "wiki_write"}

\* The composition a member mounts whole; its readiness hook is the prefetch
\* of the memory unit.
Mounted == memoryUnit \cup wikiUnit \cup {"prefetch"}

Forms == {"single", "batch", "both", "neither"}

WikiEntry == [title : Titles \cup {"blank"}, content : 0..Oversize]

MemoryToolArgs     == [tool : {"memory"}, form : Forms, ops : Seq(MemoryOp)]
WikiWriteToolArgs  == [tool : {"wiki_write"}, form : Forms, entries : Seq(WikiEntry)]
WikiGetToolArgs    == [tool : {"wiki_get"}, form : Forms,
                       titles : Seq(Titles \cup {"blank"})]
WikiSearchToolArgs == [tool : {"wiki_search"}, form : Forms, query : Norms \cup {0}]

\* The calls of a behaviour are calls the tool schemas let through.
ASSUME CallsAssumption == \A call \in Calls :
  /\ call.tool \in Mounted
  /\ \/ call \in MemoryToolArgs
     \/ call \in WikiWriteToolArgs
     \/ call \in WikiGetToolArgs
     \/ call \in WikiSearchToolArgs
     \/ call = [tool |-> "prefetch", form |-> "single"]

-----------------------------------------------------------------------------
(* The members.                                                            *)

NoCall == [tool |-> "none"]

Idle == [pc |-> "idle", call |-> NoCall, entries |-> <<>>, token |-> 0,
         writes |-> <<>>, k |-> 1, applied |-> <<>>, found |-> <<>>,
         answer |-> "none"]

MemoryTool(call) == call.tool = "memory"
Single(call)     == call.form = "single"

\* The answer of a call that ends without (another) RPC.
Answer(st, kind) == [st EXCEPT !.pc = "idle", !.answer = kind]

\* An infrastructure failure is an answer too: the tools never throw.
Failed(st)     == Answer(st, "failed")
WikiFailed(st) == Answer(st, "failed")

Spend == events < MaxEvents /\ events' = events + 1

Quiet(a) == UNCHANGED <<mem, wikis, clock, log, disturbed>>

\* A write somebody made disturbs the calls of everybody else.
Disturb(others) ==
  disturbed' = IF mem' # mem \/ wikis' # wikis
                 THEN disturbed \cup others ELSE disturbed

\* What a call does before its first RPC: the form checks of applyMemoryCall
\* and wikiWrite, and the content checks the single forms make first.
Opening(st, call) ==
  LET begun == [st EXCEPT !.call = call]
      wrong == call.form \in {"both", "neither"}
  IN CASE call.tool = "prefetch" -> [begun EXCEPT !.pc = "ready"]
       [] MemoryTool(call) ->
            (IF \/ wrong
                \/ call.ops = <<>>
                \/ /\ Single(call)
                   /\ \/ call.ops[1].action = "unknown"
                      \/ /\ call.ops[1].action # "remove"
                         /\ ~Legal(call.ops[1].content)
               THEN Answer(begun, "refused")
               ELSE [begun EXCEPT !.pc = "list"])
       [] call.tool = "wiki_write" ->
            (IF wrong \/ call.entries = <<>>
               THEN Answer(begun, "refused")
               ELSE [begun EXCEPT !.pc = "entry"])
       [] call.tool = "wiki_get" ->
            (IF call.titles = <<>>
               THEN Answer(begun, "refused")
               ELSE [begun EXCEPT !.pc = "title"])
       [] call.tool = "wiki_search" ->
            (IF call.query = 0
               THEN Answer(begun, "refused")
               ELSE [begun EXCEPT !.pc = "search"])

\* executeMemoryTool, executeWiki*Tool: the face resolves, the call begins.
\* A "prefetch" is the materialization of another member in this scope.
BeginCall(a) == \E call \in Calls :
  /\ agent[a].pc = "idle"
  /\ Spend
  /\ agent' = [agent EXCEPT ![a] = Opening(Idle, call)]
  /\ start' = [start EXCEPT ![a] = [mem |-> mem[Scope[a]], wikis |-> wikis]]
  /\ log' = [log EXCEPT ![a] = {}]
  /\ disturbed' = disturbed \ {a}
  /\ UNCHANGED <<mem, wikis, clock>>

\* The readiness hook of the memory unit: one page of the most recently
\* updated entries becomes the member's snapshot, frozen for its lifetime.
\* A failure is the materialization's: no member, no snapshot.
prefetch(a) ==
  /\ agent[a].pc = "ready"
  /\ agent' = [agent EXCEPT ![a] = Answer([@ EXCEPT
       !.found = RecentMemories(mem[Scope[a]], 0, SnapshotLimit).items], "done")]
  /\ Quiet(a)
  /\ UNCHANGED <<events, start>>

\* Mutant: the page token dropped.
ListPageAgain(a) ==
  /\ agent[a].pc = "list"
  /\ LET page == ListMemories(mem[Scope[a]], agent[a].token, PageSize)
     IN agent' = [agent EXCEPT ![a].entries = IF page.next = 0 THEN @ \o page.items ELSE @,
                               ![a].pc = IF page.next = 0 THEN "plan" ELSE @]
  /\ Quiet(a)
  /\ UNCHANGED <<events, start>>

\* One page of listMemories, until none is left.
ListPage(a) ==
  /\ agent[a].pc = "list"
  /\ LET page == ListMemories(mem[Scope[a]], agent[a].token, PageSize)
     IN agent' = [agent EXCEPT ![a].entries = @ \o page.items,
                               ![a].token = page.next,
                               ![a].pc = IF page.next = 0 THEN "plan" ELSE @]
  /\ Quiet(a)
  /\ UNCHANGED <<events, start>>

\* The preflight: a refusal, nothing to do, or the writes to commit.
Planned(st, plan) ==
  IF ~plan.ok THEN Answer(st, "refused")
  ELSE IF plan.writes = <<>>
    THEN Answer(st, IF Single(st.call) THEN "exists" ELSE "done")
    ELSE [st EXCEPT !.pc = "commit", !.writes = plan.writes, !.entries = <<>>]

PlanCall(a) ==
  /\ agent[a].pc = "plan"
  /\ agent' = [agent EXCEPT ![a] =
       Planned(@, Preflight(@.entries, @.call.ops))]
  /\ Quiet(a)
  /\ UNCHANGED <<events, start>>

\* Mutant: the position recorded before its RPC is answered.
CommittedEarly(st, code) ==
  LET w    == st.writes[st.k]
      next == [st EXCEPT !.applied = Append(@, w.position), !.k = @ + 1]
  IN CASE code = "OK" ->
            (IF st.k = Len(st.writes) THEN Answer(next, "done") ELSE next)
       [] code = "ALREADY_EXISTS" /\ Single(st.call) -> Answer(st, "exists")
       [] OTHER -> Answer(next, "failed")

\* The service's answer to a memory write, as the commit loop takes it.
Committed(st, code) ==
  LET w    == st.writes[st.k]
      next == [st EXCEPT !.applied = Append(@, w.position), !.k = @ + 1]
  IN CASE code = "OK" ->
            (IF st.k = Len(st.writes) THEN Answer(next, "done") ELSE next)
       [] /\ code = "ALREADY_EXISTS"
          /\ Single(st.call) -> Answer(st, "exists")
       [] OTHER -> Failed(st)

\* One write of the commit phase, answered.
CommitMemory(a) ==
  /\ agent[a].pc = "commit"
  /\ clock < MaxWrites
  /\ LET w == agent[a].writes[agent[a].k]
         r == MemoryWrite(mem[Scope[a]], w, clock + 1)
     IN /\ mem' = [mem EXCEPT ![Scope[a]] = r.coll]
        /\ clock' = clock + 1
        /\ agent' = [agent EXCEPT ![a] = Committed(agent[a], r.code)]
        /\ log' = IF r.code = "OK"
                    THEN [log EXCEPT ![a] = @ \cup {w.position}] ELSE log
  /\ UNCHANGED wikis
  /\ Disturb(Agents \ {a})
  /\ UNCHANGED <<events, start>>

-----------------------------------------------------------------------------
(* The wiki tools of wiki-operations.ts.                                   *)

WikiWrite(kind, id, entry, position) ==
  [kind |-> kind, id |-> id, title |-> entry.title,
   content |-> entry.content, position |-> position]

\* The next entry of the preflight loop, or the commit when none is left.
NextEntry(st) ==
  LET next == [st EXCEPT !.k = @ + 1, !.token = 0, !.entries = <<>>]
  IN IF st.k = Len(st.call.entries)
       THEN [next EXCEPT !.pc = "wcommit", !.k = 1]
       ELSE [next EXCEPT !.pc = "entry"]

\* A title this batch has planned already: update the planned entry.
PlannedIds(st, norm) ==
  {st.writes[i].id : i \in {j \in DOMAIN st.writes : Norm[st.writes[j].title] = norm}}

\* The checks of one wiki_write entry; no RPC unless its title is new here.
CheckEntry(a) ==
  /\ agent[a].pc = "entry"
  /\ LET st  == agent[a]
         e   == st.call.entries[st.k]
         ids == PlannedIds(st, normalizeWikiTitle(e.title))
     IN agent' = [agent EXCEPT ![a] =
          IF e.title = "blank" \/ ~Legal(e.content) THEN Answer(st, "refused")
          ELSE IF ids # {}
            THEN NextEntry([st EXCEPT !.writes = Append(@,
                   WikiWrite("update", CHOOSE id \in ids : TRUE, e, st.k))])
            ELSE [st EXCEPT !.pc = "search"]]
  /\ Quiet(a)
  /\ UNCHANGED <<events, start>>

\* The query of the running search: a title resolves through the search of
\* its normalized form.
Query(st) ==
  CASE st.call.tool = "wiki_search" -> st.call.query
    [] st.call.tool = "wiki_write"  -> Norm[st.call.entries[st.k].title]
    [] st.call.tool = "wiki_get"    -> Norm[st.call.titles[st.k]]

\* Entries re-surfaced by a write between two pages are listed once.
Unseen(hits, page) ==
  SelectSeq(page, LAMBDA w : \A i \in DOMAIN hits : hits[i].wiki_id # w.wiki_id)

NextTitle(st) ==
  LET next == [st EXCEPT !.k = @ + 1, !.token = 0, !.entries = <<>>]
  IN IF st.k = Len(st.call.titles) THEN Answer(next, "done")
     ELSE [next EXCEPT !.pc = "title"]

\* resolveWiki on the folded hits, and what each tool makes of the result.
Searched(st, hits) ==
  LET exact == SelectSeq(hits, LAMBDA w : Norm[w.title] = Query(st))
  IN CASE st.call.tool = "wiki_search" -> Answer([st EXCEPT !.found = hits], "done")
       [] st.call.tool = "wiki_write" ->
            LET e == st.call.entries[st.k]
                w == IF exact = <<>>
                       THEN WikiWrite("create", generateWikiId(Query(st)), e, st.k)
                       ELSE WikiWrite("update", exact[1].wiki_id, e, st.k)
            IN NextEntry([st EXCEPT !.writes = Append(@, w)])
       [] st.call.tool = "wiki_get" ->
            IF exact = <<>> THEN NextTitle(st)
            ELSE [st EXCEPT !.pc = "get", !.entries = <<exact[1]>>]

\* One page of searchAll.
SearchPageStep(a) ==
  /\ agent[a].pc = "search"
  /\ LET st   == agent[a]
         page == SearchWikis(wikis, Query(st), st.token, SearchPage)
         hits == st.entries \o Unseen(st.entries, page.items)
     IN agent' = [agent EXCEPT ![a] =
          IF page.next # 0
            THEN [st EXCEPT !.entries = hits, !.token = page.next]
            ELSE Searched(st, hits)]
  /\ Quiet(a)
  /\ UNCHANGED <<events, start>>

\* The next title of wiki_get: a blank one is missing without an RPC.
CheckTitle(a) ==
  /\ agent[a].pc = "title"
  /\ agent' = [agent EXCEPT ![a] =
       IF @.call.titles[@.k] = "blank" THEN NextTitle(@)
       ELSE [@ EXCEPT !.pc = "search"]]
  /\ Quiet(a)
  /\ UNCHANGED <<events, start>>

\* getWiki of the resolved name: deleted since, the whole call fails.
FetchWiki(a) ==
  /\ agent[a].pc = "get"
  /\ LET st  == agent[a]
         hit == {w \in wikis : w.wiki_id = st.entries[1].wiki_id}
     IN agent' = [agent EXCEPT ![a] =
          IF hit = {} THEN WikiFailed(st)
          ELSE NextTitle([st EXCEPT !.found = Append(@, CHOOSE w \in hit : TRUE)])]
  /\ Quiet(a)
  /\ UNCHANGED <<events, start>>

WikiWriteReply(w) ==
  IF w.kind = "create" THEN createWiki(wikis, w.id, w.title, w.content)
  ELSE updateWiki(wikis, w.id, w, {"content"})

WikiCommitted(st, code) ==
  LET next == [st EXCEPT !.applied = Append(@, st.writes[st.k].position), !.k = @ + 1]
  IN IF code # "OK" THEN WikiFailed(st)
     ELSE IF st.k = Len(st.writes) THEN Answer(next, "done") ELSE next

\* One write of wiki_write's commit phase, answered.
CommitWiki(a) ==
  /\ agent[a].pc = "wcommit"
  /\ clock < MaxWrites
  /\ clock' = clock + 1
  /\ LET w == agent[a].writes[agent[a].k]
         r == WikiWriteReply(w)
     IN /\ wikis' = r.coll
        /\ agent' = [agent EXCEPT ![a] = WikiCommitted(agent[a], r.code)]
        /\ log' = IF r.code = "OK"
                    THEN [log EXCEPT ![a] = @ \cup {w.position}] ELSE log
  /\ UNCHANGED mem
  /\ Disturb(Agents \ {a})
  /\ UNCHANGED <<events, start>>

-----------------------------------------------------------------------------
(* Infrastructure failures: every tool turns one into a failed answer.     *)

\* An RPC that does not reach the service, or whose answer does not return:
\* the write is applied all the same.
RpcFails(a) ==
  /\ agent[a].pc \in {"ready", "list", "commit", "search", "get", "wcommit"}
  /\ Spend
  /\ agent' = [agent EXCEPT ![a] = Failed(@)]
  /\ disturbed' = disturbed \cup {a}
  /\ UNCHANGED <<mem, wikis, clock, log, start>>

AnswerLost(a) ==
  /\ agent[a].pc \in {"commit", "wcommit"}
  /\ Spend
  /\ clock < MaxWrites
  /\ agent' = [agent EXCEPT ![a] = Failed(@)]
  /\ LET w == agent[a].writes[agent[a].k]
         r == IF agent[a].pc = "commit"
                THEN MemoryWrite(mem[Scope[a]], w, clock + 1) ELSE WikiWriteReply(w)
     IN /\ IF agent[a].pc = "commit"
             THEN mem' = [mem EXCEPT ![Scope[a]] = r.coll] /\ UNCHANGED wikis
             ELSE wikis' = r.coll /\ UNCHANGED mem
        /\ log' = IF r.code = "OK"
                    THEN [log EXCEPT ![a] = @ \cup {w.position}] ELSE log
  /\ clock' = clock + 1
  /\ disturbed' = disturbed \cup Agents
  /\ UNCHANGED start

ToolStep(a) ==
  \/ prefetch(a) \/ ListPage(a) \/ PlanCall(a) \/ CommitMemory(a)
  \/ CheckEntry(a) \/ SearchPageStep(a) \/ CheckTitle(a) \/ FetchWiki(a)
  \/ CommitWiki(a)

ToolNext == \E a \in Agents :
  BeginCall(a) \/ ToolStep(a) \/ RpcFails(a) \/ AnswerLost(a)

ToolInit ==
  /\ clock = InitialClock
  /\ agent = [a \in Agents |-> Idle]
  /\ events = 0
  /\ start = [a \in Agents |-> [mem |-> {}, wikis |-> {}]]
  /\ log = [a \in Agents |-> {}]
  /\ disturbed = {}

=============================================================================
