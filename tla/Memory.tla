-------------------------------- MODULE Memory --------------------------------
(***************************************************************************)
(* Long-term memory as a whole: the members' tool calls and the web user's *)
(* management view on the collections of one memory service.               *)
(***************************************************************************)
EXTENDS MemoryViews

CONSTANTS
  Initial        \* the collections a behaviour may start with

vars == <<toolVars, viewVars>>

Init ==
  /\ ToolInit
  /\ ViewInit
  /\ \E init \in Initial : mem = init.mem /\ wikis = init.wikis

Next == (ToolNext /\ UNCHANGED viewVars) \/ ViewNext

\* The steps that are not up to a model or the user: every RPC is answered
\* or fails within its deadline, every HTTP request is answered, and React
\* runs the effects of a render.
Answering ==
  \/ \E a \in Agents : ToolStep(a) /\ UNCHANGED viewVars
  \/ RefreshEffect \/ ServeList \/ LandList \/ WriteServed \/ WikiFetched

Spec == Init /\ [][Next]_vars /\ WF_vars(Answering)

-----------------------------------------------------------------------------
\* Type correctness: collections are keyed by id, pages by positive tokens.
MemoryTypeOK ==
  /\ \A p \in Presets : mem[p] \subseteq MemoryEntry
  /\ wikis \subseteq Wiki
  /\ \A a \in Agents :
       agent[a].pc \in {"idle", "ready", "list", "plan", "commit", "entry", "title",
                        "search", "get", "wcommit"}
  /\ \A a \in Agents : \A i \in DOMAIN agent[a].writes :
       LET w == agent[a].writes[i]
       IN IF MemoryTool(agent[a].call)
            THEN [kind |-> w.kind, id |-> w.id, content |-> w.content] \in
                   CreateMemoryRequest \cup UpdateMemoryRequest \cup DeleteMemoryRequest
            ELSE [kind |-> w.kind, id |-> w.id, title |-> w.title, content |-> w.content]
                   \in CreateWikiRequest \cup UpdateWikiRequest
  /\ clock \in 0..MaxWrites
  /\ view.form \in FormMode

Answers(a) == agent[a].pc = "idle" /\ agent[a].call # NoCall
Lone(a)    == a \notin disturbed

\* A refusal (ambiguous or missing match, illegal content, bad form) wrote
\* nothing, however far the preflight had come.
RefusalWritesNothing == \A a \in Agents :
  Answers(a) /\ agent[a].answer = "refused" => log[a] = {}

\* What an answer says was written was written: a success applied the whole
\* plan, and a failure names applied operations only and leaves out at most
\* the one whose answer was lost.
AnswerTellsApplied == \A a \in Agents : Answers(a) =>
  LET told == {agent[a].applied[i] : i \in DOMAIN agent[a].applied}
      planned == {agent[a].writes[i].position : i \in DOMAIN agent[a].writes}
  IN /\ agent[a].answer = "done" => log[a] = planned
     /\ agent[a].answer = "failed" =>
          /\ told \subseteq log[a]
          /\ Cardinality(log[a] \ told) <= 1

\* A batch nobody disturbs does to the collection what its operations do
\* one after the other.
LoneBatchIsSequential == \A a \in Agents :
  LET st == agent[a]
  IN /\ Answers(a) /\ Lone(a) /\ MemoryTool(st.call)
     /\ st.answer = "done"
     => Stored(mem[Scope[a]]) = Stored(OneByOne(start[a].mem, st.call.ops))

\* A call nobody disturbs fails only on an id that an entry of another
\* content or title holds (an entry edited since it was created).
LoneFailureIsCollision == \A a \in Agents :
  LET st == agent[a]
      w  == st.writes[st.k]
  IN Answers(a) /\ Lone(a) /\ st.answer = "failed" =>
       /\ w.kind = "create"
       /\ IF MemoryTool(st.call)
            THEN \E e \in mem[Scope[a]] : e.memory_id = w.id /\ e.content # w.content
            ELSE \E x \in wikis : x.wiki_id = w.id /\ Norm[x.title] # Norm[w.title]

\* An undisturbed wiki_write leaves under every title it names the content
\* of the last entry that names it.
LastEntryWins == \A a \in Agents :
  LET st == agent[a]
  IN Answers(a) /\ Lone(a) /\ st.call.tool = "wiki_write" /\ st.answer = "done" =>
       \A i \in DOMAIN st.call.entries :
         LET same == {j \in DOMAIN st.call.entries :
                        Norm[st.call.entries[j].title] = Norm[st.call.entries[i].title]}
             last == CHOOSE j \in same : \A k \in same : k <= j
         IN \E w \in wikis : /\ Norm[w.title] = Norm[st.call.entries[i].title]
                             /\ w.content = st.call.entries[last].content

\* An undisturbed wiki_get returns every requested title that is stored,
\* whichever page of the search it is on and whichever siblings are missing.
WikiGetFindsAll == \A a \in Agents :
  LET st == agent[a]
  IN Answers(a) /\ Lone(a) /\ st.call.tool = "wiki_get" /\ st.answer = "done" =>
       \A w \in wikis :
         (\E i \in DOMAIN st.call.titles :
            st.call.titles[i] # "blank" /\ Norm[st.call.titles[i]] = Norm[w.title])
         => \E i \in DOMAIN st.found : st.found[i].wiki_id = w.wiki_id

\* The snapshot a member is materialized with is the newest entries of its
\* preset: none that it leaves out is newer than one it holds.
SnapshotIsNewest == \A a \in Agents :
  LET st == agent[a]
  IN Answers(a) /\ Lone(a) /\ st.call.tool = "prefetch" /\ st.answer = "done" =>
       LET held == {st.found[i] : i \in DOMAIN st.found}
       IN \A e \in mem[Scope[a]] \ held :
            Cardinality({h \in held : h.time > e.time}) = SnapshotLimit

\* Not kept by the code: a WikiView that nothing is loading for shows the
\* page of its query (an older query's answer may land last).
SettledWikiIsCurrent ==
  /\ ~Memories(view) /\ requests = {} /\ ~view.dirty /\ ~view.error
  /\ view.shownAt = clock
  => view.shownFor = view.sel

\* "already exists" is said of a content that is stored (applyAdd: the
\* conflict can only be for the SAME content).
DedupeTruthful == \A a \in Agents :
  Answers(a) /\ Lone(a) /\ agent[a].answer = "exists" =>
    \E e \in mem[Scope[a]] : e.content = agent[a].call.ops[1].content

\* No row of another preset is shown under the selected one, however late
\* its answer comes.
RowsOfSelection ==
  Memories(view) /\ view.items # <<>> => view.shownFor = view.sel

\* A settled MemoryView shows the selected page as the service has it,
\* unless something was written since that page was served.
SettledViewIsCurrent ==
  /\ Memories(view) /\ requests = {} /\ ~view.dirty /\ ~view.error
  /\ view.sel # NoPreset /\ view.shownAt = clock
  => view.items = RecentMemories(mem[view.sel], view.tokens[Len(view.tokens)], WebPage).items

Pending ==
  \/ \E a \in Agents : agent[a].pc # "idle"
  \/ view.loading \/ view.busy

\* Every tool call is answered (no page walk runs for ever), and a view's
\* loading mark and write lock go away.
EverythingAnswers == Pending ~> ~Pending

\* What a tool answers is true: of what it wrote, of what it refused to write,
\* and of what the pages it walked hold.
AnswersTrue ==
  /\ MemoryTypeOK /\ RefusalWritesNothing /\ AnswerTellsApplied
  /\ WikiGetFindsAll /\ SnapshotIsNewest

\* A batch that nobody disturbs is as good as its operations one by one: the
\* same result, no failure but the one they would meet, the last entry wins.
LoneBatchExact == LoneBatchIsSequential /\ LoneFailureIsCollision /\ LastEntryWins

\* The management view of memories shows the selected preset and, once settled,
\* its current page, in whatever order the answers land.
ViewTrue == RowsOfSelection /\ SettledViewIsCurrent
=============================================================================
