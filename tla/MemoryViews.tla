----------------------------- MODULE MemoryViews -----------------------------
(***************************************************************************)
(* The web user's management views beside the agents' tools: MemoryView    *)
(* (the memories of a selected preset) and WikiView (the wikis of the      *)
(* template, browsed or searched).  The two render exclusively; `tab` says *)
(* which one is mounted.  Both keep a selection (the preset, or the query  *)
(* with 0 for "browse"), a chain of page tokens, the rows of the page and  *)
(* one form; a list request is sent, served and landed in three steps, so  *)
(* answers overtake each other.  MemoryView tells a late answer by its     *)
(* epoch; WikiView does not.                                               *)
(***************************************************************************)
EXTENDS MemoryTools

CONSTANTS
  NoPreset,   \* nothing selected
  Drafts,     \* the legal contents a user types
  WebPage     \* MEMORY_PAGE_SIZE, WIKI_PAGE_SIZE

VARIABLES
  view,       \* the mounted view
  requests    \* its list requests not landed yet

viewVars == <<view, requests>>

FormMode == {"closed", "create", "edit"}
NoOp     == [kind |-> "none"]

\* The page as of which write the rows are (none: the page never loaded).
NotShown == MaxWrites + 1

MountedView(tab) ==
  [tab |-> tab, sel |-> IF tab = "memory" THEN NoPreset ELSE 0,
   items |-> <<>>, tokens |-> <<0>>, next |-> 0, epoch |-> 0,
   loading |-> tab = "wiki", dirty |-> TRUE, busy |-> FALSE, error |-> FALSE,
   form |-> "closed", target |-> 0, detail |-> 0, pending |-> 0,
   op |-> NoOp, shownAt |-> NotShown, shownFor |-> NoPreset]

currentToken(v) == v.tokens[Len(v.tokens)]
onFirstPage(v)  == Len(v.tokens) <= 1
hasNextPage(v)  == v.next # 0

Memories(v) == v.tab = "memory"

-----------------------------------------------------------------------------
(* List requests.                                                          *)

\* What the code after `await refresh()` does, by the handler that awaited.
After(v, then) ==
  CASE then = "effect"  -> v
    [] then = "saved"   -> [v EXCEPT !.busy = FALSE]
    [] then = "gone"    -> [v EXCEPT !.busy = FALSE, !.error = TRUE]
    [] then = "deleted" -> v
    [] then = "undeleted" -> [v EXCEPT !.error = TRUE]

\* refresh() as called with the selection and the token its closure captured.
Refresh(v, sel, token, then) ==
  IF Memories(v) /\ v.sel # sel
    THEN view' = After(v, then) /\ UNCHANGED requests
  ELSE IF Memories(v) /\ sel = NoPreset
    THEN /\ view' = After([v EXCEPT !.epoch = @ + 1, !.items = <<>>,
                                    !.next = 0, !.loading = FALSE], then)
         /\ UNCHANGED requests
  ELSE /\ view' = [v EXCEPT !.epoch = @ + 1, !.loading = TRUE]
       /\ requests' = requests \cup
            {[epoch |-> v.epoch + 1, sel |-> sel, token |-> token,
              then |-> then, served |-> FALSE, items |-> <<>>, next |-> 0,
              at |-> 0]}

\* The refresh effect: runs after a render that changed what it depends on.
RefreshEffect ==
  /\ view.dirty
  /\ Refresh([view EXCEPT !.dirty = FALSE], view.sel, currentToken(view), "effect")
  /\ UNCHANGED toolVars

\* listMemories, listWikis or searchWikis at the service.
PageFor(r) ==
  IF Memories(view) THEN RecentMemories(mem[r.sel], r.token, WebPage)
  ELSE IF r.sel = 0 THEN ListWikis(wikis, r.token, WebPage)
  ELSE SearchWikis(wikis, r.sel, r.token, WebPage)

ServeList == \E r \in requests :
  /\ ~r.served
  /\ requests' = (requests \ {r}) \cup
       {[r EXCEPT !.served = TRUE, !.items = PageFor(r).items,
                  !.next = PageFor(r).next, !.at = clock]}
  /\ UNCHANGED <<toolVars, view>>

\* Mutant: late answers land.
NeverStale(v, r) == FALSE

\* A later request, or another selection, makes an answer stale.
Stale(v, r) == Memories(v) /\ (r.epoch # v.epoch \/ v.sel # r.sel)

\* Only the newest request of MemoryView takes the loading mark back.
Loaded(v, r) == ~Memories(v) \/ r.epoch = v.epoch

Landed(v, r) ==
  IF Stale(v, r) THEN v
  ELSE [v EXCEPT !.items = r.items, !.next = r.next, !.error = FALSE,
                 !.shownAt = r.at, !.shownFor = r.sel]

LandList == \E r \in requests :
  /\ r.served
  /\ LET v == [Landed(view, r) EXCEPT !.loading = @ /\ ~Loaded(view, r)]
     IN view' = After(v, r.then)
  /\ requests' = requests \ {r}
  /\ UNCHANGED toolVars

ListFails == \E r \in requests :
  /\ Spend
  /\ LET v == [view EXCEPT !.error = @ \/ ~Stale(view, r),
                           !.loading = @ /\ ~Loaded(view, r)]
     IN view' = After(v, r.then)
  /\ requests' = requests \ {r}
  /\ UNCHANGED <<mem, wikis, clock, agent, start, log, disturbed>>

-----------------------------------------------------------------------------
(* Navigation.                                                             *)

Event ==
  /\ Spend
  /\ UNCHANGED <<mem, wikis, clock, agent, start, log, disturbed, requests>>

\* The selector is disabled while a write runs, not while a list loads.
selectPreset == \E p \in Presets \cup {NoPreset} :
  /\ Memories(view) /\ ~view.busy /\ p # view.sel
  /\ view' = [view EXCEPT !.epoch = @ + 1, !.sel = p, !.items = <<>>,
                          !.tokens = <<0>>, !.next = 0, !.form = "closed",
                          !.pending = 0, !.error = FALSE, !.dirty = TRUE,
                          !.shownAt = NotShown]
  /\ Event

\* The button is disabled while a list loads; Enter in the field reaches the
\* form's own submit handler, which checks nothing (the field and the button
\* are of an external package).
submitSearch == \E q \in Norms \cup {0} :
  /\ ~Memories(view) /\ view.form = "closed"
  /\ view' = [view EXCEPT !.sel = q, !.tokens = <<0>>, !.pending = 0,
                          !.error = FALSE, !.dirty = TRUE]
  /\ Event

Pager == /\ ~view.loading /\ ~view.busy /\ view.form = "closed"
         /\ view.sel # NoPreset

goNext ==
  /\ Pager /\ hasNextPage(view)
  /\ view' = [view EXCEPT !.tokens = Append(@, view.next), !.pending = 0,
                          !.dirty = TRUE, !.shownAt = NotShown]
  /\ Event

goPrev ==
  /\ Pager /\ ~onFirstPage(view)
  /\ view' = [view EXCEPT !.tokens = SubSeq(@, 1, Len(@) - 1), !.pending = 0,
                          !.dirty = TRUE, !.shownAt = NotShown]
  /\ Event

reload ==
  /\ ~view.loading /\ ~view.busy /\ view.sel # NoPreset
  /\ view' = [view EXCEPT !.dirty = TRUE]
  /\ Event

-----------------------------------------------------------------------------
(* The form and the two-step delete.                                       *)

Local == UNCHANGED <<toolVars, requests>>

IdOf(v, item) == IF Memories(v) THEN item.memory_id ELSE item.wiki_id
Rows(v)       == {IdOf(v, v.items[i]) : i \in DOMAIN v.items}

openCreate ==
  /\ view.form = "closed" /\ ~view.busy /\ ~view.loading /\ view.sel # NoPreset
  /\ view' = [view EXCEPT !.form = "create", !.detail = 0, !.pending = 0,
                          !.error = FALSE]
  /\ Event

\* MemoryView edits the row it shows; WikiView fetches the entry first.
openEdit ==
  /\ Memories(view) /\ view.form = "closed" /\ ~view.busy
  /\ \E id \in Rows(view) :
       view' = [view EXCEPT !.form = "edit", !.target = id, !.pending = 0,
                            !.error = FALSE]
  /\ Event

closeForm ==
  /\ view.form # "closed" /\ ~view.busy
  /\ view' = [view EXCEPT !.form = "closed", !.target = 0, !.error = FALSE]
  /\ Local

askDelete ==
  /\ view.form = "closed" /\ ~view.busy
  /\ \E id \in Rows(view) \cup {0} :
       id # view.pending /\ view' = [view EXCEPT !.pending = id]
  /\ Event

\* A request of the view that is not a list: busy until it is answered.
Send(v, op) ==
  /\ view' = [v EXCEPT !.busy = TRUE, !.op = op]
  /\ Event

startEdit ==
  /\ ~Memories(view) /\ view.form = "closed" /\ ~view.busy
  /\ \E id \in Rows(view), kind \in {"fetch", "open"} :
       Send(view, [kind |-> kind, id |-> id])

\* save(): nothing is sent for a blank draft; an oversize one is an error.
SaveMemory ==
  /\ Memories(view) /\ view.form # "closed" /\ ~view.busy
  /\ \E c \in Drafts :
       Send(view, [kind |-> view.form, sel |-> view.sel,
                   id |-> IF view.form = "create" THEN memoryIdForContent(c)
                          ELSE view.target,
                   content |-> c, token |-> currentToken(view)])

SaveOversize ==
  /\ Memories(view) /\ view.form # "closed" /\ ~view.busy /\ ~view.error
  /\ view' = [view EXCEPT !.error = TRUE]
  /\ Local

\* An edit that changes nothing closes the form; otherwise the update mask
\* names the fields that differ from the entry the form was opened with.
SaveWiki ==
  /\ ~Memories(view) /\ view.form # "closed" /\ ~view.busy
  /\ \E t \in Titles, c \in Drafts :
       IF view.form = "edit" /\ t = view.target.title /\ c = view.target.content
         THEN /\ view' = [view EXCEPT !.form = "closed", !.target = 0, !.error = FALSE]
              /\ Local
         ELSE Send(view, [kind |-> view.form,
                          id |-> IF view.form = "create" THEN wikiIdForTitle(t)
                                 ELSE view.target.wiki_id,
                          was |-> view.target, title |-> t, content |-> c,
                          sel |-> view.sel, token |-> currentToken(view)])

confirmDelete ==
  /\ view.pending # 0 /\ ~view.busy /\ view.form = "closed"
  /\ Send(view, [kind |-> "delete", id |-> view.pending, sel |-> view.sel,
                 content |-> 0, token |-> currentToken(view)])

\* What the service answers to the view's write.
WebReply(op) ==
  IF Memories(view)
    THEN MemoryWrite(mem[op.sel], [op EXCEPT !.kind =
                       IF @ = "edit" THEN "update" ELSE @], clock + 1)
  ELSE IF op.kind = "create" THEN createWiki(wikis, op.id, op.title, op.content)
  ELSE IF op.kind = "delete" THEN deleteWiki(wikis, op.id)
  ELSE updateWiki(wikis, op.id, op, {f \in {"title", "content"} : op[f] # op.was[f]})

Store(op, coll) ==
  IF Memories(view) THEN mem' = [mem EXCEPT ![op.sel] = coll] /\ UNCHANGED wikis
  ELSE wikis' = coll /\ UNCHANGED mem

Done(v) == [v EXCEPT !.op = NoOp, !.form = "closed", !.target = 0]

\* A new entry the search does not match: browse, so that it is seen.
HiddenBySearch(v, op) ==
  ~Memories(v) /\ op.kind = "create" /\ v.sel # 0 /\ Norm[op.title] \notin Within[v.sel]

\* The rest of save() once its request is answered.
SaveAnswered(op, code) ==
  IF code = "OK" THEN
    (IF HiddenBySearch(view, op)
       THEN /\ view' = [Done(view) EXCEPT !.busy = FALSE, !.sel = 0,
                                          !.tokens = <<0>>, !.dirty = TRUE,
                                          !.error = FALSE]
            /\ UNCHANGED requests
       ELSE Refresh([Done(view) EXCEPT !.error = Memories(view) /\ @],
                    op.sel, op.token, "saved"))
  ELSE IF code = "NOT_FOUND" /\ op.kind # "create"
    THEN Refresh(Done(view), op.sel, op.token, "gone")
  ELSE /\ view' = [view EXCEPT !.op = NoOp, !.busy = FALSE, !.error = TRUE]
       /\ UNCHANGED requests

\* The rest of confirmDelete(): the list is fetched whatever the answer was.
DeleteAnswered(op, code) ==
  Refresh([view EXCEPT !.op = NoOp, !.pending = 0, !.busy = FALSE,
                       !.detail = IF @ = op.id THEN 0 ELSE @],
          op.sel, op.token, IF code = "OK" THEN "deleted" ELSE "undeleted")

Answered(op, code) ==
  IF op.kind = "delete" THEN DeleteAnswered(op, code) ELSE SaveAnswered(op, code)

IsWrite(op) == op.kind \in {"create", "edit", "delete"}

WriteServed ==
  /\ IsWrite(view.op)
  /\ clock < MaxWrites
  /\ LET r == WebReply(view.op)
     IN Store(view.op, r.coll) /\ Answered(view.op, r.code)
  /\ clock' = clock + 1
  /\ Disturb(Agents)
  /\ UNCHANGED <<agent, events, start, log>>

WriteFails ==
  /\ IsWrite(view.op)
  /\ Spend
  /\ Answered(view.op, "UNAVAILABLE")
  /\ UNCHANGED <<mem, wikis, clock, agent, start, log, disturbed>>

\* getWiki for the detail panel or the edit form.
WikiFetched ==
  /\ view.op.kind \in {"open", "fetch"}
  /\ view' = LET v    == [view EXCEPT !.busy = FALSE, !.op = NoOp]
                 hits == {w \in wikis : w.wiki_id = view.op.id}
                 shut == [v EXCEPT !.pending = 0, !.error = FALSE]
             IN IF hits = {} THEN [v EXCEPT !.error = TRUE]
                ELSE IF view.op.kind = "open"
                  THEN [shut EXCEPT !.detail = view.op.id]
                  ELSE [shut EXCEPT !.form = "edit", !.detail = 0,
                                    !.target = CHOOSE w \in hits : TRUE]
  /\ Local

ViewNext ==
  \/ RefreshEffect \/ ServeList \/ LandList \/ ListFails
  \/ selectPreset \/ submitSearch \/ goNext \/ goPrev \/ reload
  \/ openCreate \/ openEdit \/ closeForm \/ askDelete \/ startEdit
  \/ SaveMemory \/ SaveOversize \/ SaveWiki \/ confirmDelete
  \/ WriteServed \/ WriteFails \/ WikiFetched

ViewInit ==
  /\ view \in {MountedView("memory"), MountedView("wiki")}
  /\ requests = {}

=============================================================================
