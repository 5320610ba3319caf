-------------------------------- MODULE Chat --------------------------------
(***************************************************************************)
(* One chat panel of the web client against one team: the member's turns    *)
(* write frames to every attached Send stream, each stream reaches the      *)
(* browser at its own pace and may break, and the panel folds the frames of *)
(* all of them and the answers of its List calls into one store.            *)
(*                                                                          *)
(* history.ts is TurnHistory, store/chat.ts is ChatStore; this module is    *)
(* session.ts as far as it writes streams, api/conversation.ts, and the     *)
(* sends and backfills of App.tsx.                                          *)
(***************************************************************************)
EXTENDS TurnHistory, FiniteSets

CONSTANTS
    MaxSends,    \* the user sends at most this often
    MaxSteps,    \* steps of one turn
    Parts,       \* deltas of one block
    MaxLag,      \* frames of one stream on their way to the browser
    ToolTurns,   \* turns whose steps call a tool
    MaxFaults    \* connections, List calls and turns that fail, and cancels

ASSUME ChatAssumption ==
    /\ MaxSends \in Nat \ {0} /\ MaxSteps \in Nat \ {0} /\ MaxLag \in Nat
    /\ Parts \in Nat /\ ToolTurns \subseteq Nat /\ MaxFaults \in Nat

VARIABLES
    h,           \* the team's history (TurnHistory)
    inbox,       \* inputs submitted and not read by the member
    paused,      \* the loop rests until the next input
    stop,        \* the turn is cancelled
    st,          \* a Send stream: idle, asked, open, ended (by the server), done
    pipe,        \* its frames on their way
    store,       \* the client's ChatState
    sendTexts,   \* texts of the sends whose stream has brought no frame
    started,     \* streams that have consumed their text
    activeStream,
    asked,       \* how many List calls of each kind the server has not answered
    answers,     \* the answers on their way, each with what it shows
    sentSince,   \* sentSinceBackfill
    hadLive,     \* the panel has rendered a live turn
    faults,      \* failures and cancels so far
    broken,      \* a stream or a List call has failed
    raced,       \* a backfill was asked for with another stream on
    overlapped   \* a backfill was asked for before an earlier one had landed

server == <<h, inbox, paused, stop>>
client == <<store, sendTexts, started, activeStream, sentSince, hadLive>>
asks == <<asked, answers>>
bounds == <<faults, broken, raced, overlapped>>
vars == <<h, inbox, paused, stop, st, pipe, store, sendTexts, started, activeStream, asked,
          answers, sentSince, hadLive, faults, broken, raced, overlapped>>

Member == "player"
Streams == 1..MaxSends
Text(s) == <<s>>

S == INSTANCE ChatStore

\* ListTeamMessages and ListMemberMessages
Lists == {"team", "member"}
Outstanding(l) == asked[l] > 0 \/ answers[l] # <<>>
Ask(l) == asked' = [asked EXCEPT ![l] = @ + 1] /\ UNCHANGED answers

\* The panel has mounted on a team that has no history yet, and the lists it
\* asked for then have landed.
Init ==
    /\ h = EmptyHistory /\ inbox = <<>> /\ paused = FALSE /\ stop = FALSE
    /\ st = [s \in Streams |-> "idle"] /\ pipe = [s \in Streams |-> <<>>]
    /\ store = S!EMPTY_STATE /\ sendTexts = <<>> /\ started = {} /\ activeStream = 0
    /\ asked = [l \in Lists |-> 0] /\ answers = [l \in Lists |-> <<>>]
    /\ sentSince = FALSE /\ hadLive = FALSE
    /\ faults = 0 /\ broken = FALSE /\ raced = FALSE /\ overlapped = FALSE

-----------------------------------------------------------------------------
(* The server: what the member does, and the streams it writes to.           *)

\* writeAll: every attached stream gets the frames.
WriteAll(frames) ==
    /\ \A s \in Streams : st[s] = "open" => Len(pipe[s]) + Len(frames) <= MaxLag
    /\ pipe' = [s \in Streams |-> IF st[s] = "open" THEN pipe[s] \o frames ELSE pipe[s]]

\* An event of the agent.
Event(done) ==
    /\ h' = done.h
    /\ WriteAll(done.frames)
    /\ UNCHANGED <<st, client, asks, bounds>>

InTurn == h.turn.turnId # 0
InStep == InTurn /\ h.turn.streamed # <<>>
BetweenSteps == InTurn /\ h.turn.streamed = <<>> /\ ~h.turn.tool
HasRead == h.turn.step > 0 \/ (h.view # <<>> /\ Last(h.view).sender = USER)

\* send: the receipt if a turn is on, to this stream alone; the stream is
\* attached, the input recorded and submitted.
Accept(s) ==
    LET done == AppendUser(h, Text(s))
        receipt == IF InTurn THEN <<[k |-> "queued"]>> ELSE <<>>
    IN  /\ st[s] = "asked"
        /\ \A t \in Streams : st[t] = "open" => Len(pipe[t]) < MaxLag
        /\ h' = done.h
        /\ st' = [st EXCEPT ![s] = "open"]
        /\ pipe' = [t \in Streams |-> IF t = s THEN receipt \o done.frames
                                      ELSE IF st[t] = "open" THEN pipe[t] \o done.frames ELSE pipe[t]]
        /\ inbox' = Append(inbox, Text(s)) /\ paused' = FALSE
        /\ UNCHANGED <<stop, client, asks, bounds>>

StartTurn ==
    /\ ~InTurn /\ inbox # <<>> /\ ~paused
    /\ Event(EnsureActive(h, Member))
    /\ UNCHANGED <<inbox, paused, stop>>

ReadInput ==
    /\ BetweenSteps /\ ~stop /\ inbox # <<>>
    /\ Event(AppendMemberViewUser(h, Member, Head(inbox)))
    /\ inbox' = Tail(inbox) /\ UNCHANGED <<paused, stop>>

BlockStart ==
    /\ BetweenSteps /\ HasRead /\ ~h.turn.failed /\ ~stop /\ h.turn.step < MaxSteps
    /\ Event(OnBlockStart(h, Member, h.turn.turnId \in ToolTurns))
    /\ UNCHANGED <<inbox, paused, stop>>

Delta ==
    /\ InStep /\ ~h.turn.said /\ ~h.turn.failed /\ ~stop /\ Len(h.turn.streamed[1].body) < Parts
    /\ Event(OnDelta(h, Member))
    /\ UNCHANGED <<inbox, paused, stop>>

BlockEnd ==
    /\ InStep /\ ~h.turn.said /\ ~h.turn.failed /\ ~stop /\ Len(h.turn.streamed[1].body) = Parts
    /\ Event(OnBlockEnd(h, Member))
    /\ UNCHANGED <<inbox, paused, stop>>

\* The agent logs the step: complete, or of a cancelled one the streamed prefix
\* or nothing.
Message ==
    /\ InStep /\ ~h.turn.failed
    /\ \/ h.turn.said /\ Event(OnMessage(h, Member, h.turn.streamed, FALSE))
       \/ ~h.turn.said /\ stop /\ \E content \in {h.turn.streamed, <<>>} :
                                     Event(OnMessage(h, Member, content, TRUE))
    /\ UNCHANGED <<inbox, paused, stop>>

ToolResult ==
    /\ InTurn /\ h.turn.streamed = <<>> /\ h.turn.tool
    /\ Event(OnToolResult(h, Member, IF stop THEN "ERROR" ELSE "OK"))
    /\ UNCHANGED <<inbox, paused, stop>>

\* The model's stream fails within a step, or before one.
TurnFails ==
    /\ InTurn /\ ~stop /\ ~h.turn.failed /\ ~h.turn.said /\ (InStep \/ BetweenSteps)
    /\ faults < MaxFaults /\ faults' = faults + 1
    /\ h' = RecordFailure(h)
    /\ UNCHANGED <<inbox, paused, stop, st, pipe, client, asks, broken, raced, overlapped>>

\* A turn ends after a step, with its failure, or cancelled.
TurnEnds ==
    /\ InTurn
    /\ (BetweenSteps /\ (h.turn.step > 0 \/ stop)) \/ h.turn.failed
    /\ Event(OnIdle(h, Member, stop))
    /\ paused' = (h.turn.failed \/ stop) /\ stop' = FALSE
    /\ UNCHANGED inbox

\* cancel: the running turn is told to stop.
Cancel ==
    /\ InTurn /\ ~stop /\ ~h.turn.failed
    /\ faults < MaxFaults /\ faults' = faults + 1
    /\ stop' = TRUE
    /\ UNCHANGED <<h, inbox, paused, st, pipe, client, asks, broken, raced, overlapped>>

\* The team is at rest: every stream ends.
Quiesce ==
    /\ ~InTurn /\ (inbox = <<>> \/ paused)
    /\ \E s \in Streams : st[s] = "open"
    /\ st' = [s \in Streams |-> IF st[s] = "open" THEN "ended" ELSE st[s]]
    /\ UNCHANGED <<server, pipe, client, asks, bounds>>

\* The server answers a List call with what it has now.
Answer(l) ==
    /\ asked[l] > 0
    /\ asked' = [asked EXCEPT ![l] = @ - 1]
    /\ answers' = [answers EXCEPT ![l] = Append(@, IF l = "team" THEN h.merge ELSE h.view)]
    /\ UNCHANGED <<server, st, pipe, client, bounds>>

\* The request or its answer is lost: the client shows an error and its lists
\* stay as they are.
AnswerLost(l) ==
    /\ asked[l] > 0
    /\ asked' = [asked EXCEPT ![l] = @ - 1]
    /\ faults < MaxFaults /\ faults' = faults + 1 /\ broken' = TRUE
    /\ UNCHANGED <<server, st, pipe, client, answers, raced, overlapped>>

-----------------------------------------------------------------------------
(* The client.                                                               *)

\* onSend and the head of ChatStore.send
Send ==
    LET s == activeStream + 1
    IN  /\ s \in Streams
        /\ st' = [st EXCEPT ![s] = "asked"]
        /\ activeStream' = s /\ sendTexts' = Append(sendTexts, Text(s)) /\ sentSince' = TRUE
        /\ UNCHANGED <<server, pipe, store, started, asks, hadLive, bounds>>

\* The body of the loop over the frames; the first one takes the text.
Deliver(s) ==
    LET f == Head(pipe[s])
        text == IF sendTexts = <<>> THEN <<>> ELSE Head(sendTexts)
    IN  /\ pipe[s] # <<>>
        /\ pipe' = [pipe EXCEPT ![s] = Tail(@)]
        /\ store' = S!ReduceEvent(store, f, text, s)
        /\ IF s \in started THEN UNCHANGED <<sendTexts, started>>
           ELSE /\ started' = started \cup {s}
                /\ sendTexts' = IF sendTexts = <<>> THEN <<>> ELSE Tail(sendTexts)
        /\ hadLive' = (hadLive \/ store'.live # <<>>)
        /\ UNCHANGED <<server, st, activeStream, asks, sentSince, bounds>>

\* A stream is over: the newest one closes the drafts, another only gives up
\* its blocks; an error of the store asks for the team's sequence, whatever was
\* asked for before.
StreamOver(s, failed) ==
    LET newest == activeStream = s
        closed == IF newest THEN S!ClosePendingTurns(store) ELSE S!ReleaseStreamOwnership(store, s)
        left == [closed EXCEPT !.error = @ \/ (failed /\ newest)]
    IN  /\ store' = left
        /\ st' = [st EXCEPT ![s] = "done"] /\ pipe' = [pipe EXCEPT ![s] = <<>>]
        /\ started' = started \cup {s}
        /\ sendTexts' = IF s \in started \/ sendTexts = <<>> THEN sendTexts ELSE Tail(sendTexts)
        /\ IF left.error
           THEN /\ Ask("team") /\ sentSince' = FALSE
                /\ raced' = (raced \/ \E t \in Streams \ {s} : st[t] \in {"asked", "open", "ended"})
                /\ overlapped' = (overlapped \/ Outstanding("team"))
           ELSE UNCHANGED <<asks, sentSince, raced, overlapped>>
        /\ UNCHANGED <<server, activeStream, hadLive>>

StreamEnds(s) ==
    /\ st[s] = "ended" /\ pipe[s] = <<>>
    /\ StreamOver(s, FALSE)
    /\ UNCHANGED <<faults, broken>>

\* The connection fails, before the stream opened or with frames on their way.
StreamBreaks(s) ==
    /\ st[s] \in {"asked", "open", "ended"}
    /\ faults < MaxFaults /\ faults' = faults + 1 /\ broken' = TRUE
    /\ StreamOver(s, TRUE)

\* The answers of one kind land in any order.
Lands(l, i) ==
    /\ answers' = [answers EXCEPT ![l] = RemoveAt(@, i)]
    /\ UNCHANGED <<server, st, pipe, sendTexts, started, activeStream, asked, sentSince, hadLive, bounds>>

\* runBackfill: the answer yields to a send that came after the last question.
TeamAnswerLands ==
    \E i \in DOMAIN answers["team"] :
       /\ store' = IF sentSince THEN store ELSE S!LoadHistory(store, answers["team"][i])
       /\ Lands("team", i)

\* runMemberBackfill
MemberAnswerLands ==
    \E i \in DOMAIN answers["member"] :
       /\ store' = S!LoadMemberHistory(store, answers["member"][i])
       /\ Lands("member", i)

\* The effect on state.live: once the live turns are over, the member's view
\* is asked for.
LiveOver ==
    /\ store.live = <<>> /\ hadLive
    /\ hadLive' = FALSE /\ Ask("member")
    /\ UNCHANGED <<server, st, pipe, store, sendTexts, started, activeStream, sentSince, bounds>>

-----------------------------------------------------------------------------

Over == \A s \in Streams : st[s] \in {"idle", "done"}
Resting == Over /\ ~(\E l \in Lists : Outstanding(l)) /\ ~(hadLive /\ store.live = <<>>)
Finished ==
    /\ Resting /\ ~InTurn /\ activeStream = MaxSends
    /\ UNCHANGED vars

ServerStep ==
    \/ StartTurn \/ ReadInput \/ BlockStart \/ Delta \/ BlockEnd \/ Message \/ ToolResult \/ TurnEnds \/ Quiesce
    \/ \E s \in Streams : Accept(s)
    \/ \E l \in Lists : Answer(l)
ClientStep ==
    \/ \E s \in Streams : Deliver(s) \/ StreamEnds(s)
    \/ TeamAnswerLands \/ MemberAnswerLands \/ LiveOver

Next ==
    \/ ServerStep \/ ClientStep \/ Send \/ Cancel \/ TurnFails
    \/ \E s \in Streams : StreamBreaks(s)
    \/ \E l \in Lists : AnswerLost(l)
    \/ Finished

\* The server's and the client's loops run on; that the user sends, cancels or
\* a connection fails is not promised.
Spec == Init /\ [][Next]_vars /\ WF_vars(ServerStep) /\ WF_vars(ClientStep)

-----------------------------------------------------------------------------
(* Properties.                                                               *)

\* The state's shape; as many texts wait as streams have brought no frame, so
\* that a stream that failed before its first leaves none behind.
ChatTypeOK ==
    /\ st \in [Streams -> {"idle", "asked", "open", "ended", "done"}]
    /\ \A s \in Streams : Len(pipe[s]) <= MaxLag + 2
    /\ started \subseteq Streams /\ activeStream \in 0..MaxSends
    /\ Len(sendTexts) = Cardinality(1..activeStream \ started)
    /\ asked \in [Lists -> Nat]

\* A message of the client is the server's but for a call whose result is on
\* its way.
Same(mine, theirs) ==
    /\ mine.id = theirs.id /\ mine.interrupted = theirs.interrupted
    /\ Len(mine.blocks) = Len(theirs.blocks)
    /\ \A b \in DOMAIN mine.blocks :
          \/ mine.blocks[b] = theirs.blocks[b]
          \/ /\ mine.blocks[b].status = "RUNNING"
             /\ [mine.blocks[b] EXCEPT !.status = theirs.blocks[b].status] = theirs.blocks[b]

Real == {i \in DOMAIN store.history : ~store.history[i].projected}

\* Whatever the streams' pace, breaks and backfills, every message of the
\* team's sequence the client shows as recorded is the one the server has
\* under that number, and it is shown once.
EntriesExact ==
    /\ \A i \in Real :
          LET e == store.history[i]
          IN  /\ e.seq \in 1..Len(h.merge)
              /\ e.member = h.merge[e.seq].member
              /\ Same(e.message, h.merge[e.seq].message)
    /\ \A i, j \in Real : store.history[i].seq = store.history[j].seq => i = j

Complete ==
    \A n \in DOMAIN h.merge :
       \E i \in Real : store.history[i].seq = n /\ store.history[i].message = h.merge[n].message

Drained == Resting /\ ~InTurn /\ ~broken

\* When every stream has been read to its end and every list it asked for came,
\* the client has every message of the team, each with the result of its call,
\* unless a backfill was asked for while another stream was on, or before an
\* earlier one had landed.
DrainedComplete == Drained /\ ~raced /\ ~overlapped => Complete

\* What App.tsx says of the backfill: it does not overwrite a turn that
\* started before the answer came, with another stream on (ChatBackfill.cfg),
\* or with an older backfill under way (ChatOverlap.cfg).
BackfillYields == Drained /\ ~overlapped => Complete
NewestAnswerWins == Drained /\ ~raced => Complete

\* Each entry of the client's member view is one of the server's, and it stands
\* there once, though its frame comes on every stream and in every answer.
ViewExact ==
    \A i \in DOMAIN store.memberHistory : ~store.memberHistory[i].projected =>
        /\ \E n \in DOMAIN h.view : Same(store.memberHistory[i].message, h.view[n].message)
        /\ \A j \in DOMAIN store.memberHistory :
              store.memberHistory[j].message.id = store.memberHistory[i].message.id => i = j

ViewIds == {store.memberHistory[i].message.id : i \in DOMAIN store.memberHistory} \ {0}

\* An answer that is older than what a stream has brought takes nothing away.
ViewNeverLoses == [][ViewIds \subseteq ViewIds']_vars

\* An entry is marked open only while a turn of its member is live.
OpenOnlyWhileLive ==
    (\E i \in DOMAIN store.history : store.history[i].open)
        => \E t \in DOMAIN store.live : store.live[t].member = Member

\* While the newest stream is on, no draft is shown as running for ever: the
\* turn ends, or the end of that stream closes it.
DraftsEnd == (store.live # <<>> /\ st[activeStream] # "done") ~> store.live = <<>>

\* What the panel shows as recorded is what the server recorded, once, in both
\* lists, and a late answer takes nothing away.
ShownIsRecorded == []ChatTypeOK /\ []EntriesExact /\ []ViewExact /\ ViewNeverLoses

\* Nothing is shown as running for ever, though a stream may break in a turn.
NothingStaysOpen == []OpenOnlyWhileLive /\ DraftsEnd
=============================================================================
