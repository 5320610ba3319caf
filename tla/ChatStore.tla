----------------------------- MODULE ChatStore -----------------------------
(***************************************************************************)
(* The chat store of the web client (store/chat.ts): the reducer from the   *)
(* frames of the team streams to the state the views render, and the two    *)
(* backfills.  Messages are those of TurnHistory.                           *)
(***************************************************************************)
EXTENDS Naturals, Sequences, FiniteSets, SequencesExt

\* TeamMessageEntry: a placeholder has no seq of the server's, here 0, and no
\* messageId, here 0.
TeamMessageEntry(member, seq, message, projected, open) ==
    [member |-> member, seq |-> seq, message |-> message, projected |-> projected, open |-> open]

\* MemberViewEntry
MemberViewEntry(sender, message, projected, open) ==
    [sender |-> sender, message |-> message, projected |-> projected, open |-> open]

\* LiveMemberTurn; owners holds [step, index, by].
LiveMemberTurn(member, turnId) ==
    [member |-> member, turnId |-> turnId, steps |-> <<>>, fixedSteps |-> 0, owners |-> {}]

EMPTY_STATE ==
    [history |-> <<>>, memberHistory |-> <<>>, live |-> <<>>, queue |-> <<>>,
     error |-> FALSE, canceled |-> FALSE]

-----------------------------------------------------------------------------
(* Blocks and steps of a live turn.                                          *)

\* claimBlock: the first stream that handles a block owns its deltas.
ClaimBlock(owners, step, index, stream) ==
    IF \E o \in owners : o.step = step /\ o.index = index THEN owners
    ELSE owners \cup {[step |-> step, index |-> index, by |-> stream]}

\* blockStartDraft
BlockStartDraft(f) ==
    [index |-> f.index, kind |-> IF f.tool = <<0, 0>> THEN "text" ELSE "tool", body |-> <<>>,
     tool |-> f.tool, status |-> IF f.tool = <<0, 0>> THEN "none" ELSE "RUNNING"]

\* liveBlocksToContentBlocks
ContentOf(draft) ==
    [kind |-> draft.kind, body |-> draft.body, tool |-> draft.tool, status |-> draft.status]

\* blockEndTerminal: the end brings the block in full.
BlockEndTerminal(draft, block) ==
    [index |-> draft.index, kind |-> draft.kind, body |-> block.body, tool |-> block.tool,
     status |-> block.status]

\* settleDraft, and the block of an entry: only a running call settles.
Settled(b, tool, status) ==
    IF b.tool = tool /\ b.status = "RUNNING" THEN [b EXCEPT !.status = status] ELSE b

\* appendBlockStart: into its step, or a new step that settles those before;
\* a block that is there is left alone.
AppendBlockStart(steps, step, draft) ==
    IF \E i \in DOMAIN steps : steps[i].step = step
    THEN [i \in DOMAIN steps |->
            IF steps[i].step = step /\ \A j \in DOMAIN steps[i].blocks : steps[i].blocks[j].index # draft.index
            THEN [steps[i] EXCEPT !.blocks = Append(@, draft)] ELSE steps[i]]
    ELSE Append([i \in DOMAIN steps |-> [steps[i] EXCEPT !.settled = TRUE]],
                [step |-> step, blocks |-> <<draft>>, settled |-> FALSE])

Blocks(steps) == UNION {Range(steps[i].blocks) : i \in DOMAIN steps}

\* mapStepBlocks: the blocks of one step and index, mapped by the function map.
MapStepBlocks(steps, step, index, map) ==
    [i \in DOMAIN steps |->
        IF steps[i].step # step THEN steps[i]
        ELSE [steps[i] EXCEPT !.blocks =
                [j \in DOMAIN @ |-> IF @[j].index = index THEN map[@[j]] ELSE @[j]]]]

-----------------------------------------------------------------------------
(* The merged sequence and the member's view.                                *)

\* settleHistoryEntry, settleMemberHistory
SettleHistoryEntry(e, tool, status) ==
    [e EXCEPT !.message.blocks = [i \in DOMAIN @ |-> Settled(@[i], tool, status)]]

\* stepsToHistory: one message per step, the last one marked if interrupted.
StepsToHistory(steps, interrupted) ==
    [i \in DOMAIN steps |->
        [id |-> 0, blocks |-> [j \in DOMAIN steps[i].blocks |-> ContentOf(steps[i].blocks[j])],
         interrupted |-> interrupted /\ i = Len(steps)]]

FirstIndex(s, Test(_)) ==       \* findIndex, 0 for none
    LET found == {i \in DOMAIN s : Test(s[i])}
    IN  IF found = {} THEN 0 ELSE CHOOSE i \in found : \A j \in found : i <= j

\* insertBySeq
InsertBySeq(history, e) ==
    LET i == FirstIndex(history, LAMBDA x : x.seq > e.seq)
    IN  IF i = 0 THEN Append(history, e) ELSE InsertAt(history, i, e)

\* appendMemberInputView
AppendMemberInputView(view, message, sender) ==
    IF \E i \in DOMAIN view : view[i].message.id = message.id THEN view
    ELSE Append(view, MemberViewEntry(sender, message, FALSE, FALSE))

\* appendMemberView: the member's own output; it takes the first placeholder.
AppendMemberView(view, member, message, open) ==
    LET p == FirstIndex(view, LAMBDA x : x.projected)
        e == MemberViewEntry(member, message, FALSE, open /\ p = 0)
    IN  IF \E i \in DOMAIN view : view[i].message.id = message.id THEN view
        ELSE IF p = 0 THEN Append(view, e) ELSE [view EXCEPT ![p] = e]

\* clearMemberOpen, and clearEntryOpen of a whole view
ClearMemberOpen(history, member) ==
    [i \in DOMAIN history |->
        IF history[i].member = member THEN [history[i] EXCEPT !.open = FALSE] ELSE history[i]]
ClearOpen(view) == [i \in DOMAIN view |-> [view[i] EXCEPT !.open = FALSE]]

\* closeLiveTurn: what no team_message has brought yet is kept as placeholders.
CloseLiveTurn(st, i, interrupted) ==
    LET turn == st.live[i]
        tail == StepsToHistory(SubSeq(turn.steps, turn.fixedSteps + 1, Len(turn.steps)), interrupted)
    IN  [st EXCEPT
           !.live = RemoveAt(@, i),
           !.history = ClearMemberOpen(@, turn.member) \o
               [k \in DOMAIN tail |-> TeamMessageEntry(turn.member, 0, tail[k], TRUE, FALSE)],
           !.memberHistory = ClearOpen(@) \o
               [k \in DOMAIN tail |-> MemberViewEntry(turn.member, tail[k], TRUE, FALSE)]]

\* consumeFixedStep: the first turn of the member with a step to fix.
ConsumeFixedStep(live, member) ==
    LET i == FirstIndex(live, LAMBDA t : t.member = member /\ t.fixedSteps < Len(t.steps))
    IN  IF i = 0 THEN live ELSE [live EXCEPT ![i].fixedSteps = @ + 1]

\* consumeQueueText: the first chip with the text of the message.
ConsumeQueueText(queue, message) ==
    LET i == FirstIndex(queue, LAMBDA text : text = message.blocks[1].body)
    IN  IF i = 0 THEN queue ELSE RemoveAt(queue, i)

\* findLiveTurn
FindLiveTurn(st, f) == FirstIndex(st.live, LAMBDA t : t.member = f.member /\ t.turnId = f.turn)

-----------------------------------------------------------------------------
(* reduceEvent, one operator per kind of frame.                              *)

\* team_message: once per seq; into the first placeholder of the member, else
\* in seq order, marked open while the member has a live turn.
ReduceTeam(st, f) ==
    LET open == f.member # "user" /\ \E i \in DOMAIN st.live : st.live[i].member = f.member
        p == FirstIndex(st.history, LAMBDA e : e.projected /\ e.member = f.member)
    IN  IF \E i \in DOMAIN st.history : ~st.history[i].projected /\ st.history[i].seq = f.seq
        THEN st
        ELSE [st EXCEPT
               !.history = IF p # 0 THEN [@ EXCEPT ![p] = TeamMessageEntry(f.member, f.seq, f.message, FALSE, FALSE)]
                           ELSE InsertBySeq(@, TeamMessageEntry(f.member, f.seq, f.message, FALSE, open)),
               !.memberHistory = IF f.member = "user" THEN @
                                 ELSE AppendMemberView(@, f.member, f.message, open),
               !.live = ConsumeFixedStep(@, f.member)]

\* member_view: the input enters the view, and its chip goes.
ReduceView(st, f) ==
    [st EXCEPT !.memberHistory = AppendMemberInputView(@, f.message, f.sender),
               !.queue = IF f.sender = "user" THEN ConsumeQueueText(@, f.message) ELSE @]

\* turn_start: once per live turn.
ReduceStart(st, f) ==
    IF FindLiveTurn(st, f) # 0 THEN st
    ELSE [st EXCEPT !.live = Append(@, LiveMemberTurn(f.member, f.turn)),
                    !.error = FALSE, !.canceled = FALSE]

\* block_start
ReduceBlockStart(st, f, stream) ==
    LET i == FindLiveTurn(st, f)
    IN  IF i = 0 THEN st
        ELSE [st EXCEPT !.live[i].steps = AppendBlockStart(@, f.step, BlockStartDraft(f)),
                        !.live[i].owners = ClaimBlock(@, f.step, f.index, stream)]

\* delta: only from the stream that owns the block.
ReduceDelta(st, f, stream) ==
    LET i == FindLiveTurn(st, f)
        foreign == \E o \in st.live[i].owners : o.step = f.step /\ o.index = f.index /\ o.by # stream
    IN  IF i = 0 THEN st
        ELSE IF foreign THEN st
        ELSE [st EXCEPT !.live[i].steps =
                           MapStepBlocks(@, f.step, f.index,
                              [b \in Blocks(@) |-> [b EXCEPT !.body = Append(@, f.part)]]),
                        !.live[i].owners = ClaimBlock(@, f.step, f.index, stream)]

\* block_end
ReduceBlockEnd(st, f, stream) ==
    LET i == FindLiveTurn(st, f)
    IN  IF i = 0 THEN st
        ELSE [st EXCEPT !.live[i].steps =
                           MapStepBlocks(@, f.step, f.index,
                              [b \in Blocks(@) |-> BlockEndTerminal(b, f.block)]),
                        !.live[i].owners = ClaimBlock(@, f.step, f.index, stream)]

\* Mutant of ReduceTool: a call that is found in a live turn is not settled in
\* the sequences too.
ReduceToolOnce(st, f) ==
    LET running == \E t \in DOMAIN st.live : \E s \in DOMAIN st.live[t].steps :
                     \E b \in DOMAIN st.live[t].steps[s].blocks :
                        LET d == st.live[t].steps[s].blocks[b] IN d.tool = f.tool /\ d.status = "RUNNING"
    IN  [st EXCEPT
           !.live = [t \in DOMAIN @ |-> [@[t] EXCEPT !.steps =
                        [s \in DOMAIN @ |-> [@[s] EXCEPT !.blocks =
                            [b \in DOMAIN @ |-> Settled(@[b], f.tool, f.status)]]]]],
           !.history = IF running THEN @
                       ELSE [i \in DOMAIN @ |-> SettleHistoryEntry(@[i], f.tool, f.status)],
           !.memberHistory = IF running THEN @
                       ELSE [i \in DOMAIN @ |-> SettleHistoryEntry(@[i], f.tool, f.status)]]

\* tool_result: the call settles in the drafts and in both sequences.
ReduceTool(st, f) ==
    [st EXCEPT
       !.live = [t \in DOMAIN @ |-> [@[t] EXCEPT !.steps =
                    [s \in DOMAIN @ |-> [@[s] EXCEPT !.blocks =
                        [b \in DOMAIN @ |-> Settled(@[b], f.tool, f.status)]]]]],
       !.history = [i \in DOMAIN @ |-> SettleHistoryEntry(@[i], f.tool, f.status)],
       !.memberHistory = [i \in DOMAIN @ |-> SettleHistoryEntry(@[i], f.tool, f.status)]]

\* turn_end
ReduceEnd(st, f) ==
    LET i == FindLiveTurn(st, f)
        closed == IF i = 0 THEN st ELSE CloseLiveTurn(st, i, f.status # "COMPLETED")
    IN  CASE f.status = "COMPLETED" -> closed
          [] f.status = "ERROR"     -> [closed EXCEPT !.error = TRUE]
          [] f.status = "CANCELED"  -> [closed EXCEPT !.queue = <<>>, !.canceled = TRUE]

ReduceEvent(st, f, queuedText, stream) ==
    CASE f.k = "queued" -> [st EXCEPT !.queue = Append(@, queuedText)]
      [] f.k = "team"   -> ReduceTeam(st, f)
      [] f.k = "view"   -> ReduceView(st, f)
      [] f.k = "start"  -> ReduceStart(st, f)
      [] f.k = "bstart" -> ReduceBlockStart(st, f, stream)
      [] f.k = "delta"  -> ReduceDelta(st, f, stream)
      [] f.k = "bend"   -> ReduceBlockEnd(st, f, stream)
      [] f.k = "tool"   -> ReduceTool(st, f)
      [] f.k = "end"    -> ReduceEnd(st, f)

-----------------------------------------------------------------------------
(* Backfills and the end of a stream.                                        *)

\* loadHistory: the merged sequence is replaced, drafts and queue go.
LoadHistory(st, merge) ==
    [st EXCEPT
       !.history = [i \in DOMAIN merge |->
                      TeamMessageEntry(merge[i].member, i, merge[i].message, FALSE, FALSE)],
       !.memberHistory = ClearOpen(@), !.live = <<>>, !.queue = <<>>,
       !.error = FALSE, !.canceled = FALSE]

\* Mutant of LoadMemberHistory: the answer replaces the view.
LoadMemberHistoryOver(st, view) ==
    [st EXCEPT !.memberHistory =
        [i \in DOMAIN view |-> MemberViewEntry(view[i].sender, view[i].message, FALSE, FALSE)]]

\* loadMemberHistory: the server's view, then the local entries it lacks.
LoadMemberHistory(st, view) ==
    LET ids == {view[i].message.id : i \in DOMAIN view}
    IN  [st EXCEPT !.memberHistory =
           [i \in DOMAIN view |-> MemberViewEntry(view[i].sender, view[i].message, FALSE, FALSE)]
             \o SelectSeq(@, LAMBDA e : ~e.projected /\ e.message.id \notin ids)]

\* releaseStreamOwnership
ReleaseStreamOwnership(st, stream) ==
    [st EXCEPT !.live = [t \in DOMAIN @ |-> [@[t] EXCEPT !.owners = {o \in @ : o.by # stream}]]]

\* Mutant of ClosePendingTurns: the drafts stay.
KeepPendingTurns(st) == st

\* closePendingTurns: every draft, the oldest first.
ClosePendingTurns(st) ==
    FoldLeft(LAMBDA acc, t : CloseLiveTurn(acc, 1, TRUE), st, st.live)
=============================================================================
