---------------------------- MODULE TurnHistory ----------------------------
(***************************************************************************)
(* The history of a team and the collector of its member's turns           *)
(* (agent_v2/src/history.ts): the server's record h and, for every event of *)
(* the agent, the record after it and the frames it writes to the streams.  *)
(*                                                                          *)
(* A text is a sequence of parts, so that a part lost or applied twice       *)
(* shows; what a part says is left out.  The tool call of a block is named   *)
(* by the turn and the step that made it.                                    *)
(***************************************************************************)
EXTENDS Naturals, Sequences, SequencesExt

USER == "user"

NoTool == <<0, 0>>

\* ContentBlock: text and reasoning carry no status, a tool call runs first.
ContentBlock(kind, body, tool) ==
    [kind |-> kind, body |-> body, tool |-> tool,
     status |-> IF kind = "tool" THEN "RUNNING" ELSE "none"]

\* HistoryMessage, TeamMergeEntry (its seq is its place) and MemberViewEntry.
HistoryMessage(id, blocks, interrupted) ==
    [id |-> id, blocks |-> blocks, interrupted |-> interrupted]
TeamMergeEntry(member, message) == [member |-> member, message |-> message]
MemberViewEntry(sender, message) == [sender |-> sender, message |-> message]

\* ActiveMemberTurn; no turn is on when turnId is 0.  What the agent has
\* streamed of its step's block, and whether it said the block's end, is kept
\* beside pending, the prefix the collector carries.
NoTurn == [turnId |-> 0, step |-> 0, pending |-> <<>>, index |-> 0, failed |-> FALSE,
           tool |-> FALSE, streamed |-> <<>>, said |-> FALSE]

\* TeamHistory with the collector of its one member.
EmptyHistory == [merge |-> <<>>, view |-> <<>>, nextMessageId |-> 1, turn |-> NoTurn, turns |-> 0]

\* What an event leaves behind: the history and the frames written.
Done(h, frames) == [h |-> h, frames |-> frames]

-----------------------------------------------------------------------------
(* TeamHistory                                                               *)

NewMessage(h, blocks, interrupted) == HistoryMessage(h.nextMessageId, blocks, interrupted)

TeamFrame(member, seq, message) ==
    [k |-> "team", member |-> member, seq |-> seq, message |-> message]
ViewFrame(member, sender, message) ==
    [k |-> "view", member |-> member, sender |-> sender, message |-> message]

\* appendMerge
AppendMerge(h, member, message) ==
    Done([h EXCEPT !.merge = Append(@, TeamMergeEntry(member, message)), !.nextMessageId = @ + 1],
         <<TeamFrame(member, Len(h.merge) + 1, message)>>)

\* appendUser, at acceptance.
AppendUser(h, text) ==
    AppendMerge(h, USER, NewMessage(h, <<ContentBlock("text", text, NoTool)>>, FALSE))

\* appendMemberOutput: the merged sequence and the member's own view.
AppendMemberOutput(h, member, blocks, interrupted) ==
    LET message == NewMessage(h, blocks, interrupted)
        merged == AppendMerge(h, member, message)
    IN  IF blocks = <<>> THEN Done(h, <<>>)
        ELSE [merged EXCEPT !.h.view = Append(@, MemberViewEntry(member, message))]

\* appendMemberViewUser: the member has read an input.
AppendMemberViewUser(h, member, text) ==
    LET message == NewMessage(h, <<ContentBlock("text", text, NoTool)>>, FALSE)
    IN  Done([h EXCEPT !.view = Append(@, MemberViewEntry(USER, message)), !.nextMessageId = @ + 1],
             <<ViewFrame(member, USER, message)>>)

\* settleToolResult: the newest block of the call that is still running; the
\* two projections share the message.
SettleBlock(b, tool, status) ==
    IF b.tool = tool /\ b.status = "RUNNING" THEN [b EXCEPT !.status = status] ELSE b
SettleEntry(e, tool, status) ==
    [e EXCEPT !.message.blocks = [i \in DOMAIN @ |-> SettleBlock(@[i], tool, status)]]
SettleToolResult(h, tool, status) ==
    [h EXCEPT !.merge = [i \in DOMAIN @ |-> SettleEntry(@[i], tool, status)],
              !.view = [i \in DOMAIN @ |-> SettleEntry(@[i], tool, status)]]

-----------------------------------------------------------------------------
(* MemberCollector: one operator per event of the agent.                     *)

MemberFrame(h, member, k) == [k |-> k, member |-> member, turn |-> h.turn.turnId]
BlockFrame(h, member, k) ==
    [k |-> k, member |-> member, turn |-> h.turn.turnId, step |-> h.turn.step,
     index |-> h.turn.index]
ToolOf(turn) == IF turn.tool THEN <<turn.turnId, turn.step>> ELSE NoTool

\* ensureActive, on the running transition.
EnsureActive(h, member) ==
    LET h2 == [h EXCEPT !.turn = [NoTurn EXCEPT !.turnId = h.turns + 1], !.turns = @ + 1]
    IN  Done(h2, <<MemberFrame(h2, member, "start")>>)

\* enterStep: a new step drops the pending prefix.
EnterStep(h) == [h EXCEPT !.turn.step = @ + 1, !.turn.pending = <<>>, !.turn.said = FALSE]

\* onChunk, block-start of the next step's block, a text or a tool call: only a
\* frame.
OnBlockStart(h, member, tool) ==
    LET h2 == [EnterStep(h) EXCEPT !.turn.index = @ + 1, !.turn.tool = tool,
                  !.turn.streamed = <<ContentBlock(IF tool THEN "tool" ELSE "text", <<>>,
                                       IF tool THEN <<h.turn.turnId, h.turn.step + 1>> ELSE NoTool)>>]
    IN  Done(h2, <<BlockFrame(h2, member, "bstart") @@ [tool |-> ToolOf(h2.turn)]>>)

\* onChunk, delta: a text opens the pending prefix or grows it, the arguments
\* of a tool call do not.
OnDelta(h, member) ==
    LET part == Len(h.turn.streamed[1].body) + 1
        block == [h.turn.streamed[1] EXCEPT !.body = Append(@, part)]
    IN  Done([h EXCEPT !.turn.streamed = <<block>>,
                       !.turn.pending = IF h.turn.tool THEN @ ELSE <<block>>],
             <<BlockFrame(h, member, "delta") @@ [part |-> part]>>)

\* onChunk, block-end: the block in full becomes the prefix.
OnBlockEnd(h, member) ==
    Done([h EXCEPT !.turn.said = TRUE, !.turn.pending = h.turn.streamed],
         <<BlockFrame(h, member, "bend") @@ [block |-> h.turn.streamed[1]]>>)

\* onSessionEvent, assistant/message: the step is recorded with the content the
\* agent logged.
OnMessage(h, member, content, interrupted) ==
    AppendMemberOutput([h EXCEPT !.turn.pending = <<>>, !.turn.streamed = <<>>, !.turn.said = FALSE,
                                 !.turn.tool = @ /\ content # <<>>],
                       member, content, interrupted)

\* onToolResult
OnToolResult(h, member, status) ==
    Done([SettleToolResult(h, ToolOf(h.turn), status) EXCEPT !.turn.tool = FALSE],
         <<MemberFrame(h, member, "tool") @@ [tool |-> ToolOf(h.turn), status |-> status]>>)

\* recordFailure
RecordFailure(h) == [h EXCEPT !.turn.failed = TRUE]

\* onStatus(idle): a failed turn keeps its pending prefix, if there is one; then
\* turn_end.
OnIdle(h, member, canceled) ==
    LET status == IF canceled THEN "CANCELED" ELSE IF h.turn.failed THEN "ERROR" ELSE "COMPLETED"
        kept == IF status = "ERROR"
                THEN AppendMemberOutput(h, member, h.turn.pending, TRUE) ELSE Done(h, <<>>)
    IN  Done([kept.h EXCEPT !.turn = NoTurn],
             Append(kept.frames, MemberFrame(h, member, "end") @@ [status |-> status]))
=============================================================================
