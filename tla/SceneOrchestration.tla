------------------------- MODULE SceneOrchestration -------------------------
(***************************************************************************)
(* The contract between the agent host and a scene's orchestration          *)
(* (agent_v2/src/orchestration.ts), as the set of results each operation    *)
(* may have on the snapshot the host reads.  SaoleiLoop and Sts2Loop are     *)
(* shown to keep it (their ImplementsScene); TeamHost is checked against it. *)
(*                                                                          *)
(* A scene is a record:                                                     *)
(*   life      "none", "live", "disposing" or "disposed"                    *)
(*   active    the member whose turn is in flight, or Nobody                *)
(*   aborting  that turn has been cancelled                                 *)
(*   running   whenQuiescent() is unresolved                                *)
(*   paused    the snapshot's frozen state                                  *)
(*   error     origin of lastError, "none" for null                         *)
(***************************************************************************)

CONSTANT Roles      \* the roles with an agent

Nobody == "nobody"

SceneFailureOrigin == {"member-turn", "orchestration"}
TurnOutcomes == {"completed", "failed", "aborted"}

SceneSnapshot ==
    [life : {"none", "live", "disposing", "disposed"}, active : Roles \cup {Nobody},
     aborting : BOOLEAN, running : BOOLEAN, paused : BOOLEAN,
     error : SceneFailureOrigin \cup {"none"}]

NewScene ==
    [life |-> "none", active |-> Nobody, aborting |-> FALSE, running |-> FALSE,
     paused |-> FALSE, error |-> "none"]

\* materialize that succeeds; one that fails leaves a scene as it was.
MaterializeResult(o) == [o EXCEPT !.life = "live"]

\* submit: in flight the text joins the turn; at rest it opens a turn, or the
\* step that builds the input fails, or a member without an agent takes it.
SubmitResults(o) ==
    IF o.active # Nobody
    THEN {o}
    ELSE {[o EXCEPT !.active = r, !.running = TRUE, !.paused = p] :
             r \in Roles, p \in {o.paused, FALSE}}
           \cup {[o EXCEPT !.paused = TRUE, !.error = "orchestration"],
                 [o EXCEPT !.running = TRUE]}

\* cancel: the turn in flight is cancelled and the scene is frozen, at once or
\* when the turn ends; a scene that is frozen already may ignore it.
CancelResults(o) ==
    IF o.active = Nobody
    THEN {[o EXCEPT !.paused = TRUE]}
    ELSE {[o EXCEPT !.aborting = TRUE, !.paused = p] : p \in {o.paused, TRUE}}
           \cup (IF o.paused THEN {o} ELSE {})

\* dispose, up to its first await: the turn in flight is cancelled.
DisposeResults(o) ==
    {[o EXCEPT !.life = "disposing", !.aborting = (o.active # Nobody), !.paused = p] :
        p \in {o.paused, TRUE}}

\* The turn in flight ends: aborted if it was cancelled, else well or badly.
OutcomeOf(o, failed) ==
    IF o.aborting THEN "aborted" ELSE IF failed THEN "failed" ELSE "completed"
ErrorOf(o, outcome) ==
    {IF outcome = "failed" THEN "member-turn" ELSE "none"}
      \cup (IF o.life = "disposing" THEN {o.error} ELSE {})
TurnEndResults(o, failed) ==
    {[o EXCEPT !.active = Nobody, !.aborting = FALSE, !.running = r, !.error = e,
               !.paused = p] :
        r \in BOOLEAN, e \in ErrorOf(o, OutcomeOf(o, failed)),
        p \in IF OutcomeOf(o, failed) = "completed" THEN {o.paused} ELSE {o.paused, TRUE}}

\* Between turns the scene goes on by itself: it takes up its next wake, opens
\* the next turn, or fails in a step of its own; or it comes to rest, frozen if
\* an error is on record.
ContinueResults(o) ==
    {[o EXCEPT !.paused = FALSE]} \cup {[o EXCEPT !.active = r, !.paused = FALSE] : r \in Roles}
      \cup {[o EXCEPT !.error = e, !.paused = p] :
               e \in SceneFailureOrigin \cup {"none"}, p \in {o.paused, TRUE}}
RestResults(o) ==
    {[o EXCEPT !.running = FALSE, !.paused = p] :
        p \in IF o.error # "none" THEN {TRUE} ELSE BOOLEAN}

\* dispose after whenQuiescent: every member is released.
ReleaseResult(o) == [NewScene EXCEPT !.life = "disposed", !.paused = o.paused]

\* Every step a scene may take, by an operation of the host or by itself.
SceneStep(o, p) ==
    \/ o.life = "none" /\ p = MaterializeResult(o)
    \/ o.life = "live" /\ p \in SubmitResults(o) \cup CancelResults(o) \cup DisposeResults(o)
    \/ o.active # Nobody /\ \E failed \in BOOLEAN : p \in TurnEndResults(o, failed)
    \/ /\ o.running /\ o.active = Nobody /\ o.life = "live"
       /\ p \in ContinueResults(o) \cup RestResults(o)
    \/ o.life = "disposing" /\ o.running /\ o.active = Nobody /\ p = [o EXCEPT !.running = FALSE]
    \/ o.life = "disposing" /\ ~o.running /\ p = ReleaseResult(o)

-----------------------------------------------------------------------------
(* When a change of the snapshot, stated field by field, is a step a scene    *)
(* may take: what a scene that keeps the contract has to show.                *)

\* A materialization that succeeded.
LEMMA MaterializeStep ==
    ASSUME NEW o \in SceneSnapshot, NEW q \in SceneSnapshot, o.life = "none", q.life = "live",
           q.active = o.active, q.aborting = o.aborting, q.running = o.running,
           q.paused = o.paused, q.error = o.error
    PROVE  SceneStep(o, q)
<1>1. q = [o EXCEPT !.life = "live"]
  BY DEF SceneSnapshot
<1> QED BY <1>1 DEF SceneStep, MaterializeResult

\* A submit at rest that opens the turn of a member.
LEMMA SubmitStep ==
    ASSUME NEW o \in SceneSnapshot, NEW q \in SceneSnapshot, o.life = "live", q.life = o.life,
           o.active = Nobody, q.active \in Roles, q.aborting = o.aborting, q.running = TRUE,
           q.error = o.error, q.paused \in {o.paused, FALSE}
    PROVE  SceneStep(o, q)
<1> DEFINE opened(r, p) == [o EXCEPT !.active = r, !.running = TRUE, !.paused = p]
           P == {o.paused, FALSE}
           S == {opened(r, p) : r \in Roles, p \in P}
<1>1. q = opened(q.active, q.paused) /\ q.active \in Roles /\ q.paused \in P
  BY DEF SceneSnapshot
<1>2. SubmitResults(o) = S \cup {[o EXCEPT !.paused = TRUE, !.error = "orchestration"],
                                 [o EXCEPT !.running = TRUE]}
  BY DEF SubmitResults
<1>3. q \in S
  <2> HIDE DEF opened, P
  <2> QED BY <1>1
<1> HIDE DEF S
<1> QED BY <1>2, <1>3 DEF SceneStep

\* A submit at rest whose input cannot be built, or that no agent takes.
LEMMA SubmitAsideStep ==
    ASSUME NEW o \in SceneSnapshot, NEW q \in SceneSnapshot, o.life = "live", q.life = o.life,
           o.active = Nobody, q.active = o.active, q.aborting = o.aborting,
           \/ q.running = o.running /\ q.paused = TRUE /\ q.error = "orchestration"
           \/ q.running = TRUE /\ q.paused = o.paused /\ q.error = o.error
    PROVE  SceneStep(o, q)
<1> DEFINE thrown == [o EXCEPT !.paused = TRUE, !.error = "orchestration"]
           passed == [o EXCEPT !.running = TRUE]
           S == {[o EXCEPT !.active = r, !.running = TRUE, !.paused = p] :
                    r \in Roles, p \in {o.paused, FALSE}}
<1>1. q = thrown \/ q = passed
  <2>1. CASE q.running = o.running /\ q.paused = TRUE /\ q.error = "orchestration"
    BY <2>1 DEF SceneSnapshot
  <2>2. CASE q.running = TRUE /\ q.paused = o.paused /\ q.error = o.error
    BY <2>2 DEF SceneSnapshot
  <2> QED BY <2>1, <2>2
<1>2. SubmitResults(o) = S \cup {thrown, passed}
  BY DEF SubmitResults
<1> HIDE DEF S, thrown, passed
<1> QED BY <1>1, <1>2 DEF SceneStep

\* A cancel, of the turn in flight or at rest.
LEMMA CancelStep ==
    ASSUME NEW o \in SceneSnapshot, NEW q \in SceneSnapshot, o.life = "live", q.life = o.life,
           q.active = o.active, q.running = o.running, q.error = o.error,
           q.paused \in {o.paused, TRUE},
           o.active = Nobody => q.aborting = o.aborting /\ q.paused = TRUE,
           o.active # Nobody => q.aborting = TRUE
    PROVE  SceneStep(o, q)
<1>1. CASE o.active = Nobody
  <2>1. q = [o EXCEPT !.paused = TRUE]
    BY <1>1 DEF SceneSnapshot
  <2> QED BY <2>1, <1>1 DEF SceneStep, CancelResults
<1>2. CASE o.active # Nobody
  <2>1. q = [o EXCEPT !.aborting = TRUE, !.paused = q.paused]
    BY <1>2 DEF SceneSnapshot
  <2> QED BY <2>1, <1>2 DEF SceneStep, CancelResults
<1> QED BY <1>1, <1>2

\* A dispose up to its first await.
LEMMA DisposeStep ==
    ASSUME NEW o \in SceneSnapshot, NEW q \in SceneSnapshot, o.life = "live",
           q.life = "disposing", q.active = o.active, q.running = o.running, q.error = o.error,
           q.aborting = (o.active # Nobody), q.paused \in {o.paused, TRUE}
    PROVE  SceneStep(o, q)
<1>1. q = [o EXCEPT !.life = "disposing", !.aborting = (o.active # Nobody), !.paused = q.paused]
  BY DEF SceneSnapshot
<1>2. q \in DisposeResults(o)
  BY <1>1 DEF DisposeResults
<1> QED BY <1>2 DEF SceneStep

\* The turn in flight ends.
LEMMA TurnEndStep ==
    ASSUME NEW o \in SceneSnapshot, NEW q \in SceneSnapshot, NEW failed \in BOOLEAN,
           o.active # Nobody, q.life = o.life, q.active = Nobody, q.aborting = FALSE,
           q.error \in ErrorOf(o, OutcomeOf(o, failed)),
           OutcomeOf(o, failed) = "completed" => q.paused = o.paused,
           q.paused \in {o.paused, TRUE}
    PROVE  SceneStep(o, q)
<1> DEFINE end(r, e, p) == [o EXCEPT !.active = Nobody, !.aborting = FALSE, !.running = r,
                                     !.error = e, !.paused = p]
           outcome == OutcomeOf(o, failed)
           P == IF outcome = "completed" THEN {o.paused} ELSE {o.paused, TRUE}
<1>1. q = end(q.running, q.error, q.paused) /\ q.running \in BOOLEAN
  BY DEF SceneSnapshot
<1>2. TurnEndResults(o, failed) =
         {end(r, e, p) : r \in BOOLEAN, e \in ErrorOf(o, outcome), p \in P}
  BY DEF TurnEndResults
<1>3. q.paused \in P /\ q.error \in ErrorOf(o, outcome)
  OBVIOUS
<1> HIDE DEF end, P, outcome
<1>4. q \in TurnEndResults(o, failed)
  BY <1>1, <1>2, <1>3
<1> QED BY <1>4 DEF SceneStep

\* Between turns: the scene goes on, opens the next turn, or fails by itself.
LEMMA ContinueStep ==
    ASSUME NEW o \in SceneSnapshot, NEW q \in SceneSnapshot, o.life = "live", q.life = o.life,
           o.running = TRUE, q.running = TRUE, o.active = Nobody, q.aborting = o.aborting,
           \/ q.active \in Roles \cup {Nobody} /\ q.error = o.error /\ q.paused = FALSE
           \/ q.active = Nobody /\ q.paused \in {o.paused, TRUE}
    PROVE  SceneStep(o, q)
<1> DEFINE open(r) == [o EXCEPT !.active = r, !.paused = FALSE]
           fail(e, p) == [o EXCEPT !.error = e, !.paused = p]
           thaw == [o EXCEPT !.paused = FALSE]
           E == SceneFailureOrigin \cup {"none"}
           P == {o.paused, TRUE}
<1>1. ContinueResults(o) =
         {thaw} \cup {open(r) : r \in Roles} \cup {fail(e, p) : e \in E, p \in P}
  BY DEF ContinueResults
<1>2. CASE q.active \in Roles /\ q.error = o.error /\ q.paused = FALSE
  <2>1. q = open(q.active)
    BY <1>2 DEF SceneSnapshot
  <2> HIDE DEF open, fail, thaw, E, P
  <2>2. q \in ContinueResults(o)
    BY <1>1, <1>2, <2>1
  <2> QED BY <2>2 DEF SceneStep
<1>3. CASE q.active = Nobody /\ q.error = o.error /\ q.paused = FALSE
  <2>1. q = thaw
    BY <1>3 DEF SceneSnapshot
  <2> HIDE DEF open, fail, thaw, E, P
  <2>2. q \in ContinueResults(o)
    BY <1>1, <2>1
  <2> QED BY <2>2 DEF SceneStep
<1>4. CASE q.active = Nobody /\ q.paused \in {o.paused, TRUE}
  <2>1. q = fail(q.error, q.paused) /\ q.error \in E /\ q.paused \in P
    <3>1. q.life = o.life /\ q.active = o.active /\ q.aborting = o.aborting /\ q.running = o.running
      BY <1>4
    <3>2. q = [o EXCEPT !.error = q.error, !.paused = q.paused]
      BY <3>1 DEF SceneSnapshot
    <3>3. q.error \in E
      BY DEF SceneSnapshot
    <3> QED BY <1>4, <3>2, <3>3
  <2> HIDE DEF open, fail, thaw, E, P
  <2>2. q \in ContinueResults(o)
    BY <1>1, <2>1
  <2> QED BY <2>2 DEF SceneStep
<1> QED BY <1>2, <1>3, <1>4

\* The scene comes to rest, live or on its way to its release.
LEMMA RestStep ==
    ASSUME NEW o \in SceneSnapshot, NEW q \in SceneSnapshot, o.life \in {"live", "disposing"},
           q.life = o.life, o.running = TRUE, q.running = FALSE, o.active = Nobody,
           q.active = o.active, q.aborting = o.aborting, q.error = o.error,
           o.life = "live" /\ o.error # "none" => q.paused = TRUE,
           o.life = "disposing" => q.paused = o.paused
    PROVE  SceneStep(o, q)
<1>1. CASE o.life = "live"
  <2>1. q = [o EXCEPT !.running = FALSE, !.paused = q.paused] /\ q.paused \in BOOLEAN
    BY DEF SceneSnapshot
  <2>2. q \in RestResults(o)
    BY <1>1, <2>1 DEF RestResults
  <2> QED BY <1>1, <2>2 DEF SceneStep
<1>2. CASE o.life = "disposing"
  <2>1. q = [o EXCEPT !.running = FALSE]
    BY <1>2 DEF SceneSnapshot
  <2> QED BY <1>2, <2>1 DEF SceneStep
<1> QED BY <1>1, <1>2

\* The release after the scene came to rest.
LEMMA ReleaseStep ==
    ASSUME NEW o \in SceneSnapshot, NEW q \in SceneSnapshot, o.life = "disposing",
           ~o.running, q.life = "disposed", q.active = Nobody, q.aborting = FALSE,
           q.running = FALSE, q.error = "none", q.paused = o.paused
    PROVE  SceneStep(o, q)
<1> DEFINE n == [NewScene EXCEPT !.life = "disposed", !.paused = o.paused]
<1>0. NewScene \in SceneSnapshot
  BY DEF NewScene, SceneSnapshot, SceneFailureOrigin
<1>2. /\ NewScene.active = Nobody /\ NewScene.aborting = FALSE
      /\ NewScene.running = FALSE /\ NewScene.error = "none"
  BY DEF NewScene
<1>1. q = n
  BY <1>0, <1>2 DEF SceneSnapshot
<1> QED BY <1>1 DEF SceneStep, ReleaseResult

-----------------------------------------------------------------------------
(* What a host may rely on: the results of each operation, field by field.    *)

LEMMA SubmitFields ==
    ASSUME NEW o \in SceneSnapshot
    PROVE  \A q \in SubmitResults(o) :
              /\ q \in SceneSnapshot /\ q.life = o.life /\ q.aborting = o.aborting
              /\ q.active = o.active \/ (o.active = Nobody /\ q.running)
              /\ o.running => q.running
<1>1. CASE o.active # Nobody
  BY <1>1 DEF SubmitResults
<1>2. CASE o.active = Nobody
  <2> DEFINE opened(r, p) == [o EXCEPT !.active = r, !.running = TRUE, !.paused = p]
             thrown == [o EXCEPT !.paused = TRUE, !.error = "orchestration"]
             passed == [o EXCEPT !.running = TRUE]
             P == {o.paused, FALSE}
             S == {opened(r, p) : r \in Roles, p \in P}
  <2>1. SubmitResults(o) = S \cup {thrown, passed}
    BY <1>2 DEF SubmitResults
  <2>2. ASSUME NEW r \in Roles, NEW p \in P, NEW q, q = opened(r, p)
        PROVE  /\ q \in SceneSnapshot /\ q.life = o.life /\ q.aborting = o.aborting
               /\ o.active = Nobody /\ q.running
    BY <1>2, <2>2 DEF SceneSnapshot
  <2>3. ASSUME NEW q, q = thrown
        PROVE  /\ q \in SceneSnapshot /\ q.life = o.life /\ q.aborting = o.aborting
               /\ q.active = o.active /\ q.running = o.running
    BY <2>3 DEF SceneSnapshot, SceneFailureOrigin
  <2>4. ASSUME NEW q, q = passed
        PROVE  /\ q \in SceneSnapshot /\ q.life = o.life /\ q.aborting = o.aborting
               /\ q.active = o.active /\ q.running
    BY <2>4 DEF SceneSnapshot
  <2> HIDE DEF opened, thrown, passed, P
  <2> QED BY <2>1, <2>2, <2>3, <2>4
<1> QED BY <1>1, <1>2

LEMMA CancelFields ==
    ASSUME NEW o \in SceneSnapshot
    PROVE  \A q \in CancelResults(o) :
              /\ q \in SceneSnapshot /\ q.life = o.life /\ q.active = o.active
              /\ q.running = o.running
              /\ q.aborting => o.aborting \/ o.active # Nobody
<1>1. CASE o.active = Nobody
  BY <1>1 DEF CancelResults, SceneSnapshot
<1>2. CASE o.active # Nobody
  <2>1. ASSUME NEW q \in CancelResults(o)
        PROVE  q = o \/ \E p \in {o.paused, TRUE} : q = [o EXCEPT !.aborting = TRUE, !.paused = p]
    BY <1>2 DEF CancelResults
  <2>2. ASSUME NEW p \in BOOLEAN, NEW q, q = [o EXCEPT !.aborting = TRUE, !.paused = p]
        PROVE  /\ q \in SceneSnapshot /\ q.life = o.life /\ q.active = o.active
               /\ q.running = o.running
    BY <2>2 DEF SceneSnapshot
  <2>3. o.paused \in BOOLEAN
    BY DEF SceneSnapshot
  <2> QED BY <1>2, <2>1, <2>2, <2>3
<1> QED BY <1>1, <1>2

LEMMA DisposeFields ==
    ASSUME NEW o \in SceneSnapshot
    PROVE  \A q \in DisposeResults(o) :
              /\ q \in SceneSnapshot /\ q.life = "disposing" /\ q.active = o.active
              /\ q.running = o.running /\ (q.aborting <=> o.active # Nobody)
<1> TAKE q \in DisposeResults(o)
<1>1. PICK p \in {o.paused, TRUE} :
         q = [o EXCEPT !.life = "disposing", !.aborting = (o.active # Nobody), !.paused = p]
  BY DEF DisposeResults
<1> QED BY <1>1 DEF SceneSnapshot

LEMMA TurnEndFields ==
    ASSUME NEW o \in SceneSnapshot, NEW failed \in BOOLEAN
    PROVE  \A q \in TurnEndResults(o, failed) :
              q \in SceneSnapshot /\ q.life = o.life /\ q.active = Nobody /\ ~q.aborting
<1> DEFINE end(r, e, p) == [o EXCEPT !.active = Nobody, !.aborting = FALSE, !.running = r,
                                     !.error = e, !.paused = p]
           outcome == OutcomeOf(o, failed)
           P == IF outcome = "completed" THEN {o.paused} ELSE {o.paused, TRUE}
<1>1. TurnEndResults(o, failed) =
         {end(r, e, p) : r \in BOOLEAN, e \in ErrorOf(o, outcome), p \in P}
  BY DEF TurnEndResults
<1>2. \A e \in ErrorOf(o, outcome) : e \in SceneFailureOrigin \cup {"none"}
  BY DEF ErrorOf, SceneSnapshot, SceneFailureOrigin
<1>3. \A p \in P : p \in BOOLEAN
  BY DEF SceneSnapshot
<1>4. ASSUME NEW r \in BOOLEAN, NEW e \in SceneFailureOrigin \cup {"none"}, NEW p \in BOOLEAN,
             NEW q, q = end(r, e, p)
      PROVE  q \in SceneSnapshot /\ q.life = o.life /\ q.active = Nobody /\ ~q.aborting
  BY <1>4 DEF SceneSnapshot
<1> HIDE DEF end, P, outcome
<1> QED BY <1>1, <1>2, <1>3, <1>4

LEMMA ContinueFields ==
    ASSUME NEW o \in SceneSnapshot
    PROVE  \A q \in ContinueResults(o) :
              /\ q \in SceneSnapshot /\ q.life = o.life /\ q.aborting = o.aborting
              /\ q.running = o.running
<1> DEFINE open(r) == [o EXCEPT !.active = r, !.paused = FALSE]
           fail(e, p) == [o EXCEPT !.error = e, !.paused = p]
           thaw == [o EXCEPT !.paused = FALSE]
           E == SceneFailureOrigin \cup {"none"}
           P == {o.paused, TRUE}
<1> DEFINE Same(q) == /\ q \in SceneSnapshot /\ q.life = o.life /\ q.aborting = o.aborting
                      /\ q.running = o.running
<1>1. ContinueResults(o) =
         {thaw} \cup {open(r) : r \in Roles} \cup {fail(e, p) : e \in E, p \in P}
  BY DEF ContinueResults
<1>2. ASSUME NEW q, q = thaw PROVE Same(q)
  BY <1>2 DEF SceneSnapshot
<1>3. ASSUME NEW r \in Roles, NEW q, q = open(r) PROVE Same(q)
  BY <1>3 DEF SceneSnapshot
<1>4. ASSUME NEW e \in E, NEW p \in P, NEW q, q = fail(e, p) PROVE Same(q)
  BY <1>4 DEF SceneSnapshot
<1>5. \A q \in ContinueResults(o) : Same(q)
  <2> HIDE DEF open, fail, thaw, E, P, Same
  <2> QED BY <1>1, <1>2, <1>3, <1>4
<1> QED BY <1>5

LEMMA RestFields ==
    ASSUME NEW o \in SceneSnapshot
    PROVE  \A q \in RestResults(o) :
              /\ q \in SceneSnapshot /\ q.life = o.life /\ q.aborting = o.aborting
              /\ q.active = o.active /\ ~q.running
<1> TAKE q \in RestResults(o)
<1>1. PICK p \in BOOLEAN : q = [o EXCEPT !.running = FALSE, !.paused = p]
  BY DEF RestResults
<1> QED BY <1>1 DEF SceneSnapshot

LEMMA NewFields ==
    /\ NewScene \in SceneSnapshot /\ NewScene.life = "none" /\ NewScene.active = Nobody
    /\ ~NewScene.aborting /\ ~NewScene.running
BY DEF NewScene, SceneSnapshot, SceneFailureOrigin

LEMMA ReleaseFields ==
    ASSUME NEW o \in SceneSnapshot
    PROVE  /\ ReleaseResult(o) \in SceneSnapshot /\ ReleaseResult(o).life = "disposed"
           /\ ReleaseResult(o).active = Nobody
           /\ ~ReleaseResult(o).aborting /\ ~ReleaseResult(o).running
BY NewFields DEF ReleaseResult, SceneSnapshot
=============================================================================
