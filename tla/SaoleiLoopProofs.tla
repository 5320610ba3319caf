------------------------- MODULE SaoleiLoopProofs -------------------------
(***************************************************************************)
(* Theorems about SaoleiLoop, for every set of user messages, every round    *)
(* limit and every bound.                                                   *)
(***************************************************************************)
EXTENDS SaoleiLoop, FiniteSetTheorems, TLAPS

-----------------------------------------------------------------------------
(* Messages, members and the flow.                                          *)

\* A message is known by its kind and what it is a copy of.
LEMMA MessageFields ==
    /\ \A u : User(u).kind = "user" /\ User(u).of = u /\ IsUser(User(u))
    /\ \A n : Drained(n).kind = "drained" /\ Drained(n).of = n /\ ~IsUser(Drained(n))
    /\ \A n : Fast(n).kind = "fast" /\ Fast(n).of = n /\ ~IsUser(Fast(n))
BY DEF User, Drained, Fast, IsUser

LEMMA MessageCases ==
    ASSUME NEW x \in Message
    PROVE  \/ x.kind = "user" /\ x = User(x.of) /\ x.of \in UserMessages
           \/ x.kind = "drained" /\ x = Drained(x.of) /\ x.of \in Unit
           \/ x.kind = "fast" /\ x = Fast(x.of) /\ x.of \in Unit
BY DEF Message, User, Drained, Fast

LEMMA MessageOf ==
    /\ \A u \in UserMessages : User(u) \in Message
    /\ \A n \in Unit : Drained(n) \in Message /\ Fast(n) \in Message
BY DEF Message

LEMMA ActiveMember ==
    ASSUME flow.pos \in Activities
    PROVE  /\ activeMember = "announcer" <=> flow.pos = "announce"
           /\ activeMember = "player" <=> flow.pos \in {"play", "rest"}
           /\ activeMember = "planner" <=> flow.pos \in {"plan", "review"}
           /\ activeMember \in Members
           /\ activeMember \in Agents <=> flow.pos # "announce"
<1>1. /\ MemberOf["plan"] = "planner" /\ MemberOf["play"] = "player"
      /\ MemberOf["announce"] = "announcer" /\ MemberOf["review"] = "planner"
      /\ MemberOf["rest"] = "player"
  BY DEF MemberOf
<1> QED BY <1>1 DEF activeMember, Activities, Members, Agents

FlowType == [pos : Activities, outcome : Outcomes, retrying : BOOLEAN,
             reviewed : 0..MaxTerminals, rounds : Nat, statsSentFor : 0..MaxTerminals]

\* onSettle and judge, field by field.
LEMMA OnSettleFields ==
    ASSUME NEW f \in FlowType, terminal \in 0..MaxTerminals
    PROVE  /\ OnSettle(f) \in FlowType
           /\ OnSettle(f).pos = f.pos /\ OnSettle(f).outcome = f.outcome
           /\ OnSettle(f).retrying = f.retrying
           /\ OnSettle(f).reviewed = IF f.pos = "review" THEN terminal ELSE f.reviewed
           /\ OnSettle(f).rounds = IF f.pos = "review" THEN f.rounds + 1 ELSE f.rounds
<1>1. CASE f.pos = "announce"
  <2>1. OnSettle(f) = [f EXCEPT !.statsSentFor = terminal]
    BY <1>1 DEF OnSettle
  <2> QED BY <1>1, <2>1 DEF FlowType
<1>2. CASE f.pos = "review"
  <2>1. OnSettle(f) = [f EXCEPT !.reviewed = terminal, !.rounds = f.rounds + 1]
    BY <1>2 DEF OnSettle
  <2>2. f.rounds \in Nat /\ f.rounds + 1 \in Nat
    BY DEF FlowType
  <2> HIDE DEF OnSettle
  <2>3. OnSettle(f) \in FlowType
    BY <2>1, <2>2 DEF FlowType
  <2> QED BY <1>2, <2>1, <2>2, <2>3 DEF FlowType
<1>3. CASE f.pos \notin {"announce", "review"}
  <2>1. OnSettle(f) = f
    BY <1>3 DEF OnSettle
  <2> QED BY <1>3, <2>1
<1> QED BY <1>1, <1>2, <1>3

LEMMA NextActivityType == ASSUME NEW f \in FlowType PROVE NextActivity(f) \in Activities
BY DEF NextActivity, FlowType, Activities

LEMMA JudgeFields ==
    ASSUME NEW f \in FlowType
    PROVE  /\ Judge(f) \in FlowType
           /\ Judge(f).pos = NextActivity(f) /\ Judge(f).outcome = "none"
           /\ Judge(f).reviewed = f.reviewed /\ Judge(f).retrying = f.retrying
           /\ Judge(f).rounds = IF NextActivity(f) = "rest" THEN 0 ELSE f.rounds
<1> DEFINE t == NextActivity(f)
           r == IF t = "rest" THEN 0 ELSE f.rounds
<1>1. t \in Activities /\ r \in Nat
  BY NextActivityType DEF FlowType
<1>2. Judge(f) = [f EXCEPT !.pos = t, !.outcome = "none", !.rounds = r]
  BY DEF Judge
<1> HIDE DEF t, r
<1>3. /\ Judge(f) \in FlowType /\ Judge(f).pos = t /\ Judge(f).outcome = "none"
      /\ Judge(f).reviewed = f.reviewed /\ Judge(f).rounds = r /\ Judge(f).retrying = f.retrying
  BY <1>1, <1>2 DEF FlowType, Outcomes
<1> QED BY <1>3 DEF t, r

\* decide, by the wake it is given.
LEMMA DecideStalls ==
    ASSUME flow \in FlowType, NEW w \in {"failed", "aborted"}
    PROVE  /\ Decide(w).start = FALSE /\ Decide(w).flow \in FlowType
           /\ Decide(w).flow.pos = flow.pos /\ Decide(w).flow.outcome = w
           /\ Decide(w).flow.rounds = flow.rounds /\ Decide(w).flow.reviewed = flow.reviewed
           /\ Decide(w).flow.retrying = FALSE
<1> DEFINE told == [[flow EXCEPT !.outcome = w] EXCEPT !.retrying = FALSE]
<1>1. Decide(w) = [flow |-> told, start |-> FALSE]
  BY DEF Decide, FlowType
<1>2. /\ told \in FlowType /\ told.pos = flow.pos /\ told.outcome = w
      /\ told.rounds = flow.rounds /\ told.reviewed = flow.reviewed /\ told.retrying = FALSE
  BY DEF FlowType, Outcomes
<1> HIDE DEF told
<1> QED BY <1>1, <1>2

LEMMA DecideRetries ==
    ASSUME flow \in FlowType, paused
    PROVE  /\ Decide("null").start = TRUE /\ Decide("null").flow \in FlowType
           /\ Decide("null").flow.pos = flow.pos
           /\ Decide("null").flow.outcome = flow.outcome
           /\ Decide("null").flow.rounds = flow.rounds
           /\ Decide("null").flow.reviewed = flow.reviewed
<1> DEFINE told == [flow EXCEPT !.retrying = FALSE]
           again == [told EXCEPT !.retrying = TRUE]
<1>1. told.outcome = flow.outcome
  BY DEF FlowType
<1>2. Decide("null") = [flow |-> again, start |-> TRUE]
  BY <1>1 DEF Decide, paused
<1>3. /\ again \in FlowType /\ again.pos = flow.pos /\ again.outcome = flow.outcome
      /\ again.rounds = flow.rounds /\ again.reviewed = flow.reviewed
  BY DEF FlowType
<1> HIDE DEF again
<1> QED BY <1>2, <1>3

LEMMA DecideRests ==
    ASSUME flow \in FlowType, ~flow.retrying
    PROVE  /\ Decide("resting").start = FALSE /\ Decide("resting").flow \in FlowType
           /\ Decide("resting").flow.pos = flow.pos
           /\ Decide("resting").flow.outcome = "resting"
           /\ Decide("resting").flow.rounds = flow.rounds
           /\ Decide("resting").flow.reviewed = flow.reviewed
           /\ Decide("resting").flow.retrying = FALSE
<1> DEFINE told == [[flow EXCEPT !.outcome = "resting"] EXCEPT !.retrying = FALSE]
<1>1. /\ told \in FlowType /\ told.pos = flow.pos /\ told.outcome = "resting"
      /\ told.rounds = flow.rounds /\ told.reviewed = flow.reviewed /\ told.retrying = FALSE
  BY DEF FlowType, Outcomes
<1>2. Decide("resting") = [flow |-> told, start |-> FALSE]
  BY <1>1 DEF Decide
<1> HIDE DEF told
<1> QED BY <1>1, <1>2

\* The flow moves on: after a success with the facts of onSettle.
LEMMA DecideMoves ==
    ASSUME flow \in FlowType, terminal \in 0..MaxTerminals, NEW w,
           \/ w = "settled"
           \/ w = "null" /\ ~paused
           \/ w = "resting" /\ flow.retrying
    PROVE  \E f \in FlowType :
              /\ Decide(w) = [flow |-> Judge(f), start |-> TRUE]
              /\ f.pos = flow.pos /\ f.retrying = FALSE
              /\ f.rounds = IF w = "settled" /\ flow.pos = "review" THEN flow.rounds + 1
                            ELSE flow.rounds
              /\ f.reviewed = IF w = "settled" /\ flow.pos = "review" THEN terminal
                              ELSE flow.reviewed
<1>1. CASE w = "settled"
  <2> DEFINE woken == [flow EXCEPT !.outcome = "settled"]
             told == [OnSettle(woken) EXCEPT !.retrying = FALSE]
  <2>1. /\ woken \in FlowType /\ woken.pos = flow.pos /\ woken.outcome = "settled"
        /\ woken.rounds = flow.rounds /\ woken.reviewed = flow.reviewed
    BY DEF FlowType, Outcomes
  <2> HIDE DEF woken
  <2>2. /\ OnSettle(woken) \in FlowType /\ OnSettle(woken).pos = flow.pos
        /\ OnSettle(woken).outcome = "settled"
        /\ OnSettle(woken).reviewed = IF flow.pos = "review" THEN terminal ELSE flow.reviewed
        /\ OnSettle(woken).rounds = IF flow.pos = "review" THEN flow.rounds + 1 ELSE flow.rounds
    BY <2>1, OnSettleFields
  <2>3. /\ told \in FlowType /\ told.pos = flow.pos /\ told.outcome = "settled"
        /\ told.reviewed = OnSettle(woken).reviewed /\ told.rounds = OnSettle(woken).rounds
        /\ told.retrying = FALSE
    BY <2>2 DEF FlowType
  <2>4. Decide(w) = [flow |-> Judge(told), start |-> TRUE]
    BY <1>1, <2>3 DEF Decide, woken
  <2> HIDE DEF told
  <2> QED BY <1>1, <2>2, <2>3, <2>4
<1>2. CASE w = "null" /\ ~paused
  <2> DEFINE told == [flow EXCEPT !.retrying = FALSE]
  <2>1. /\ told \in FlowType /\ told.pos = flow.pos /\ told.outcome = flow.outcome
        /\ told.reviewed = flow.reviewed /\ told.rounds = flow.rounds /\ told.retrying = FALSE
    BY DEF FlowType
  <2>2. Decide(w) = [flow |-> Judge(told), start |-> TRUE]
    BY <1>2, <2>1 DEF Decide, paused
  <2> HIDE DEF told
  <2> QED BY <1>2, <2>1, <2>2
<1>3. CASE w = "resting" /\ flow.retrying
  <2> DEFINE told == [[flow EXCEPT !.outcome = "resting"] EXCEPT !.retrying = FALSE]
  <2>1. /\ told \in FlowType /\ told.pos = flow.pos /\ told.outcome = "resting"
        /\ told.reviewed = flow.reviewed /\ told.rounds = flow.rounds /\ told.retrying = FALSE
    BY DEF FlowType, Outcomes
  <2>2. Decide(w) = [flow |-> Judge(told), start |-> TRUE]
    BY <1>3, <2>1 DEF Decide
  <2> HIDE DEF told
  <2> QED BY <1>3, <2>1, <2>2
<1> QED BY <1>1, <1>2, <1>3

\* The four ways a wake is decided, and the edge the flow takes.
Counted  == IF wake = "settled" /\ flow.pos = "review" THEN flow.rounds + 1 ELSE flow.rounds
Reviewed == IF wake = "settled" /\ flow.pos = "review" THEN terminal ELSE flow.reviewed

Stalls ==
    /\ wake \in {"failed", "aborted"} /\ pump' = "none" /\ ~flow'.retrying
    /\ flow'.pos = flow.pos /\ flow'.outcome = wake
    /\ flow'.rounds = flow.rounds /\ flow'.reviewed = flow.reviewed
Retries ==
    /\ wake = "null" /\ paused /\ pump' = "execute"
    /\ flow'.pos = flow.pos /\ flow'.outcome = flow.outcome
    /\ flow'.rounds = flow.rounds /\ flow'.reviewed = flow.reviewed
Rests ==
    /\ wake = "resting" /\ pump' = "none" /\ ~flow'.retrying
    /\ flow'.pos = flow.pos /\ flow'.outcome = "resting"
    /\ flow'.rounds = flow.rounds /\ flow'.reviewed = flow.reviewed
Moves ==
    /\ wake = "settled" \/ (wake = "null" /\ ~paused) \/ (wake = "resting" /\ flow.retrying)
    /\ pump' = "execute" /\ flow'.outcome = "none" /\ ~flow'.retrying
    /\ flow.pos = "plan" => flow'.pos = "play"
    /\ flow.pos = "announce" => flow'.pos = "review"
    /\ flow.pos = "review" => flow'.pos = IF Counted < RoundStop THEN "play" ELSE "rest"
    /\ flow.pos \in {"play", "rest"} =>
          flow'.pos = IF terminal # 0 /\ terminal # Reviewed THEN "announce" ELSE "play"
    /\ flow'.rounds = IF flow'.pos = "rest" THEN 0 ELSE Counted
    /\ flow'.reviewed = Reviewed

LEMMA PumpDecides ==
    ASSUME flow \in FlowType, terminal \in 0..MaxTerminals, PumpDecide,
           wake \in {"null", "settled", "resting", "failed", "aborted"}
    PROVE  flow' \in FlowType /\ (Stalls \/ Retries \/ Rests \/ Moves)
<1>1. flow' = Decide(wake).flow /\ pump' = IF Decide(wake).start THEN "execute" ELSE "none"
  BY DEF PumpDecide
<1>2. CASE wake \in {"failed", "aborted"}
  BY <1>1, <1>2, DecideStalls DEF Stalls
<1>3. CASE wake = "null" /\ paused
  BY <1>1, <1>3, DecideRetries DEF Retries
<1>4. CASE wake = "resting" /\ ~flow.retrying
  BY <1>1, <1>4, DecideRests DEF Rests
<1>5. CASE wake = "settled" \/ (wake = "null" /\ ~paused) \/ (wake = "resting" /\ flow.retrying)
  <2>1. PICK f \in FlowType :
              /\ Decide(wake) = [flow |-> Judge(f), start |-> TRUE]
              /\ f.pos = flow.pos /\ f.rounds = Counted /\ f.reviewed = Reviewed
              /\ f.retrying = FALSE
    BY <1>5, DecideMoves DEF Counted, Reviewed
  <2>2. flow' = Judge(f) /\ pump' = "execute"
    BY <1>1, <2>1
  <2>3. /\ flow' \in FlowType /\ flow'.pos = NextActivity(f) /\ flow'.outcome = "none"
        /\ flow'.reviewed = Reviewed /\ flow'.retrying = FALSE
        /\ flow'.rounds = IF NextActivity(f) = "rest" THEN 0 ELSE Counted
    BY <2>1, <2>2, JudgeFields
  <2>4. /\ flow.pos = "plan" => NextActivity(f) = "play"
        /\ flow.pos = "announce" => NextActivity(f) = "review"
        /\ flow.pos = "review" => NextActivity(f) = IF Counted < RoundStop THEN "play" ELSE "rest"
        /\ flow.pos \in {"play", "rest"} =>
              NextActivity(f) = IF terminal # 0 /\ terminal # Reviewed THEN "announce" ELSE "play"
    BY <2>1 DEF NextActivity, HasUnreviewedTerminal
  <2> QED BY <1>5, <2>2, <2>3, <2>4 DEF Moves
<1> QED BY <1>2, <1>3, <1>4, <1>5 DEF FlowType

-----------------------------------------------------------------------------
(* Types, and room for the announcements to come.                            *)

Announced == {n \in DOMAIN units : units[n].about # 0}

RoomInv ==
    /\ statsSent <= terminal /\ Cardinality(Announced) <= statsSent
    /\ Len(units) + (MaxTerminals - Cardinality(Announced)) <= MaxUnits

HistOK ==
    /\ failures \in Nat /\ throws \in Nat /\ cancelAsked \in [Agents -> BOOLEAN]
    /\ wake \in {"null", "settled", "resting", "failed", "aborted"}

TypeInv == TypeOK /\ HistOK /\ RoomInv

UnitType == [from : Members, about : 0..MaxTerminals]

LEMMA AnnouncedFinite ==
    ASSUME TypeOK
    PROVE  IsFiniteSet(Announced) /\ Cardinality(Announced) \in Nat
<1>1. IsFiniteSet(DOMAIN units)
  <2>1. DOMAIN units = 1..Len(units) /\ Len(units) \in Int
    BY DEF TypeOK
  <2> QED BY <2>1, FS_Interval
<1> QED BY <1>1, FS_Subset, FS_CardinalityType DEF Announced

\* A unit is appended: what is announced grows by it, if it is about a game.
LEMMA AnnouncedAppend ==
    ASSUME TypeOK, NEW r \in UnitType, units' = Append(units, r)
    PROVE  Cardinality(Announced') =
              IF r.about # 0 THEN Cardinality(Announced) + 1 ELSE Cardinality(Announced)
<1> DEFINE k == Len(units) + 1
<1>1. /\ units \in Seq(UnitType) /\ Len(units) \in Nat /\ DOMAIN units = 1..Len(units)
      /\ DOMAIN units' = (DOMAIN units) \cup {k} /\ k \notin DOMAIN units
      /\ units'[k] = r /\ \A n \in DOMAIN units : units'[n] = units[n]
  <2>1. units \in Seq(UnitType)
    BY Zenon DEF TypeOK, UnitType
  <2> QED BY <2>1
<1>2. Announced' = IF r.about # 0 THEN Announced \cup {k} ELSE Announced
  BY <1>1 DEF Announced
<1>3. k \notin Announced
  BY <1>1 DEF Announced
<1> QED BY <1>2, <1>3, AnnouncedFinite, FS_AddElement

\* What the parts of the actions do to the types.
LEMMA InputTypes ==
    ASSUME TypeOK, NEW m \in Agents
    PROVE  /\ Pending(m) \subseteq Unit /\ FreshInput(m) \subseteq Message
           /\ DefaultInput(m) \subseteq Message
           /\ \A S \in SUBSET Unit : DrainMark(m, S) \subseteq Unit
<1>1. Len(units) \in Nat /\ DOMAIN units = 1..Len(units) /\ Len(units) <= MaxUnits
  BY DEF TypeOK
<1>2. Pending(m) \subseteq Unit
  BY <1>1, LoopAssumption DEF Pending, Unit
<1>3. FreshInput(m) \subseteq Message
  BY <1>2 DEF FreshInput, Message, TypeOK
<1>4. DefaultInput(m) \subseteq Message
  BY <1>3 DEF DefaultInput, TypeOK
<1>5. \A S \in SUBSET Unit : DrainMark(m, S) \subseteq Unit
  BY DEF DrainMark, TypeOK
<1> QED BY <1>2, <1>3, <1>4, <1>5

LEMMA StartTurnTypes ==
    ASSUME TypeOK, NEW m \in Agents, NEW batch \in SUBSET Message, NEW h \in BOOLEAN,
           StartTurn(m, batch, h)
    PROVE  /\ turn' \in [Agents -> {"none", "woken", "running"}]
           /\ hold' \in [Agents -> BOOLEAN] /\ abort' \in [Agents -> BOOLEAN]
           /\ held' \in [Agents -> SUBSET Message] /\ inbox' \in [Agents -> SUBSET Message]
<1>1. turn' \in [Agents -> {"none", "woken", "running"}] /\ abort' \in [Agents -> BOOLEAN]
  BY DEF StartTurn, TypeOK
<1>2. hold' \in [Agents -> BOOLEAN]
  BY DEF StartTurn, TypeOK
<1>3. held' \in [Agents -> SUBSET Message]
  BY DEF StartTurn, TypeOK
<1>4. inbox' \in [Agents -> SUBSET Message]
  BY DEF StartTurn, TypeOK
<1> QED BY <1>1, <1>2, <1>3, <1>4

LEMMA RelayTypes ==
    ASSUME TypeOK, NEW from \in Members, NEW about \in 0..MaxTerminals, NEW S \in SUBSET Agents,
           Relay(from, about, S), Len(units) < MaxUnits
    PROVE  /\ units' \in Seq(UnitType) /\ Len(units') = Len(units) + 1
           /\ Cardinality(Announced') =
                 IF about # 0 THEN Cardinality(Announced) + 1 ELSE Cardinality(Announced)
           /\ inbox' \in [Agents -> SUBSET Message]
<1> DEFINE r == [from |-> from, about |-> about]
<1>1. units \in Seq(UnitType) /\ Len(units) \in Nat
  BY DEF TypeOK, UnitType
<1>2. r \in UnitType /\ r.about = about /\ units' = Append(units, r)
  BY DEF UnitType, Relay
<1>3. Fast(Len(units) + 1) \in Message
  BY <1>1, LoopAssumption, MessageOf DEF Unit
<1>4. inbox' \in [Agents -> SUBSET Message]
  BY <1>3 DEF Relay, TypeOK
<1> HIDE DEF r
<1>5. units' \in Seq(UnitType) /\ Len(units') = Len(units) + 1
  BY <1>1, <1>2
<1> QED BY <1>2, <1>4, <1>5, AnnouncedAppend

\* A message of the announcer is relayed to the turns in flight, those apart
\* into which it cannot be injected.
LEMMA AnnounceRelays ==
    ASSUME NEW about, Announce(about)
    PROVE  \E S \in SUBSET Receivers("announcer") :
              /\ Relay("announcer", about, S)
              /\ missed' = missed \cup
                    {<<m, Len(units) + 1>> : m \in Receivers("announcer") \ S}
              /\ throws' = throws \/ throws' = throws + 1
BY DEF Announce

LEMMA AnnounceTypes ==
    ASSUME TypeOK, HistOK, NEW about \in 0..MaxTerminals, Announce(about), Len(units) < MaxUnits
    PROVE  /\ units' \in Seq(UnitType) /\ Len(units') = Len(units) + 1
           /\ Cardinality(Announced') =
                 IF about # 0 THEN Cardinality(Announced) + 1 ELSE Cardinality(Announced)
           /\ inbox' \in [Agents -> SUBSET Message]
           /\ missed' \subseteq Agents \X Unit /\ throws' \in Nat
           /\ UNCHANGED <<drained, seen>>
<1>1. PICK S \in SUBSET Receivers("announcer") :
         /\ Relay("announcer", about, S)
         /\ missed' = missed \cup {<<m, Len(units) + 1>> : m \in Receivers("announcer") \ S}
         /\ throws' = throws \/ throws' = throws + 1
  BY AnnounceRelays
<1>2. Receivers("announcer") \subseteq Agents /\ "announcer" \in Members
  BY DEF Receivers, Members
<1>3. Len(units) \in Nat /\ Len(units) + 1 \in Unit
  BY LoopAssumption DEF TypeOK, Unit
<1>4. missed' \subseteq Agents \X Unit
  BY <1>1, <1>2, <1>3 DEF TypeOK
<1>5. throws' \in Nat
  BY <1>1 DEF HistOK
<1>6. UNCHANGED <<drained, seen>>
  BY <1>1 DEF Relay
<1> QED BY <1>1, <1>2, <1>4, <1>5, <1>6, RelayTypes

\* Injecting an announcement moves no user message.
LEMMA AnnounceUsers ==
    ASSUME NEW about, Announce(about), NEW m \in Agents
    PROVE  \A x : IsUser(x) => (x \in inbox'[m] <=> x \in inbox[m])
<1>1. PICK S \in SUBSET Receivers("announcer") : Relay("announcer", about, S)
  BY AnnounceRelays
<1>2. inbox'[m] = IF m \in S THEN inbox[m] \cup {Fast(Len(units) + 1)} ELSE inbox[m]
  BY <1>1 DEF Relay
<1>3. ~IsUser(Fast(Len(units) + 1))
  BY MessageFields
<1> QED BY <1>2, <1>3

LEMMA ClaimTypes ==
    ASSUME TypeOK, NEW m \in Agents, Claim(m)
    PROVE  seen' \in [Agents -> [Unit \cup UserMessages -> Nat]]
<1>1. ASSUME NEW x \in Unit \cup UserMessages
      PROVE  Cardinality({y \in inbox[m] : y.of = x}) \in Nat
  <2>1. {y \in inbox[m] : y.of = x} \subseteq {User(x), Drained(x), Fast(x)}
    BY MessageCases DEF TypeOK
  <2>2. IsFiniteSet({User(x), Drained(x), Fast(x)})
    <3>1. {User(x), Drained(x), Fast(x)} = ({User(x)} \cup {Drained(x)}) \cup {Fast(x)}
      OBVIOUS
    <3>2. IsFiniteSet({User(x)})
      BY FS_Singleton
    <3>3. IsFiniteSet({User(x)} \cup {Drained(x)})
      BY <3>2, FS_AddElement
    <3>4. IsFiniteSet(({User(x)} \cup {Drained(x)}) \cup {Fast(x)})
      BY <3>3, FS_AddElement
    <3> QED BY <3>1, <3>4
  <2> QED BY <2>1, <2>2, FS_Subset, FS_CardinalityType
<1> DEFINE c(x) == Cardinality({y \in inbox[m] : y.of = x})
<1>2. \A x \in Unit \cup UserMessages : c(x) \in Nat
  BY <1>1
<1>3. seen' = [seen EXCEPT ![m] = [x \in DOMAIN seen[m] |-> seen[m][x] + c(x)]]
  BY DEF Claim
<1> HIDE DEF c
<1> DEFINE X == Unit \cup UserMessages
           s == [x \in X |-> seen[m][x] + c(x)]
<1>4. seen \in [Agents -> [X -> Nat]] /\ seen[m] \in [X -> Nat] /\ DOMAIN seen[m] = X
  BY DEF TypeOK
<1>5. s \in [X -> Nat] /\ seen' = [seen EXCEPT ![m] = s]
  BY <1>2, <1>3, <1>4
<1> HIDE DEF X, s
<1>6. seen' \in [Agents -> [X -> Nat]]
  BY <1>4, <1>5
<1> QED BY <1>6 DEF X

LEMMA TypeInvInit == Init => TypeInv
<1> SUFFICES ASSUME Init PROVE TypeInv
  OBVIOUS
<1>1. TypeOK
  <2>1. FlowInit \in FlowType /\ 0 \in 0..MaxTerminals
    BY LoopAssumption DEF FlowInit, FlowType, Activities, Outcomes
  <2>2. seen \in [Agents -> [Unit \cup UserMessages -> Nat]]
    BY DEF Init
  <2>3. units \in Seq([from : Members, about : 0..MaxTerminals]) /\ Len(units) <= MaxUnits
    BY LoopAssumption DEF Init
  <2> QED BY <2>1, <2>2, <2>3 DEF Init, TypeOK, FlowType, Outcomes
<1>2. HistOK
  BY DEF Init, HistOK
<1>3. RoomInv
  <2>1. Announced = {}
    BY DEF Announced, Init
  <2>2. Cardinality(Announced) = 0 /\ Len(units) = 0
    BY <2>1, FS_EmptySet DEF Init
  <2> QED BY <2>2, LoopAssumption DEF RoomInv, Init
<1> QED BY <1>1, <1>2, <1>3 DEF TypeInv

LEMMA TypeInvNext == TypeInv /\ [Next]_vars => TypeInv'
<1> SUFFICES ASSUME TypeInv, [Next]_vars PROVE TypeInv'
  OBVIOUS
<1>t. TypeOK /\ HistOK /\ RoomInv /\ flow \in FlowType
  BY DEF TypeInv, TypeOK, FlowType
<1>c. Cardinality(Announced) \in Nat /\ Len(units) \in Nat
  <2>1. Len(units) \in Nat
    BY <1>t DEF TypeOK
  <2> QED BY <1>t, <2>1, AnnouncedFinite
<1> USE DEF flowVars, turnVars, teamVars, pumpVars, histVars, loopVars
<1>1. CASE Materialize \/ RegisterTeam \/ MaterializeFails \/ Release \/ UNCHANGED vars
             \/ \E m \in Agents : CreateMember(m)
  <2>1. TypeOK'
    BY <1>t, <1>1, ZenonT(40) DEF Materialize, RegisterTeam, MaterializeFails, Release, CreateMember, vars, TypeOK
  <2>2. HistOK' /\ RoomInv'
    BY <1>t, <1>1 DEF Materialize, RegisterTeam, MaterializeFails, Release, CreateMember, vars,
       HistOK, RoomInv, Announced
  <2> QED BY <2>1, <2>2 DEF TypeInv
<1>2. CASE Cancel
  <2>1. LandUnclaimed(activeMember) \subseteq UserMessages
    BY <1>t, MessageCases DEF LandUnclaimed, Of, IsUser, TypeOK
  <2>2. /\ landed' \subseteq UserMessages /\ abort' \in [Agents -> BOOLEAN]
        /\ inbox' \in [Agents -> SUBSET Message] /\ flow' \in FlowType
        /\ UNCHANGED <<turn, hold, held>>
    <3>1. flow' \in FlowType
      BY <1>2, <1>t DEF Cancel, FlowType, Outcomes
    <3>2. landed' \subseteq UserMessages
      BY <1>2, <1>t, <2>1 DEF Cancel, TypeOK
    <3>3. abort' \in [Agents -> BOOLEAN] /\ inbox' \in [Agents -> SUBSET Message]
      BY <1>2, <1>t DEF Cancel, TypeOK
    <3>4. UNCHANGED <<turn, hold, held>>
      BY <1>2 DEF Cancel
    <3> QED BY <3>1, <3>2, <3>3, <3>4
  <2>3. cancelAsked' \in [Agents -> BOOLEAN]
    BY <1>2, <1>t DEF Cancel, HistOK, busy
  <2>4. TypeOK'
    BY <1>2, <1>t, <2>2 DEF Cancel, TypeOK, FlowType
  <2>5. HistOK' /\ RoomInv'
    BY <1>2, <1>t, <2>3 DEF Cancel, HistOK, RoomInv, Announced
  <2> QED BY <2>4, <2>5 DEF TypeInv
<1>3. CASE Dispose
  <2>1. abort' \in [Agents -> BOOLEAN] /\ inbox' \in [Agents -> SUBSET Message]
    BY <1>3, <1>t DEF Dispose, TypeOK, busy
  <2>2. TypeOK'
    BY <1>3, <1>t, <2>1 DEF Dispose, TypeOK
  <2>3. HistOK' /\ RoomInv'
    BY <1>3, <1>t DEF Dispose, HistOK, RoomInv, Announced
  <2> QED BY <2>2, <2>3 DEF TypeInv
<1>4. CASE PumpRun
  <2>1. TypeOK'
    BY <1>4, <1>t, ZenonT(40) DEF PumpRun, TypeOK, Outcomes
  <2>2. HistOK' /\ RoomInv'
    BY <1>4, <1>t DEF PumpRun, HistOK, RoomInv, Announced
  <2> QED BY <2>1, <2>2 DEF TypeInv
<1>6. CASE PumpExecute
  <2> USE <1>6 DEF PumpExecute
  <2>1. CASE ExecuteAtOnce
    <3>1. TypeOK'
      BY <1>t, <2>1 DEF ExecuteAtOnce, TypeOK, Outcomes
    <3>2. HistOK' /\ RoomInv'
      BY <1>t, <2>1 DEF ExecuteAtOnce, HistOK, RoomInv, Announced
    <3> QED BY <3>1, <3>2 DEF TypeInv
  <2>2. CASE ExecuteAnnounce
    <3>1. /\ terminal \in Nat /\ statsSent \in Nat /\ terminal \in 0..MaxTerminals
          /\ terminal # 0 /\ statsSent < terminal
      BY <1>t, <2>2, LoopAssumption DEF ExecuteAnnounce, TypeOK, RoomInv
    <3>2. Len(units) < MaxUnits
      BY <1>t, <1>c, <3>1, LoopAssumption DEF RoomInv, TypeOK
    <3>3. /\ units' \in Seq(UnitType) /\ Len(units') = Len(units) + 1
          /\ Cardinality(Announced') = Cardinality(Announced) + 1
          /\ inbox' \in [Agents -> SUBSET Message]
          /\ missed' \subseteq Agents \X Unit /\ throws' \in Nat
          /\ UNCHANGED <<drained, seen>>
      BY <1>t, <2>2, <3>1, <3>2, AnnounceTypes DEF ExecuteAnnounce
    <3>4. TypeOK'
      <4>1. /\ units' \in Seq([from : Members, about : 0..MaxTerminals])
            /\ Len(units') <= MaxUnits /\ statsSent' \in 0..MaxTerminals
        BY <1>c, <2>2, <3>1, <3>2, <3>3, LoopAssumption DEF ExecuteAnnounce, UnitType
      <4> QED BY <1>t, <2>2, <3>3, <4>1 DEF ExecuteAnnounce, TypeOK, Outcomes
    <3>5. HistOK' /\ RoomInv'
      BY <1>t, <1>c, <2>2, <3>1, <3>3, LoopAssumption DEF ExecuteAnnounce, HistOK, RoomInv
    <3> QED BY <3>4, <3>5 DEF TypeInv
  <2>3. CASE ExecuteAnnounceThrows
    <3>1. TypeOK'
      BY <1>t, <2>3 DEF ExecuteAnnounceThrows, TypeOK, Outcomes
    <3>2. HistOK' /\ RoomInv'
      BY <1>t, <2>3 DEF ExecuteAnnounceThrows, HistOK, RoomInv, Announced
    <3> QED BY <3>1, <3>2 DEF TypeInv
  <2>4. CASE ExecuteDrive
    <3>1. activeMember \in Agents /\ StartTurn(activeMember, DefaultInput(activeMember), TRUE)
      BY <2>4 DEF ExecuteDrive
    <3>2. /\ DefaultInput(activeMember) \subseteq Message
          /\ DrainMark(activeMember, Pending(activeMember)) \subseteq Unit
      BY <3>1, <1>t, InputTypes
    <3>3. /\ turn' \in [Agents -> {"none", "woken", "running"}]
          /\ hold' \in [Agents -> BOOLEAN] /\ abort' \in [Agents -> BOOLEAN]
          /\ held' \in [Agents -> SUBSET Message] /\ inbox' \in [Agents -> SUBSET Message]
      BY <1>t, <3>1, <3>2, StartTurnTypes
    <3>4. drained' \in [Agents -> SUBSET Unit]
      BY <1>t, <2>4, <3>1, <3>2 DEF ExecuteDrive, TypeOK
    <3>5. TypeOK'
      BY <1>t, <2>4, <3>3, <3>4 DEF ExecuteDrive, TypeOK, Outcomes
    <3>6. HistOK' /\ RoomInv'
      BY <1>t, <2>4 DEF ExecuteDrive, HistOK, RoomInv, Announced
    <3> QED BY <3>5, <3>6 DEF TypeInv
  <2>5. CASE ExecuteThrows
    <3>1. drained' \in [Agents -> SUBSET Unit] /\ throws' \in Nat
      <4>1. CASE UNCHANGED <<drained, throws>>
        BY <4>1, <1>t DEF TypeOK, HistOK
      <4>2. CASE throws' = throws + 1 /\ \E built \in SUBSET Pending(activeMember) :
                    drained' = [drained EXCEPT ![activeMember] = DrainMark(activeMember, built)]
        <5>1. activeMember \in Agents
          BY <2>5 DEF ExecuteThrows
        <5>2. \A built \in SUBSET Pending(activeMember) : DrainMark(activeMember, built) \subseteq Unit
          BY <5>1, <1>t, InputTypes
        <5> QED BY <4>2, <5>1, <5>2, <1>t DEF TypeOK, HistOK
      <4> QED BY <2>5, <4>1, <4>2 DEF ExecuteThrows
    <3>2. TypeOK'
      BY <1>t, <2>5, <3>1 DEF ExecuteThrows, TypeOK, Outcomes
    <3>3. HistOK' /\ RoomInv'
      BY <1>t, <2>5, <3>1 DEF ExecuteThrows, HistOK, RoomInv, Announced
    <3> QED BY <3>2, <3>3 DEF TypeInv
  <2> QED BY <2>1, <2>2, <2>3, <2>4, <2>5
<1>5. CASE PumpDecide
  <2>1. flow' \in FlowType /\ pump' \in {"execute", "none"} /\ wake' = "null"
    BY <1>5, <1>t, PumpDecides DEF PumpDecide, TypeOK, HistOK
  <2>2. TypeOK'
    BY <1>5, <1>t, <2>1 DEF PumpDecide, TypeOK, FlowType
  <2>3. HistOK' /\ RoomInv'
    BY <1>5, <1>t DEF PumpDecide, HistOK, RoomInv, Announced
  <2> QED BY <2>2, <2>3 DEF TypeInv
<1>7. ASSUME NEW u \in UserMessages, Submit(u) PROVE TypeInv'
  <2> USE <1>7 DEF Submit
  <2>1. CASE Steer(u)
    <3>1. activeMember \in Agents /\ landed \cup {u} \subseteq UserMessages
      BY <2>1, <1>t DEF Steer, busy, TypeOK
    <3>2. {User(v) : v \in landed \cup {u}} \subseteq Message
      BY <3>1 DEF Message
    <3>3. inbox' \in [Agents -> SUBSET Message]
      BY <2>1, <1>t, <3>1, <3>2 DEF Steer, TypeOK
    <3>4. TypeOK'
      BY <1>t, <2>1, <3>3 DEF Steer, TypeOK
    <3>5. HistOK' /\ RoomInv'
      BY <1>t, <2>1 DEF Steer, HistOK, RoomInv, Announced
    <3> QED BY <3>4, <3>5 DEF TypeInv
  <2>2. CASE Deliver(u)
    <3> DEFINE batch == FreshInput(activeMember) \cup {User(u)}
    <3>1. activeMember \in Agents /\ StartTurn(activeMember, batch, FALSE)
      BY <2>2 DEF Deliver
    <3>2. /\ FreshInput(activeMember) \subseteq Message
          /\ DrainMark(activeMember, Pending(activeMember)) \subseteq Unit
      BY <3>1, <1>t, InputTypes
    <3>3. batch \subseteq Message
      BY <3>2, MessageOf
    <3>4. /\ turn' \in [Agents -> {"none", "woken", "running"}]
          /\ hold' \in [Agents -> BOOLEAN] /\ abort' \in [Agents -> BOOLEAN]
          /\ held' \in [Agents -> SUBSET Message] /\ inbox' \in [Agents -> SUBSET Message]
      <4> HIDE DEF batch
      <4> QED BY <1>t, <3>1, <3>3, StartTurnTypes
    <3>5. drained' \in [Agents -> SUBSET Unit]
      BY <1>t, <2>2, <3>1, <3>2 DEF Deliver, TypeOK
    <3>6. TypeOK'
      BY <1>t, <2>2, <3>4, <3>5 DEF Deliver, RequestPump, TypeOK
    <3>7. HistOK' /\ RoomInv'
      BY <1>t, <2>2 DEF Deliver, RequestPump, HistOK, RoomInv, Announced
    <3> QED BY <3>6, <3>7 DEF TypeInv
  <2>3. CASE DeliverThrows(u)
    <3>1. activeMember \in Agents /\ throws' = throws + 1
      BY <2>3 DEF DeliverThrows
    <3>2. PICK built \in SUBSET Pending(activeMember) :
             drained' = [drained EXCEPT ![activeMember] = DrainMark(activeMember, built)]
      BY <2>3 DEF DeliverThrows
    <3>3. DrainMark(activeMember, built) \subseteq Unit
      BY <3>1, <1>t, InputTypes
    <3>4. drained' \in [Agents -> SUBSET Unit]
      BY <3>1, <3>2, <3>3, <1>t DEF TypeOK
    <3>5. flow' \in FlowType
      BY <2>3, <1>t DEF DeliverThrows, FlowType, Outcomes
    <3>6. TypeOK'
      BY <1>t, <2>3, <3>4, <3>5 DEF DeliverThrows, TypeOK, FlowType
    <3>7. HistOK' /\ RoomInv'
      BY <1>t, <2>3 DEF DeliverThrows, HistOK, RoomInv, Announced
    <3> QED BY <3>6, <3>7 DEF TypeInv
  <2>4. CASE DeliverToAnnouncer(u)
    <3>1. TypeOK'
      BY <1>t, <2>4 DEF DeliverToAnnouncer, RequestPump, TypeOK
    <3>2. HistOK' /\ RoomInv'
      BY <1>t, <2>4 DEF DeliverToAnnouncer, RequestPump, HistOK, RoomInv, Announced
    <3> QED BY <3>1, <3>2 DEF TypeInv
  <2> QED BY <2>1, <2>2, <2>3, <2>4
<1>8. ASSUME NEW m \in Agents, Claim(m) PROVE TypeInv'
  <2>1. seen' \in [Agents -> [Unit \cup UserMessages -> Nat]]
    BY <1>8, <1>t, ClaimTypes
  <2>2. /\ turn' \in [Agents -> {"none", "woken", "running"}]
        /\ inbox' \in [Agents -> SUBSET Message]
    BY <1>8, <1>t DEF Claim, TypeOK
  <2>3. TypeOK'
    BY <1>8, <1>t, <2>1, <2>2 DEF Claim, TypeOK
  <2>4. HistOK' /\ RoomInv'
    BY <1>8, <1>t DEF Claim, HistOK, RoomInv, Announced
  <2> QED BY <2>3, <2>4 DEF TypeInv
<1>9. ASSUME Room,
             UNCHANGED <<life, created, flowVars, turn, hold, held, abort, landed, pumpVars,
                         lastError, sent, failures, cancelAsked, drained, seen>>,
             Len(units) < MaxUnits =>
                /\ units' \in Seq(UnitType) /\ Len(units') = Len(units) + 1
                /\ Cardinality(Announced') = Cardinality(Announced)
                /\ inbox' \in [Agents -> SUBSET Message]
                /\ missed' \subseteq Agents \X Unit /\ throws' \in Nat
      PROVE  TypeInv'
  <2>0. Room <=> Len(units) + (MaxTerminals - Cardinality(Announced)) < MaxUnits
    BY DEF Room, Announced
  <2>1. Len(units) < MaxUnits /\ 0 \in 0..MaxTerminals
    BY <1>9, <2>0, <1>t, <1>c, LoopAssumption DEF RoomInv, TypeOK
  <2>2. /\ units' \in Seq(UnitType) /\ Len(units') = Len(units) + 1
        /\ Cardinality(Announced') = Cardinality(Announced)
        /\ inbox' \in [Agents -> SUBSET Message]
        /\ missed' \subseteq Agents \X Unit /\ throws' \in Nat
    BY <1>9, <2>1
  <2>3. TypeOK'
    <3>1. /\ units' \in Seq([from : Members, about : 0..MaxTerminals])
          /\ Len(units') <= MaxUnits
      BY <1>c, <2>1, <2>2, LoopAssumption DEF UnitType
    <3> QED BY <1>9, <1>t, <2>2, <3>1 DEF TypeOK
  <2>4. HistOK' /\ RoomInv'
    BY <1>9, <1>t, <1>c, <2>0, <2>2, LoopAssumption DEF HistOK, RoomInv
  <2> QED BY <2>3, <2>4 DEF TypeInv
<1>10. ASSUME NEW m \in Agents, Speak(m) PROVE TypeInv'
  <2>1. Relay(m, 0, {}) /\ m \in Members /\ 0 \in 0..MaxTerminals
    BY <1>10, LoopAssumption DEF Speak, Members
  <2>2. UNCHANGED <<drained, seen, missed, throws>>
    BY <1>10, <2>1 DEF Speak, Relay
  <2>3. missed' \subseteq Agents \X Unit /\ throws' \in Nat
    BY <1>t, <2>2 DEF TypeOK, HistOK
  <2> QED BY <1>9, <1>10, <1>t, <2>1, <2>2, <2>3, RelayTypes DEF Speak
<1>11. CASE HookAnnounce
  <2>1. Announce(0) /\ 0 \in 0..MaxTerminals
    BY <1>11, LoopAssumption DEF HookAnnounce
  <2>2. UNCHANGED <<drained, seen>>
    BY <2>1, AnnounceRelays DEF Relay
  <2> QED BY <1>9, <1>11, <1>t, <2>1, <2>2, AnnounceTypes DEF HookAnnounce
<1>12. CASE GameEnds
  <2>1. terminal' \in 0..MaxTerminals /\ terminal' >= terminal
    BY <1>12, <1>t, LoopAssumption DEF GameEnds, TypeOK
  <2>2. TypeOK'
    BY <1>12, <1>t, <2>1 DEF GameEnds, TypeOK
  <2>3. HistOK' /\ RoomInv'
    <3>1. statsSent' <= terminal'
      BY <1>12, <1>t, <2>1, LoopAssumption DEF GameEnds, RoomInv, TypeOK
    <3> QED BY <1>12, <1>t, <3>1 DEF GameEnds, HistOK, RoomInv, Announced
  <2> QED BY <2>2, <2>3 DEF TypeInv
<1>13. ASSUME NEW m \in Agents, NEW f \in BOOLEAN, TurnEnds(m, f) PROVE TypeInv'
  <2> DEFINE outcome == IF abort[m] THEN "aborted" ELSE IF f THEN "failed" ELSE "settled"
  <2>1. outcome \in {"aborted", "failed", "settled"}
    OBVIOUS
  <2>2. /\ turn' = [turn EXCEPT ![m] = "none"] /\ abort' = [abort EXCEPT ![m] = FALSE]
        /\ held' = [held EXCEPT ![m] = IF hold[m] /\ outcome = "settled" THEN {} ELSE held[m]]
        /\ failures' = IF f THEN failures + 1 ELSE failures
        /\ cancelAsked' = [cancelAsked EXCEPT ![m] = FALSE]
        /\ lastError' = IF life = "live" \/ pump = "drive" THEN ErrorAfter(outcome) ELSE lastError
        /\ wake' = IF pump = "external" /\ outcome = "settled" THEN "null" ELSE outcome
        /\ pump' = PumpAfterAwait
        /\ UNCHANGED <<life, created, flowVars, hold, inbox, landed, teamVars, externalPending,
                       sent, throws, missed, abandoned, replayed>>
    BY <1>13 DEF TurnEnds
  <2> HIDE DEF outcome
  <2>3. /\ turn' \in [Agents -> {"none", "woken", "running"}] /\ abort' \in [Agents -> BOOLEAN]
        /\ held' \in [Agents -> SUBSET Message] /\ cancelAsked' \in [Agents -> BOOLEAN]
        /\ wake' \in {"null", "settled", "resting", "failed", "aborted"}
        /\ pump' \in {"none", "run", "decide"} /\ failures' \in Nat
        /\ lastError' \in {"none", "member-turn", "orchestration"}
    BY <2>1, <2>2, <1>t DEF TypeOK, HistOK, ErrorAfter, PumpAfterAwait
  <2>4. TypeOK'
    BY <2>2, <2>3, <1>t, ZenonT(40) DEF TypeOK, Outcomes
  <2>5. HistOK' /\ RoomInv'
    BY <2>2, <2>3, <1>t DEF HistOK, RoomInv, Announced
  <2> QED BY <2>4, <2>5 DEF TypeInv
<1> QED BY <1>1, <1>2, <1>3, <1>4, <1>5, <1>6, <1>7, <1>8, <1>10, <1>11, <1>12, <1>13 DEF Next

-----------------------------------------------------------------------------
(* The pump, the turn in flight and the life of the team.                    *)

\* What the pump is about to do fits the turn in flight, the wake it carries
\* and the error on record.
PumpInv ==
    /\ pump \in {"run", "decide", "execute"} => life = "live"
    /\ pump # "none" => life \in {"live", "disposing"}
    /\ pump = "run" /\ externalPending =>
          activeMember = "announcer" \/ (busy(activeMember) /\ ~hold[activeMember])
    /\ pump = "run" /\ ~externalPending => ~busy(activeMember) /\ wake # "null"
    /\ pump = "drive" => hold[activeMember]
    /\ pump = "external" => ~hold[activeMember]
    /\ pump \in {"run", "decide"} /\ ~externalPending /\ wake # "failed" => lastError = "none"
    /\ pump = "execute" => lastError = "none"
    /\ \A m \in Agents : abort[m] => busy(m)

DriveInv == OneDriver /\ NoHalfTeam /\ ReleasedIdle /\ PumpInv

LEMMA DriveInvInit == Init => DriveInv
BY DEF Init, DriveInv, OneDriver, NoHalfTeam, ReleasedIdle, PumpInv, busy, Agents

\* The turns of all members but m are over, and m is the active one.
LEMMA OnlyActive ==
    ASSUME TypeInv, DriveInv, NEW m \in Agents, busy(m)
    PROVE  /\ m = activeMember /\ pump \in {"run", "external", "drive"}
           /\ \A k \in Agents : k # m => ~busy(k)
BY DEF DriveInv, OneDriver

LEMMA DriveInvNext == TypeInv /\ DriveInv /\ [Next]_vars => DriveInv'
<1> SUFFICES ASSUME TypeInv, DriveInv, [Next]_vars PROVE DriveInv'
  OBVIOUS
<1>t. TypeOK /\ HistOK /\ flow \in FlowType /\ flow.pos \in Activities
  BY DEF TypeInv, TypeOK, FlowType
<1>d. OneDriver /\ NoHalfTeam /\ ReleasedIdle /\ PumpInv
  BY DEF DriveInv
<1>a. activeMember \in Members /\ (activeMember # "announcer" => activeMember \in Agents)
      /\ (activeMember = "announcer" => ~busy(activeMember))
  BY <1>t, ActiveMember DEF busy, Members, Agents
<1> USE DEF flowVars, turnVars, teamVars, pumpVars, histVars, loopVars
<1>1. CASE Materialize \/ RegisterTeam \/ MaterializeFails \/ UNCHANGED vars
             \/ \E m \in Agents : CreateMember(m)
  <2>1. /\ UNCHANGED <<flow, pump, externalPending, turn, hold, abort, wake, throws>>
        /\ lastError' \in {"none", lastError}
    BY <1>1 DEF Materialize, RegisterTeam, MaterializeFails, CreateMember, vars
  <2>2. activeMember' = activeMember /\ \A k : busy(k)' = busy(k)
    BY <2>1 DEF activeMember, busy
  <2>3. life' # life => pump = "none" /\ life' # "disposed"
    BY <1>1, <1>d DEF Materialize, RegisterTeam, MaterializeFails, CreateMember, vars, PumpInv
  <2>4. OneDriver' /\ PumpInv' /\ ReleasedIdle'
    BY <2>1, <2>2, <2>3, <1>d DEF OneDriver, PumpInv, ReleasedIdle
  <2>5. NoHalfTeam'
    BY <1>1, <1>d DEF Materialize, RegisterTeam, MaterializeFails, CreateMember, vars, NoHalfTeam
  <2> QED BY <2>4, <2>5 DEF DriveInv
<1>2. CASE Release
  <2>1. UNCHANGED <<flow, pump, externalPending, turn, hold, abort, wake, throws>>
    BY <1>2 DEF Release
  <2>2. activeMember' = activeMember /\ \A k : busy(k)' = busy(k)
    BY <2>1 DEF activeMember, busy
  <2>3. pump = "none" /\ life' = "disposed" /\ created' = {} /\ lastError' = "none"
    BY <1>2 DEF Release
  <2> QED BY <2>1, <2>2, <2>3, <1>d
          DEF DriveInv, OneDriver, PumpInv, ReleasedIdle, NoHalfTeam, Agents
<1>3. CASE Cancel
  <2>1. /\ UNCHANGED <<life, created, pump, externalPending, turn, hold, wake, lastError, throws>>
        /\ flow'.pos = flow.pos /\ life = "live"
    BY <1>3, <1>t DEF Cancel, FlowType
  <2>2. activeMember' = activeMember /\ \A k : busy(k)' = busy(k)
    BY <2>1 DEF activeMember, busy
  <2>3. \A k \in Agents : abort'[k] => abort[k] \/ busy(k)
    BY <1>3, <1>t DEF Cancel, TypeOK
  <2> QED BY <2>1, <2>2, <2>3, <1>d
          DEF DriveInv, OneDriver, PumpInv, ReleasedIdle, NoHalfTeam
<1>4. CASE Dispose
  <2>1. /\ UNCHANGED <<created, flow, pump, externalPending, turn, hold, wake, lastError, throws>>
        /\ life = "live" /\ life' = "disposing" /\ pump \in {"none", "external", "drive"}
    BY <1>4 DEF Dispose, Settled
  <2>2. activeMember' = activeMember /\ \A k : busy(k)' = busy(k)
    BY <2>1 DEF activeMember, busy
  <2>3. \A k \in Agents : abort'[k] => abort[k] \/ busy(k)
    BY <1>4 DEF Dispose
  <2> QED BY <2>1, <2>2, <2>3, <1>d
          DEF DriveInv, OneDriver, PumpInv, ReleasedIdle, NoHalfTeam
<1>5. CASE PumpRun
  <2>1. UNCHANGED <<life, created, flow, turn, hold, abort, throws>> /\ pump = "run"
    BY <1>5 DEF PumpRun
  <2>2. activeMember' = activeMember /\ \A k : busy(k)' = busy(k)
    BY <2>1 DEF activeMember, busy
  <2>3. CASE externalPending /\ busy(activeMember)
    <3>1. pump' = "external" /\ ~externalPending' /\ UNCHANGED <<wake, lastError>>
      BY <1>5, <2>3 DEF PumpRun
    <3> QED BY <2>1, <2>2, <2>3, <3>1, <1>d, <1>a
            DEF DriveInv, OneDriver, PumpInv, ReleasedIdle, NoHalfTeam
  <2>4. CASE ~(externalPending /\ busy(activeMember))
    <3>1. /\ pump' = "decide" /\ ~externalPending'
          /\ wake' = IF externalPending THEN "resting" ELSE wake
          /\ lastError' = IF externalPending THEN "none" ELSE lastError
      BY <1>5, <2>4 DEF PumpRun
    <3>2. ~busy(activeMember)
      BY <2>1, <2>4, <1>d DEF PumpInv
    <3>3. \A k \in Agents : ~busy(k)
      BY <3>2, <1>d DEF OneDriver
    <3> QED BY <2>1, <2>2, <3>1, <3>2, <3>3, <1>d
            DEF DriveInv, OneDriver, PumpInv, ReleasedIdle, NoHalfTeam
  <2> QED BY <2>3, <2>4
<1>6. CASE PumpDecide
  <2>1. /\ UNCHANGED <<life, created, turn, hold, abort, throws, externalPending, lastError>>
        /\ pump = "decide" /\ wake' = "null"
    BY <1>6 DEF PumpDecide
  <2>2. \A k \in Agents : ~busy(k)
    BY <2>1, <1>d DEF OneDriver
  <2>3. \A k : busy(k)' = busy(k)
    BY <2>1 DEF busy
  <2>4. ~externalPending /\ life = "live"
    BY <2>1, <1>d DEF OneDriver, PumpInv
  <2>5. pump' = "none" \/ (pump' = "execute" /\ wake # "failed")
    BY <1>6, <1>t, PumpDecides DEF Stalls, Retries, Rests, Moves, TypeOK, HistOK
  <2> QED BY <2>1, <2>2, <2>3, <2>4, <2>5, <1>d
          DEF DriveInv, OneDriver, PumpInv, ReleasedIdle, NoHalfTeam
<1>7. CASE PumpExecute
  <2>1. /\ UNCHANGED <<life, created, flow, externalPending>> /\ pump = "execute"
        /\ ~externalPending /\ life = "live" /\ lastError = "none"
        /\ \A k \in Agents : ~busy(k)
    BY <1>7, <1>d DEF PumpExecute, OneDriver, PumpInv
  <2>2. activeMember' = activeMember
    BY <2>1 DEF activeMember
  <2>3. CASE ExecuteDrive
    <3>1. /\ activeMember \in Agents /\ pump' = "drive" /\ UNCHANGED <<lastError, throws>>
          /\ turn' = [turn EXCEPT ![activeMember] = "woken"]
          /\ hold' = [hold EXCEPT ![activeMember] = TRUE]
          /\ abort' = [abort EXCEPT ![activeMember] = FALSE]
      BY <2>3 DEF ExecuteDrive, StartTurn
    <3>2. /\ \A k \in Agents : busy(k)' <=> k = activeMember
          /\ hold'[activeMember] /\ \A k \in Agents : ~abort'[k]
      BY <2>1, <3>1, <1>t, <1>d DEF busy, TypeOK, PumpInv
    <3> QED BY <2>1, <2>2, <3>1, <3>2, <1>d
            DEF DriveInv, OneDriver, PumpInv, ReleasedIdle, NoHalfTeam
  <2>4. CASE ExecuteAtOnce \/ ExecuteAnnounce \/ ExecuteAnnounceThrows \/ ExecuteThrows
    <3>1. UNCHANGED <<turn, hold, abort>> /\ pump' = "run" /\ wake' # "null"
      BY <2>4 DEF ExecuteAtOnce, ExecuteAnnounce, ExecuteAnnounceThrows, ExecuteThrows
    <3>2. \A k : busy(k)' = busy(k)
      BY <3>1 DEF busy
    <3>3. (wake' # "failed" => lastError' = "none") /\ (lastError' = "orchestration" => throws' > 0)
      BY <2>1, <2>4, <1>t DEF ExecuteAtOnce, ExecuteAnnounce, ExecuteAnnounceThrows, ExecuteThrows,
         HistOK
    <3> QED BY <2>1, <2>2, <3>1, <3>2, <3>3, <1>d, <1>a
            DEF DriveInv, OneDriver, PumpInv, ReleasedIdle, NoHalfTeam
  <2> QED BY <1>7, <2>3, <2>4 DEF PumpExecute
<1>8. ASSUME NEW u \in UserMessages, Submit(u) PROVE DriveInv'
  <2>1. /\ UNCHANGED <<life, created>> /\ life = "live" /\ pump \in {"none", "external", "drive"}
        /\ ~externalPending
    BY <1>8, <1>d DEF Submit, Settled, OneDriver
  <2>2. CASE Steer(u)
    <3>1. UNCHANGED <<flow, turn, hold, abort, pump, externalPending, wake, lastError, throws>>
      BY <2>2 DEF Steer
    <3>2. activeMember' = activeMember /\ \A k : busy(k)' = busy(k)
      BY <3>1 DEF activeMember, busy
    <3> QED BY <2>1, <3>1, <3>2, <1>d
            DEF DriveInv, OneDriver, PumpInv, ReleasedIdle, NoHalfTeam
  <2>3. CASE Deliver(u)
    <3>1. /\ activeMember \in Agents /\ ~busy(activeMember)
          /\ UNCHANGED <<flow, lastError, throws, wake>> /\ externalPending' = TRUE
          /\ pump' = IF pump = "none" THEN "run" ELSE pump
          /\ turn' = [turn EXCEPT ![activeMember] = "woken"]
          /\ hold' = [hold EXCEPT ![activeMember] = FALSE]
          /\ abort' = [abort EXCEPT ![activeMember] = FALSE]
      BY <2>3 DEF Deliver, StartTurn, RequestPump
    <3>2. pump = "none" /\ \A k \in Agents : ~busy(k)
      BY <2>1, <3>1, <1>d DEF OneDriver
    <3>3. /\ \A k \in Agents : busy(k)' <=> k = activeMember
          /\ ~hold'[activeMember] /\ \A k \in Agents : ~abort'[k]
      BY <3>1, <3>2, <1>t, <1>d DEF busy, TypeOK, PumpInv
    <3>4. activeMember' = activeMember
      BY <3>1 DEF activeMember
    <3> QED BY <2>1, <3>1, <3>2, <3>3, <3>4, <1>d
            DEF DriveInv, OneDriver, PumpInv, ReleasedIdle, NoHalfTeam
  <2>4. CASE DeliverThrows(u)
    <3>1. /\ UNCHANGED <<turn, hold, abort, pump, externalPending, wake>>
          /\ flow'.pos = flow.pos /\ throws' = throws + 1 /\ ~busy(activeMember)
      BY <2>4, <1>t DEF DeliverThrows, FlowType
    <3>2. activeMember' = activeMember /\ \A k : busy(k)' = busy(k)
      BY <3>1 DEF activeMember, busy
    <3>3. throws' > 0
      BY <3>1, <1>t DEF HistOK
    <3>4. pump = "none"
      BY <2>1, <3>1, <1>d DEF OneDriver
    <3> QED BY <2>1, <3>1, <3>2, <3>3, <3>4, <1>d
            DEF DriveInv, OneDriver, PumpInv, ReleasedIdle, NoHalfTeam
  <2>5. CASE DeliverToAnnouncer(u)
    <3>1. /\ UNCHANGED <<flow, turn, hold, abort, lastError, throws, wake>>
          /\ externalPending' = TRUE /\ activeMember = "announcer"
          /\ pump' = IF pump = "none" THEN "run" ELSE pump
      BY <2>5 DEF DeliverToAnnouncer, RequestPump
    <3>2. pump = "none"
      BY <2>1, <3>1, <1>a, <1>d DEF OneDriver
    <3>3. activeMember' = activeMember /\ \A k : busy(k)' = busy(k)
      BY <3>1 DEF activeMember, busy
    <3> QED BY <2>1, <3>1, <3>2, <3>3, <1>d
            DEF DriveInv, OneDriver, PumpInv, ReleasedIdle, NoHalfTeam
  <2> QED BY <1>8, <2>2, <2>3, <2>4, <2>5 DEF Submit
<1>9. ASSUME NEW m \in Agents, Claim(m) PROVE DriveInv'
  <2>1. UNCHANGED <<life, created, flow, hold, abort, pump, externalPending, wake, lastError, throws>>
    BY <1>9 DEF Claim
  <2>2. activeMember' = activeMember /\ \A k \in Agents : busy(k)' = busy(k)
    BY <1>9, <2>1, <1>t DEF Claim, activeMember, busy, TypeOK
  <2>3. busy(activeMember)' = busy(activeMember)
    BY <2>2, <1>a DEF busy, Agents
  <2> QED BY <2>1, <2>2, <2>3, <1>d
          DEF DriveInv, OneDriver, PumpInv, ReleasedIdle, NoHalfTeam
<1>10. CASE HookAnnounce \/ GameEnds \/ \E m \in Agents : Speak(m)
  <2>1. /\ UNCHANGED <<life, created, flow, turn, hold, abort, pump, externalPending, wake,
                       lastError>>
        /\ throws > 0 => throws' > 0
    BY <1>10, <1>t, AnnounceRelays DEF HookAnnounce, GameEnds, Speak, HistOK
  <2>2. activeMember' = activeMember /\ \A k : busy(k)' = busy(k)
    BY <2>1 DEF activeMember, busy
  <2> QED BY <2>1, <2>2, <1>d
          DEF DriveInv, OneDriver, PumpInv, ReleasedIdle, NoHalfTeam
<1>11. ASSUME NEW m \in Agents, NEW f \in BOOLEAN, TurnEnds(m, f) PROVE DriveInv'
  <2> DEFINE outcome == IF abort[m] THEN "aborted" ELSE IF f THEN "failed" ELSE "settled"
  <2>1. busy(m) /\ pump \in {"external", "drive"} /\ m = activeMember
        /\ ~externalPending /\ \A k \in Agents : k # m => ~busy(k)
    BY <1>11, <1>d, OnlyActive DEF TurnEnds, Settled, busy, OneDriver
  <2>2. /\ turn' = [turn EXCEPT ![m] = "none"] /\ abort' = [abort EXCEPT ![m] = FALSE]
        /\ lastError' = IF life = "live" \/ pump = "drive" THEN ErrorAfter(outcome) ELSE lastError
        /\ wake' = IF pump = "external" /\ outcome = "settled" THEN "null" ELSE outcome
        /\ pump' = PumpAfterAwait
        /\ UNCHANGED <<life, created, flow, hold, externalPending, throws>>
    BY <1>11 DEF TurnEnds
  <2>3. outcome \in {"aborted", "failed", "settled"}
    OBVIOUS
  <2> HIDE DEF outcome
  <2>4. activeMember' = activeMember /\ \A k \in Agents : ~busy(k)'
    BY <2>1, <2>2, <1>t DEF activeMember, busy, TypeOK
  <2>5. \A k \in Agents : ~abort'[k]
    BY <2>1, <2>2, <1>t, <1>d DEF PumpInv, TypeOK
  <2>6. /\ pump' \in {"none", "run", "decide"} /\ (pump' # "none" => life = "live")
        /\ (pump' = "run" => wake' # "null")
    BY <2>1, <2>2, <2>3 DEF PumpAfterAwait
  <2>7. pump' # "none" /\ wake' # "failed" => lastError' = "none"
    BY <2>2, <2>3, <2>6 DEF ErrorAfter
  <2>8. lastError' = "orchestration" => lastError = "orchestration"
    BY <2>2, <2>3 DEF ErrorAfter
  <2>9. ~busy(activeMember)'
    BY <2>4, <1>a DEF busy
  <2> QED BY <2>1, <2>2, <2>4, <2>5, <2>6, <2>7, <2>8, <2>9, <1>d
          DEF DriveInv, OneDriver, PumpInv, ReleasedIdle, NoHalfTeam
<1> QED BY <1>1, <1>2, <1>3, <1>4, <1>5, <1>6, <1>7, <1>8, <1>9, <1>10, <1>11 DEF Next

\* Until a team is registered nothing has happened to the loop.
NewInv ==
    life \in {"none", "building"} =>
       /\ pump = "none" /\ lastError = "none" /\ flow = FlowInit
       /\ units = <<>> /\ sent = {} /\ landed = {} /\ abandoned = {}
       /\ \A m \in Agents :
             /\ turn[m] = "none" /\ inbox[m] = {} /\ held[m] = {} /\ drained[m] = {}
             /\ \A x \in Unit \cup UserMessages : seen[m][x] = 0

LEMMA NewInvInit == Init => NewInv
BY DEF Init, NewInv

LEMMA NewInvNext == NewInv /\ [Next]_vars => NewInv'
<1> SUFFICES ASSUME NewInv, [Next]_vars, life' \in {"none", "building"}
             PROVE  /\ UNCHANGED <<loopVars, landed>> /\ lastError' = lastError
                    /\ life \in {"none", "building"}
  BY DEF NewInv, loopVars, flowVars, turnVars, teamVars, pumpVars, histVars
<1> USE DEF flowVars, turnVars, teamVars, pumpVars, histVars, loopVars
<1>1. CASE Materialize \/ RegisterTeam \/ MaterializeFails \/ UNCHANGED vars
             \/ \E m \in Agents : CreateMember(m)
  BY <1>1 DEF Materialize, RegisterTeam, MaterializeFails, CreateMember, vars
<1>2. ~Cancel /\ ~Dispose /\ ~Release /\ \A u \in UserMessages : ~Submit(u)
  BY DEF Cancel, Dispose, Release, Submit
<1>3. life' = life => pump = "none"
  BY DEF NewInv
<1>4. ~PumpRun /\ ~PumpDecide /\ ~PumpExecute
  BY <1>3 DEF PumpRun, PumpDecide, PumpExecute
<1>5. life' = life => turn["player"] = "none" /\ \A m \in Agents : turn[m] = "none"
  BY DEF NewInv, Agents
<1>6. /\ ~HookAnnounce /\ ~GameEnds
      /\ \A m \in Agents : ~Claim(m) /\ ~Speak(m) /\ \A f \in BOOLEAN : ~TurnEnds(m, f)
  BY <1>5 DEF HookAnnounce, GameEnds, Claim, Speak, TurnEnds
<1> QED BY <1>1, <1>2, <1>4, <1>6 DEF Next

\* What every later invariant builds on.
CoreInv == TypeInv /\ DriveInv /\ NewInv

LEMMA CoreInvInit == Init => CoreInv
BY TypeInvInit, DriveInvInit, NewInvInit DEF CoreInv

LEMMA CoreInvNext == CoreInv /\ [Next]_vars => CoreInv'
BY TypeInvNext, DriveInvNext, NewInvNext DEF CoreInv

\* The members are in one hand: at most one of them has a turn in flight, the
\* one the flow activates, and the pump awaits it; no agent exists without its
\* team; none is released under a turn (orchestrator.ts).
THEOREM OneMemberDriven == Spec => []MembersInHand
<1>1. Init => CoreInv
  BY CoreInvInit
<1>2. CoreInv /\ [Next]_vars => CoreInv'
  BY CoreInvNext
<1>3. CoreInv => MembersInHand
  BY DEF CoreInv, TypeInv, DriveInv, MembersInHand
<1> QED BY <1>1, <1>2, <1>3, PTL DEF Spec

-----------------------------------------------------------------------------
(* The contract of the host.                                                 *)

\* What the host reads of the loop is a snapshot; the fields it is made of.
ObservedFields ==
    /\ Observed \in Scene!SceneSnapshot
    /\ Observed.life = IF life = "building" THEN "none" ELSE life
    /\ Observed.active = IF busy(activeMember) THEN activeMember ELSE Scene!Nobody
    /\ busy(activeMember) => Observed.aborting = abort[activeMember]
    /\ ~busy(activeMember) => Observed.aborting = FALSE
    /\ Observed.running = (pump # "none")
    /\ Observed.paused = paused
    /\ Observed.error = lastError

LEMMA ObservedIsSnapshot == ASSUME TypeInv, DriveInv PROVE ObservedFields
<1>t. TypeOK /\ OneDriver
  BY DEF TypeInv, DriveInv
<1> DEFINE act == IF \E m \in Agents : busy(m) THEN CHOOSE m \in Agents : busy(m)
                                              ELSE Scene!Nobody
           ab == \E m \in Agents : busy(m) /\ abort[m]
<1>1. act = IF busy(activeMember) THEN activeMember ELSE Scene!Nobody
  <2>1. CASE busy(activeMember)
    <3>1. activeMember \in Agents /\ \A m \in Agents : busy(m) => m = activeMember
      BY <2>1, <1>t DEF OneDriver, busy
    <3> QED BY <2>1, <3>1
  <2>2. CASE ~busy(activeMember)
    <3>1. ~ \E m \in Agents : busy(m)
      BY <2>2, <1>t DEF OneDriver
    <3> QED BY <2>2, <3>1
  <2> QED BY <2>1, <2>2
<1>2. act \in Agents \cup {Scene!Nobody} /\ ab \in BOOLEAN
  BY <1>1 DEF busy
<1>3. busy(activeMember) => ab = abort[activeMember]
  <2> SUFFICES ASSUME busy(activeMember) PROVE ab = abort[activeMember]
    OBVIOUS
  <2>1. /\ activeMember \in Agents /\ abort[activeMember] \in BOOLEAN
        /\ \A m \in Agents : busy(m) => m = activeMember
    BY <1>t DEF OneDriver, busy, TypeOK
  <2> QED BY <2>1
<1>4. ~busy(activeMember) => ab = FALSE
  BY <1>t DEF OneDriver
<1>5. Observed = [life |-> IF life = "building" THEN "none" ELSE life, active |-> act,
                  aborting |-> ab, running |-> pump # "none", paused |-> paused,
                  error |-> lastError]
  BY DEF Observed
<1> HIDE DEF act, ab
<1>6. Observed \in Scene!SceneSnapshot
  BY <1>2, <1>5, <1>t DEF Scene!SceneSnapshot, Scene!SceneFailureOrigin, TypeOK, paused
<1> QED BY <1>1, <1>3, <1>4, <1>5, <1>6 DEF ObservedFields

\* The loop keeps the contract of the host: every step it takes is one that
\* SceneOrchestration allows, seen through snapshot and whenQuiescent
\* (scene-saolei.ts).
THEOREM LoopKeepsContract == Spec => ImplementsScene
<1>1. Init => CoreInv /\ Observed = Scene!NewScene
  <2> SUFFICES ASSUME Init PROVE Observed = Scene!NewScene
    BY CoreInvInit
  <2>1. ~paused /\ \A m \in Agents : ~busy(m)
    BY DEF Init, busy, paused, FlowInit
  <2>2. ~(\E m \in Agents : busy(m)) /\ ~(\E m \in Agents : busy(m) /\ abort[m])
    BY <2>1
  <2>3. paused = FALSE /\ (\E m \in Agents : busy(m) /\ abort[m]) = FALSE
    BY <2>1, <2>2 DEF paused
  <2>4. (pump # "none") = FALSE /\ life = "none" /\ lastError = "none"
    BY DEF Init
  <2> QED BY <2>2, <2>3, <2>4 DEF Observed, Scene!NewScene
<1>2. CoreInv /\ [Next]_vars => CoreInv'
  BY CoreInvNext
<1>3. CoreInv /\ [Next]_vars => [Scene!SceneStep(Observed, Observed')]_Observed
  <2> SUFFICES ASSUME CoreInv, [Next]_vars
               PROVE  Scene!SceneStep(Observed, Observed') \/ Observed' = Observed
    OBVIOUS
  <2>t. TypeOK /\ HistOK /\ flow \in FlowType /\ flow.pos \in Activities
    BY DEF CoreInv, TypeInv, TypeOK, FlowType
  <2>d. OneDriver /\ PumpInv
    BY DEF CoreInv, DriveInv
  <2>o. ObservedFields
    BY ObservedIsSnapshot DEF CoreInv
  <2>p. ObservedFields'
    <3>1. TypeInv' /\ DriveInv'
      BY <1>2 DEF CoreInv
    <3> QED BY <3>1, ObservedIsSnapshot, PTL
  <2>a. activeMember \in Members /\ (busy(activeMember) => activeMember \in Agents)
    BY <2>t, ActiveMember DEF busy
  <2>n. Scene!Nobody \notin Agents /\ \A m \in Agents : abort[m] \in BOOLEAN
    BY <2>t DEF Scene!Nobody, Agents, TypeOK
  <2> USE DEF flowVars, turnVars, teamVars, pumpVars, histVars, loopVars
  <2>1. CASE Materialize \/ MaterializeFails \/ HookAnnounce \/ GameEnds \/ UNCHANGED vars
               \/ \E m \in Agents : CreateMember(m) \/ Speak(m)
    BY <2>1 DEF Materialize, MaterializeFails, HookAnnounce, GameEnds, vars, CreateMember, Speak,
       Observed, busy, paused
  <2>2. ASSUME NEW m \in Agents, Claim(m) PROVE Observed' = Observed
    <3>1. \A k \in Agents : busy(k)' = busy(k)
      BY <2>2, <2>t DEF Claim, busy, TypeOK
    <3> QED BY <2>2, <3>1 DEF Claim, Observed, paused
  <2>3. CASE RegisterTeam
    <3>1. pump = "none" /\ ~busy(activeMember) /\ lastError = "none"
      BY <2>3, <2>d, <2>a DEF RegisterTeam, PumpInv, OneDriver, CoreInv, NewInv
    <3>2. /\ life = "building" /\ life' = "live" /\ pump' = pump
          /\ activeMember' = activeMember /\ ~busy(activeMember)' /\ paused' = paused
          /\ lastError' = "none"
      BY <2>3, <3>1 DEF RegisterTeam, activeMember, busy, paused
    <3> QED BY <2>3, <3>1, <3>2, <2>o, <2>p, Scene!MaterializeStep DEF ObservedFields
  <2>4. CASE Cancel
    <3>1. /\ life = "live" /\ life' = life /\ pump' = pump /\ lastError' = lastError
          /\ activeMember' = activeMember /\ \A k : busy(k)' = busy(k)
      BY <2>4, <2>t DEF Cancel, activeMember, busy, FlowType
    <3>2. CASE paused
      <4>1. UNCHANGED <<flow, abort>>
        BY <2>4, <3>2 DEF Cancel
      <4> QED BY <3>1, <4>1 DEF Observed, paused
    <3>3. CASE ~paused /\ busy(activeMember)
      <4>1. activeMember \in Agents /\ abort'[activeMember] = TRUE /\ paused' = paused
        BY <2>4, <2>t, <2>a, <3>3 DEF Cancel, TypeOK, paused
      <4> QED BY <3>1, <3>3, <4>1, <2>o, <2>p, <2>n, Scene!CancelStep DEF ObservedFields
    <3>4. CASE ~paused /\ ~busy(activeMember)
      <4>1. paused' = TRUE
        BY <2>4, <2>t, <3>4 DEF Cancel, FlowType, paused
      <4> QED BY <3>1, <3>4, <4>1, <2>o, <2>p, Scene!CancelStep DEF ObservedFields
    <3> QED BY <3>2, <3>3, <3>4
  <2>5. CASE Dispose
    <3>1. /\ life = "live" /\ life' = "disposing" /\ pump' = pump /\ lastError' = lastError
          /\ activeMember' = activeMember /\ paused' = paused /\ \A k : busy(k)' = busy(k)
      BY <2>5 DEF Dispose, activeMember, busy, paused
    <3>2. busy(activeMember) => abort'[activeMember] = TRUE
      BY <2>5, <2>a, <2>n DEF Dispose
    <3>3. Observed'.aborting = (Observed.active # Scene!Nobody)
      BY <3>1, <3>2, <2>a, <2>n, <2>o, <2>p DEF ObservedFields
    <3> QED BY <3>1, <3>3, <2>o, <2>p, Scene!DisposeStep DEF ObservedFields
  <2>6. CASE Release
    <3>1. pump = "none" /\ ~busy(activeMember)
      BY <2>6, <2>d, <2>a DEF Release, OneDriver
    <3>2. /\ life = "disposing" /\ life' = "disposed" /\ pump' = pump /\ lastError' = "none"
          /\ activeMember' = activeMember /\ paused' = paused /\ ~busy(activeMember)'
      BY <2>6, <3>1 DEF Release, activeMember, busy, paused
    <3> QED BY <3>1, <3>2, <2>o, <2>p, Scene!ReleaseStep DEF ObservedFields
  <2>7. CASE PumpRun
    <3>1. /\ pump = "run" /\ pump' # "none" /\ life = "live" /\ life' = life
          /\ activeMember' = activeMember /\ paused' = paused /\ \A k : busy(k)' = busy(k)
          /\ abort' = abort
      BY <2>7, <2>d DEF PumpRun, PumpInv, activeMember, paused, busy
    <3>2. CASE busy(activeMember)
      <4>1. lastError' = lastError
        BY <2>7, <3>1, <3>2, <2>d DEF PumpRun, PumpInv
      <4> QED BY <3>1, <4>1 DEF Observed
    <3>3. CASE ~busy(activeMember)
      BY <3>1, <3>3, <2>o, <2>p, Scene!ContinueStep DEF ObservedFields
    <3> QED BY <3>2, <3>3
  <2>8. CASE PumpDecide
    <3>1. /\ pump = "decide" /\ life = "live" /\ life' = life /\ ~externalPending
          /\ turn' = turn /\ lastError' = lastError
      BY <2>8, <2>d DEF PumpDecide, PumpInv, OneDriver
    <3>2. ~busy(activeMember) /\ ~busy(activeMember)'
      BY <3>1, <2>d DEF OneDriver, busy
    <3>3. CASE pump' = "none"
      <4>1. lastError # "none" => paused'
        BY <2>8, <3>1, <3>3, <2>t, <2>d, PumpDecides
           DEF Stalls, Retries, Rests, Moves, TypeOK, HistOK, PumpInv, paused
      <4>2. paused' \in BOOLEAN
        BY DEF paused
      <4> QED BY <3>1, <3>2, <3>3, <4>1, <4>2, <2>o, <2>p, Scene!RestStep DEF ObservedFields
    <3>4. CASE pump' = "execute"
      <4>1. paused' = paused \/ paused' = FALSE
        BY <2>8, <3>1, <3>4, <2>t, PumpDecides
           DEF Stalls, Retries, Rests, Moves, TypeOK, HistOK, paused
      <4> QED BY <3>1, <3>2, <3>4, <4>1, <2>o, <2>p, Scene!ContinueStep DEF ObservedFields
    <3> QED BY <2>8, <3>3, <3>4 DEF PumpDecide
  <2>9. CASE PumpExecute
    <3>1. /\ pump = "execute" /\ life = "live" /\ life' = life /\ ~busy(activeMember)
          /\ activeMember' = activeMember /\ paused' = paused
      BY <2>9, <2>d DEF PumpExecute, PumpInv, OneDriver, activeMember, paused, busy
    <3>2. CASE ExecuteDrive
      <4>1. /\ activeMember \in Agents /\ pump' = "drive" /\ lastError' = lastError
            /\ turn' = [turn EXCEPT ![activeMember] = "woken"]
            /\ abort' = [abort EXCEPT ![activeMember] = FALSE]
        BY <3>2 DEF ExecuteDrive, StartTurn
      <4>2. busy(activeMember)' /\ abort'[activeMember] = FALSE
        BY <3>1, <4>1, <2>t DEF busy, TypeOK
      <4> QED BY <3>1, <4>1, <4>2, <2>o, <2>p, Scene!SubmitStep DEF ObservedFields
    <3>3. CASE ExecuteAtOnce \/ ExecuteAnnounce \/ ExecuteAnnounceThrows \/ ExecuteThrows
      <4>1. turn' = turn /\ pump' = "run"
        BY <3>3 DEF ExecuteAtOnce, ExecuteAnnounce, ExecuteAnnounceThrows, ExecuteThrows
      <4>2. ~busy(activeMember)'
        BY <3>1, <4>1 DEF busy
      <4> QED BY <3>1, <4>1, <4>2, <2>o, <2>p, Scene!ContinueStep DEF ObservedFields
    <3> QED BY <2>9, <3>2, <3>3 DEF PumpExecute
  <2>10. ASSUME NEW u \in UserMessages, Submit(u)
         PROVE  Scene!SceneStep(Observed, Observed') \/ Observed' = Observed
    <3>1. life = "live" /\ life' = life /\ pump \in {"none", "external", "drive"}
      BY <2>10 DEF Submit, Settled
    <3>2. CASE Steer(u)
      BY <3>1, <3>2 DEF Steer, Observed, busy, paused
    <3>3. CASE Deliver(u)
      <4>1. /\ activeMember \in Agents /\ ~busy(activeMember) /\ UNCHANGED <<flow, lastError>>
            /\ pump' # "none" /\ turn' = [turn EXCEPT ![activeMember] = "woken"]
            /\ abort' = [abort EXCEPT ![activeMember] = FALSE]
        BY <3>3 DEF Deliver, StartTurn, RequestPump
      <4>2. /\ activeMember' = activeMember /\ paused' = paused
            /\ busy(activeMember)' /\ abort'[activeMember] = FALSE
        BY <4>1, <2>t DEF busy, TypeOK, activeMember, paused
      <4> QED BY <3>1, <4>1, <4>2, <2>o, <2>p, Scene!SubmitStep DEF ObservedFields
    <3>4. CASE DeliverThrows(u)
      <4>1. /\ ~busy(activeMember) /\ UNCHANGED <<pump, turn>> /\ lastError' = "orchestration"
            /\ activeMember' = activeMember /\ paused' = TRUE
        BY <3>4, <2>t DEF DeliverThrows, FlowType, activeMember, paused
      <4>2. ~busy(activeMember)'
        BY <4>1 DEF busy
      <4> QED BY <3>1, <4>1, <4>2, <2>o, <2>p, Scene!SubmitAsideStep DEF ObservedFields
    <3>5. CASE DeliverToAnnouncer(u)
      <4>1. /\ activeMember = "announcer" /\ UNCHANGED <<flow, turn, lastError>> /\ pump' # "none"
        BY <3>5 DEF DeliverToAnnouncer, RequestPump
      <4>2. /\ activeMember' = activeMember /\ paused' = paused
            /\ ~busy(activeMember) /\ ~busy(activeMember)'
        BY <4>1 DEF busy, activeMember, paused, Agents
      <4> QED BY <3>1, <4>1, <4>2, <2>o, <2>p, Scene!SubmitAsideStep DEF ObservedFields
    <3> QED BY <2>10, <3>2, <3>3, <3>4, <3>5 DEF Submit
  <2>11. ASSUME NEW m \in Agents, NEW f \in BOOLEAN, TurnEnds(m, f)
         PROVE  Scene!SceneStep(Observed, Observed')
    <3> DEFINE outcome == IF abort[m] THEN "aborted" ELSE IF f THEN "failed" ELSE "settled"
    <3>1. busy(m) /\ pump \in {"external", "drive"} /\ m = activeMember
      BY <2>11, <2>d, OnlyActive DEF TurnEnds, Settled, busy, OneDriver
    <3>2. /\ turn' = [turn EXCEPT ![m] = "none"] /\ UNCHANGED <<life, flow>>
          /\ lastError' = IF life = "live" \/ pump = "drive" THEN ErrorAfter(outcome) ELSE lastError
      BY <2>11 DEF TurnEnds
    <3>3. activeMember' = activeMember /\ paused' = paused /\ ~busy(activeMember)'
      BY <3>1, <3>2, <2>t DEF activeMember, paused, busy, TypeOK
    <3>4. life \in {"live", "disposing"}
      BY <3>1, <2>d DEF PumpInv
    <3>5. /\ Observed.active # Scene!Nobody /\ Observed'.active = Scene!Nobody
          /\ Observed'.life = Observed.life /\ Observed'.aborting = FALSE
          /\ Observed'.paused = Observed.paused /\ Observed.aborting = abort[m]
          /\ Observed.error = lastError /\ Observed'.error = lastError' /\ Observed.life = life
      BY <3>1, <3>2, <3>3, <3>4, <2>n, <2>o, <2>p DEF ObservedFields
    <3>6. /\ outcome = "failed" <=> Scene!OutcomeOf(Observed, f) = "failed"
      BY <3>5, <2>n DEF Scene!OutcomeOf
    <3> HIDE DEF outcome
    <3>7. lastError' \in Scene!ErrorOf(Observed, Scene!OutcomeOf(Observed, f))
      BY <3>2, <3>4, <3>5, <3>6 DEF Scene!ErrorOf, ErrorAfter
    <3> QED BY <3>5, <3>7, <2>o, <2>p, Scene!TurnEndStep DEF ObservedFields
  <2> QED BY <2>1, <2>2, <2>3, <2>4, <2>5, <2>6, <2>7, <2>8, <2>9, <2>10, <2>11 DEF Next
<1> QED BY <1>1, <1>2, <1>3, PTL DEF Spec, ImplementsScene

-----------------------------------------------------------------------------
(* Input that waits: the held sets, the landed messages, the inboxes.        *)

\* The pump carries a failed or aborted drive to the flow, or the flow rests
\* frozen on one.
Stalling == pump \in {"run", "decide"} /\ ~externalPending /\ wake \in {"failed", "aborted"}
Frozen   == pump = "none" /\ paused
\* The flow is, or will be, frozen until its activity is driven again.
Unsettled ==
    \/ pump = "drive" \/ Stalling
    \/ paused /\ (pump \in {"none", "external", "execute"} \/ externalPending \/ wake = "null")

\* A held set is the input of the active member's drive, while that drive runs
\* or may be restarted; it holds broadcasts only.
HeldInv ==
    /\ \A m \in Agents : \A x \in held[m] : x.kind = "drained"
    /\ life = "live" =>
          \A m \in Agents : held[m] # {} => m = activeMember /\ flow.pos # "rest" /\ Unsettled

\* A message a cancel took back, or one no turn has claimed, is the active
\* member's, and the flow is stopped or the turn runs.
WaitInv ==
    /\ landed # {} =>
          /\ life = "live" /\ activeMember \in Agents
          /\ (busy(activeMember) /\ abort[activeMember]) \/ Stalling \/ Frozen
    /\ life = "live" =>
          \A m \in Agents : \A x \in inbox[m] :
             IsUser(x) => m = activeMember /\ (busy(m) \/ Stalling \/ Frozen)

InputInv == HeldInv /\ WaitInv

LEMMA InputInvInit == Init => InputInv
BY DEF Init, InputInv, HeldInv, WaitInv

\* A step that leaves the input, the pump and the position of the flow alone.
LEMMA InputInvKept ==
    ASSUME InputInv, UNCHANGED <<landed, held, abort, pump, externalPending, wake>>,
           life' = life \/ (life' # "live" /\ landed = {}) \/ (life = "building" /\ NewInv /\ CoreInv),
           activeMember' = activeMember, flow'.pos = flow.pos, paused' = paused,
           \A k : busy(k)' = busy(k),
           \A m \in Agents : \A x \in inbox'[m] : IsUser(x) => x \in inbox[m]
    PROVE  InputInv'
<1>1. Stalling' = Stalling /\ Frozen' = Frozen /\ Unsettled' = Unsettled
  BY DEF Stalling, Frozen, Unsettled
<1>2. CASE life' = life \/ (life' # "live" /\ landed = {})
  BY <1>1, <1>2 DEF InputInv, HeldInv, WaitInv
<1>3. CASE life = "building" /\ NewInv /\ CoreInv
  <2>1. landed = {} /\ \A m \in Agents : held[m] = {} /\ inbox[m] = {}
    BY <1>3 DEF NewInv
  <2> QED BY <1>1, <2>1 DEF InputInv, HeldInv, WaitInv
<1> QED BY <1>2, <1>3

LEMMA InputInvNext == CoreInv /\ InputInv /\ [Next]_vars => InputInv'
<1> SUFFICES ASSUME CoreInv, InputInv, [Next]_vars PROVE InputInv'
  OBVIOUS
<1>t. TypeOK /\ HistOK /\ flow \in FlowType /\ flow.pos \in Activities
  BY DEF CoreInv, TypeInv, TypeOK, FlowType
<1>d. OneDriver /\ PumpInv /\ NewInv
  BY DEF CoreInv, DriveInv
<1>i. HeldInv /\ WaitInv
  BY DEF InputInv
<1>a. /\ activeMember \in Members /\ (activeMember # "announcer" => activeMember \in Agents)
      /\ (activeMember = "announcer" => ~busy(activeMember) /\ flow.pos = "announce")
      /\ "announcer" \notin Agents
  BY <1>t, ActiveMember DEF busy, Members, Agents
<1> USE DEF flowVars, turnVars, teamVars, pumpVars, histVars, loopVars
<1>1. CASE Materialize \/ MaterializeFails \/ UNCHANGED vars
             \/ \E m \in Agents : CreateMember(m)
  <2>1. /\ UNCHANGED <<landed, held, abort, pump, externalPending, wake, inbox, flow, turn>>
        /\ life' = life \/ (life' # "live" /\ landed = {})
    BY <1>1, <1>d DEF Materialize, MaterializeFails, CreateMember, vars, NewInv
  <2>2. /\ activeMember' = activeMember /\ paused' = paused /\ \A k : busy(k)' = busy(k)
    BY <2>1 DEF activeMember, busy, paused
  <2> QED BY <2>1, <2>2, InputInvKept
<1>2. CASE RegisterTeam
  <2>1. /\ landed' = {} /\ held' = held /\ inbox' = inbox
        /\ \A m \in Agents : held[m] = {} /\ inbox[m] = {}
    BY <1>2, <1>d DEF RegisterTeam, NewInv
  <2> QED BY <2>1 DEF InputInv, HeldInv, WaitInv
<1>3. CASE Release
  <2>1. life' # "live" /\ UNCHANGED <<landed, held>> /\ landed = {}
    BY <1>3, <1>i DEF Release, WaitInv
  <2> QED BY <2>1, <1>i DEF InputInv, HeldInv, WaitInv
<1>4. CASE Dispose
  <2>1. life' # "live" /\ held' = held /\ landed' = {}
    BY <1>4 DEF Dispose
  <2> QED BY <2>1, <1>i DEF InputInv, HeldInv, WaitInv
<1>5. CASE Cancel
  <2>1. /\ UNCHANGED <<life, held, turn, pump, externalPending, wake>> /\ flow'.pos = flow.pos
        /\ life = "live" /\ pump \in {"none", "external", "drive"}
    BY <1>5, <1>t DEF Cancel, Settled, FlowType
  <2>2. activeMember' = activeMember /\ \A k : busy(k)' = busy(k)
    BY <2>1 DEF activeMember, busy
  <2>3. CASE paused
    <3>1. UNCHANGED <<flow, landed, inbox, abort>>
      BY <1>5, <2>3 DEF Cancel
    <3>2. paused' = paused
      BY <3>1 DEF paused
    <3> QED BY <2>1, <2>2, <3>1, <3>2, InputInvKept
  <2>4. CASE ~paused /\ busy(activeMember)
    <3>1. /\ flow' = flow /\ activeMember \in Agents
          /\ abort' = [abort EXCEPT ![activeMember] = TRUE]
          /\ inbox' = [inbox EXCEPT ![activeMember] = {}]
      BY <1>5, <2>4 DEF Cancel, busy
    <3>2. paused' = paused
      BY <3>1 DEF paused
    <3>3. /\ abort'[activeMember] /\ inbox'[activeMember] = {}
          /\ \A m \in Agents : m # activeMember => inbox'[m] = inbox[m]
      BY <3>1, <1>t DEF TypeOK
    <3>4. Stalling' = Stalling /\ Frozen' = Frozen /\ Unsettled' = Unsettled
      BY <2>1, <3>2 DEF Stalling, Frozen, Unsettled
    <3>5. HeldInv'
      BY <1>i, <2>1, <2>2, <3>4 DEF HeldInv
    <3>6. WaitInv'
      BY <1>i, <2>1, <2>2, <2>4, <3>1, <3>3, <3>4 DEF WaitInv
    <3> QED BY <3>5, <3>6 DEF InputInv
  <2>5. CASE ~paused /\ ~busy(activeMember)
    <3>0. pump = "none"
      BY <2>1, <2>5, <1>d DEF OneDriver
    <3>1. inbox' = inbox /\ paused'
      BY <1>5, <2>5, <1>t DEF Cancel, FlowType, paused
    <3>2. landed = {} /\ \A m \in Agents : held[m] = {}
      BY <2>1, <2>5, <3>0, <1>i DEF WaitInv, HeldInv, Stalling, Frozen, Unsettled
    <3>3. \A m \in Agents : \A x \in inbox[m] : ~IsUser(x)
      BY <2>1, <2>5, <3>0, <1>i DEF WaitInv, Stalling, Frozen
    <3>4. LandUnclaimed(activeMember) = {}
      BY <3>3 DEF LandUnclaimed, Of
    <3>5. landed' = {}
      BY <1>5, <2>5, <3>2, <3>4 DEF Cancel
    <3> QED BY <2>1, <3>1, <3>2, <3>3, <3>5 DEF InputInv, HeldInv, WaitInv
  <2> QED BY <2>3, <2>4, <2>5
<1>6. CASE PumpRun
  <2>1. UNCHANGED <<life, landed, held, turn, abort, flow, inbox>> /\ pump = "run"
        /\ ~externalPending'
    BY <1>6 DEF PumpRun
  <2>2. /\ activeMember' = activeMember /\ paused' = paused /\ \A k : busy(k)' = busy(k)
    BY <2>1 DEF activeMember, busy, paused
  <2>3. CASE externalPending
    <3>1. CASE busy(activeMember)
      <4>1. pump' = "external"
        BY <1>6, <2>3, <3>1 DEF PumpRun
      <4>2. ~Stalling /\ ~Frozen /\ (Unsettled => Unsettled')
        BY <2>1, <2>2, <2>3, <4>1 DEF Stalling, Frozen, Unsettled
      <4> QED BY <1>i, <2>1, <2>2, <4>2 DEF InputInv, HeldInv, WaitInv
    <3>2. CASE ~busy(activeMember)
      <4>1. activeMember = "announcer"
        BY <1>d, <2>1, <2>3, <3>2 DEF PumpInv
      <4>2. ~Stalling /\ ~Frozen /\ \A m \in Agents : ~busy(m)
        BY <2>1, <2>3, <3>2, <1>d DEF Stalling, Frozen, OneDriver
      <4> QED BY <1>i, <1>a, <2>1, <4>1, <4>2 DEF InputInv, HeldInv, WaitInv
    <3> QED BY <3>1, <3>2
  <2>4. CASE ~externalPending
    <3>1. pump' = "decide" /\ wake' = wake
      BY <1>6, <2>4 DEF PumpRun
    <3>2. Stalling' = Stalling /\ ~Frozen /\ (Unsettled => Unsettled')
      BY <2>1, <2>2, <2>4, <3>1 DEF Stalling, Frozen, Unsettled
    <3> QED BY <1>i, <2>1, <2>2, <3>2 DEF InputInv, HeldInv, WaitInv
  <2> QED BY <2>3, <2>4
<1>7. CASE PumpDecide
  <2>1. /\ UNCHANGED <<life, landed, held, turn, abort, inbox, externalPending>> /\ pump = "decide"
        /\ ~externalPending /\ wake' = "null" /\ \A m \in Agents : ~busy(m)
    BY <1>7, <1>d DEF PumpDecide, OneDriver
  <2>2. Stalls \/ Retries \/ Rests \/ Moves
    BY <1>7, <1>t, PumpDecides DEF TypeOK, HistOK
  <2>3. CASE Stalls
    <3>1. /\ flow'.pos = flow.pos /\ activeMember' = activeMember /\ Frozen' /\ Unsettled'
      BY <2>3 DEF Stalls, activeMember, Frozen, Unsettled, paused
    <3> QED BY <1>i, <2>1, <3>1 DEF InputInv, HeldInv, WaitInv
  <2>4. CASE ~Stalls
    <3>1. wake \notin {"failed", "aborted"}
      BY <2>2, <2>4 DEF Retries, Rests, Moves
    <3>2. ~Stalling /\ ~Frozen /\ ~busy(activeMember)
      BY <2>1, <3>1 DEF Stalling, Frozen, busy
    <3>3. landed = {} /\ (life = "live" => \A m \in Agents : \A x \in inbox[m] : ~IsUser(x))
      BY <1>i, <2>1, <3>2 DEF WaitInv
    <3>4. CASE Retries
      <4>1. flow'.pos = flow.pos /\ activeMember' = activeMember /\ Unsettled'
        BY <3>4 DEF Retries, activeMember, Unsettled, paused
      <4> QED BY <1>i, <2>1, <3>3, <4>1 DEF InputInv, HeldInv, WaitInv
    <3>5. CASE Rests \/ Moves
      <4>1. ~Unsettled
        BY <2>1, <3>1, <3>5 DEF Rests, Moves, Unsettled, Stalling
      <4> QED BY <1>i, <2>1, <3>3, <4>1 DEF InputInv, HeldInv, WaitInv
    <3> QED BY <2>2, <2>4, <3>4, <3>5
  <2> QED BY <2>3, <2>4
<1>8. CASE PumpExecute
  <2>1. /\ UNCHANGED <<life, flow, externalPending>> /\ pump = "execute" /\ ~externalPending
        /\ \A k \in Agents : ~busy(k)
    BY <1>8, <1>d DEF PumpExecute, OneDriver
  <2>2. activeMember' = activeMember /\ paused' = paused /\ ~busy(activeMember)
    BY <2>1 DEF activeMember, paused, busy
  <2>3. /\ landed = {} /\ ~Stalling /\ ~Frozen
        /\ life = "live" => \A m \in Agents : \A x \in inbox[m] : ~IsUser(x)
    BY <1>i, <2>1, <2>2 DEF WaitInv, Stalling, Frozen
  <2>4. CASE ExecuteDrive
    <3> DEFINE am == activeMember
    <3>1. /\ am \in Agents /\ flow.pos # "rest" /\ pump' = "drive" /\ landed' = {}
          /\ held' = [held EXCEPT ![am] = DefaultInput(am)]
          /\ inbox' = [inbox EXCEPT ![am] = {x \in inbox[am] : IsUser(x)} \cup DefaultInput(am)]
      BY <2>4 DEF ExecuteDrive, StartTurn
    <3>2. \A x \in DefaultInput(am) : x.kind = "drained"
      BY <3>1, <2>3, <1>i, MessageFields DEF DefaultInput, FreshInput, HeldInv
    <3>3. \A m \in Agents : \A x \in held'[m] : x.kind = "drained"
      BY <3>1, <3>2, <1>i, <1>t DEF HeldInv, TypeOK
    <3>4. \A m \in Agents : m # am => held'[m] = held[m]
      BY <3>1, <1>t DEF TypeOK
    <3>5. HeldInv'
      BY <1>i, <2>1, <2>2, <3>1, <3>3, <3>4 DEF HeldInv, Unsettled
    <3>6. \A m \in Agents : \A x \in inbox'[m] : IsUser(x) => x \in inbox[m]
      BY <3>1, <3>2, <1>t DEF TypeOK, IsUser
    <3>7. WaitInv'
      BY <2>1, <2>3, <3>1, <3>6 DEF WaitInv
    <3> QED BY <3>5, <3>7 DEF InputInv
  <2>5. CASE ExecuteAtOnce \/ ExecuteAnnounce \/ ExecuteAnnounceThrows \/ ExecuteThrows
    <3>1. UNCHANGED <<landed, held, turn, abort>> /\ pump' = "run"
      BY <2>5 DEF ExecuteAtOnce, ExecuteAnnounce, ExecuteAnnounceThrows, ExecuteThrows
    <3>2. \A m \in Agents : \A x \in inbox'[m] : IsUser(x) => x \in inbox[m]
      <4>1. CASE ExecuteAnnounce
        BY <4>1, AnnounceUsers DEF ExecuteAnnounce
      <4> QED BY <2>5, <4>1 DEF ExecuteAtOnce, ExecuteAnnounceThrows, ExecuteThrows
    <3>3. WaitInv'
      BY <2>1, <2>3, <3>1, <3>2 DEF WaitInv
    <3>4. life = "live" => \A m \in Agents : held[m] # {} =>
                             activeMember \in Agents /\ flow.pos # "rest" /\ held[activeMember] # {}
      BY <1>i DEF HeldInv
    <3>5. (\E m \in Agents : held[m] # {}) /\ life = "live" => wake' = "failed"
      <4> SUFFICES ASSUME NEW m \in Agents, held[m] # {}, life = "live" PROVE wake' = "failed"
        OBVIOUS
      <4>1. /\ activeMember \in Agents /\ flow.pos \notin {"rest", "announce"}
            /\ DefaultInput(activeMember) # {}
        BY <3>4, <1>t, ActiveMember DEF DefaultInput
      <4>2. ~ExecuteAtOnce /\ ~ExecuteAnnounce
        BY <4>1, <1>a DEF ExecuteAtOnce, ExecuteAnnounce
      <4> QED BY <2>5, <4>2 DEF ExecuteAnnounceThrows, ExecuteThrows
    <3>6. HeldInv'
      BY <1>i, <2>1, <2>2, <3>1, <3>5 DEF HeldInv, Unsettled, Stalling
    <3> QED BY <3>3, <3>6 DEF InputInv
  <2> QED BY <1>8, <2>4, <2>5 DEF PumpExecute
<1>9. ASSUME NEW u \in UserMessages, Submit(u) PROVE InputInv'
  <2>1. /\ life' = life /\ life = "live" /\ pump \in {"none", "external", "drive"}
        /\ ~externalPending
    BY <1>9, <1>d DEF Submit, Settled, OneDriver
  <2>2. CASE Steer(u)
    <3>1. /\ UNCHANGED <<flow, turn, abort, held, pump, externalPending, wake>> /\ landed' = {}
          /\ busy(activeMember) /\ activeMember \in Agents
          /\ \A m \in Agents : m # activeMember => inbox'[m] = inbox[m]
      BY <2>2, <1>t DEF Steer, busy, TypeOK
    <3>2. activeMember' = activeMember /\ paused' = paused /\ \A k : busy(k)' = busy(k)
      BY <3>1 DEF activeMember, paused, busy
    <3>3. Unsettled' = Unsettled /\ Stalling' = Stalling /\ Frozen' = Frozen
      BY <3>1, <3>2 DEF Unsettled, Stalling, Frozen
    <3> QED BY <1>i, <2>1, <3>1, <3>2, <3>3 DEF InputInv, HeldInv, WaitInv
  <2>3. CASE Deliver(u)
    <3>1. /\ activeMember \in Agents /\ ~busy(activeMember) /\ landed' = {} /\ flow' = flow
          /\ externalPending' = TRUE /\ pump' = IF pump = "none" THEN "run" ELSE pump
          /\ turn' = [turn EXCEPT ![activeMember] = "woken"]
          /\ held' = [held EXCEPT ![activeMember] = held[activeMember]]
          /\ \A m \in Agents : m # activeMember => inbox'[m] = inbox[m]
      BY <2>3, <1>t DEF Deliver, StartTurn, RequestPump, TypeOK
    <3>2. pump = "none" /\ held' = held
      BY <2>1, <3>1, <1>d, <1>t DEF OneDriver, TypeOK
    <3>3. activeMember' = activeMember /\ paused' = paused /\ busy(activeMember)'
      BY <3>1, <1>t DEF activeMember, paused, busy, TypeOK
    <3>4. Unsettled => Unsettled'
      BY <3>1, <3>2, <3>3 DEF Unsettled, Stalling
    <3> QED BY <1>i, <2>1, <3>1, <3>2, <3>3, <3>4 DEF InputInv, HeldInv, WaitInv
  <2>4. CASE DeliverThrows(u)
    <3>1. /\ UNCHANGED <<turn, held, abort, inbox, landed, pump, externalPending, wake>>
          /\ flow'.pos = flow.pos /\ ~busy(activeMember) /\ paused'
      BY <2>4, <1>t DEF DeliverThrows, FlowType, paused
    <3>2. pump = "none"
      BY <2>1, <3>1, <1>d DEF OneDriver
    <3>3. activeMember' = activeMember /\ Frozen' /\ Unsettled'
      BY <3>1, <3>2 DEF activeMember, Frozen, Unsettled
    <3> QED BY <1>i, <2>1, <3>1, <3>3 DEF InputInv, HeldInv, WaitInv
  <2>5. CASE DeliverToAnnouncer(u)
    <3>1. /\ activeMember = "announcer" /\ activeMember' = activeMember
          /\ UNCHANGED <<held, landed, inbox, turn>>
      BY <2>5 DEF DeliverToAnnouncer, activeMember
    <3> QED BY <1>i, <1>a, <2>1, <3>1 DEF InputInv, HeldInv, WaitInv
  <2> QED BY <1>9, <2>2, <2>3, <2>4, <2>5 DEF Submit
<1>10. ASSUME NEW m \in Agents, Claim(m) PROVE InputInv'
  <2>1. /\ UNCHANGED <<life, flow, landed, held, abort, pump, externalPending, wake>>
        /\ \A k \in Agents : \A x \in inbox'[k] : IsUser(x) => x \in inbox[k]
    BY <1>10, <1>t DEF Claim, TypeOK
  <2>2. activeMember' = activeMember /\ paused' = paused /\ \A k : busy(k)' = busy(k)
    BY <1>10, <2>1, <1>t DEF Claim, activeMember, paused, busy, TypeOK
  <2> QED BY <2>1, <2>2, InputInvKept
<1>11. CASE HookAnnounce \/ GameEnds \/ \E m \in Agents : Speak(m)
  <2>1. /\ UNCHANGED <<life, flow, turn, landed, held, abort, pump, externalPending, wake>>
        /\ \A k \in Agents : \A x \in inbox'[k] : IsUser(x) => x \in inbox[k]
    <3>1. UNCHANGED <<life, flow, turn, landed, held, abort, pump, externalPending, wake>>
      BY <1>11 DEF HookAnnounce, GameEnds, Speak
    <3>2. CASE GameEnds
      BY <3>1, <3>2 DEF GameEnds
    <3>3. ASSUME NEW from, NEW S, Relay(from, 0, S)
          PROVE  \A k \in Agents : \A x \in inbox'[k] : IsUser(x) => x \in inbox[k]
      BY <3>3, MessageFields DEF Relay
    <3> QED BY <1>11, <3>1, <3>2, <3>3, AnnounceRelays DEF HookAnnounce, Speak
  <2>2. activeMember' = activeMember /\ paused' = paused /\ \A k : busy(k)' = busy(k)
    BY <2>1 DEF activeMember, paused, busy
  <2> QED BY <2>1, <2>2, InputInvKept
<1>12. ASSUME NEW m \in Agents, NEW f \in BOOLEAN, TurnEnds(m, f) PROVE InputInv'
  <2> DEFINE outcome == IF abort[m] THEN "aborted" ELSE IF f THEN "failed" ELSE "settled"
  <2>1. /\ busy(m) /\ pump \in {"external", "drive"} /\ m = activeMember /\ ~externalPending
        /\ \A k \in Agents : k # m => ~busy(k)
    BY <1>12, <1>d, OnlyActive DEF TurnEnds, Settled, busy, OneDriver, CoreInv
  <2>2. /\ UNCHANGED <<life, flow, hold, inbox, landed, externalPending>>
        /\ held' = [held EXCEPT ![m] = IF hold[m] /\ outcome = "settled" THEN {} ELSE held[m]]
        /\ wake' = IF pump = "external" /\ outcome = "settled" THEN "null" ELSE outcome
        /\ pump' = PumpAfterAwait
        /\ outcome = "settled" => inbox[m] = {}
    BY <1>12 DEF TurnEnds
  <2>3. outcome \in {"aborted", "failed", "settled"} /\ (abort[m] => outcome = "aborted")
    OBVIOUS
  <2> HIDE DEF outcome
  <2>4. activeMember' = activeMember /\ paused' = paused
    BY <2>2 DEF activeMember, paused
  <2>5. CASE life # "live"
    BY <1>i, <1>t, <2>2, <2>5 DEF InputInv, HeldInv, WaitInv, TypeOK
  <2>6. CASE life = "live" /\ outcome # "settled"
    <3>1. Stalling' /\ Unsettled' /\ held' = held
      BY <2>1, <2>2, <2>3, <2>6, <1>t DEF Stalling, Unsettled, PumpAfterAwait, TypeOK
    <3> QED BY <1>i, <2>1, <2>2, <2>4, <3>1 DEF InputInv, HeldInv, WaitInv
  <2>7. CASE life = "live" /\ outcome = "settled"
    <3>1. landed = {} /\ inbox[m] = {}
      BY <1>i, <2>1, <2>2, <2>3, <2>7 DEF WaitInv, Stalling, Frozen
    <3>2. \A k \in Agents : \A x \in inbox'[k] : ~IsUser(x)
      BY <1>i, <2>1, <2>2, <2>7, <3>1 DEF WaitInv
    <3>3. WaitInv'
      BY <2>2, <3>1, <3>2 DEF WaitInv
    <3>4. CASE pump = "drive"
      <4>1. hold[m]
        BY <2>1, <3>4, <1>d DEF PumpInv
      <4>2. \A k \in Agents : held'[k] = {}
        BY <2>1, <2>2, <2>7, <4>1, <1>i, <1>t DEF HeldInv, TypeOK
      <4> QED BY <4>2, <3>3 DEF InputInv, HeldInv
    <3>5. CASE pump = "external"
      <4>1. \A k \in Agents : held'[k] \subseteq held[k]
        BY <2>2, <1>t DEF TypeOK
      <4>2. Unsettled => Unsettled'
        BY <2>2, <2>4, <2>7, <3>5 DEF Unsettled, Stalling
      <4> QED BY <1>i, <2>2, <2>4, <4>1, <4>2, <3>3 DEF InputInv, HeldInv
    <3> QED BY <2>1, <3>4, <3>5
  <2> QED BY <2>3, <2>5, <2>6, <2>7
<1> QED BY <1>1, <1>2, <1>3, <1>4, <1>5, <1>6, <1>7, <1>8, <1>9, <1>10, <1>11, <1>12 DEF Next

-----------------------------------------------------------------------------
(* User messages.                                                            *)

one(b) == IF b THEN 1 ELSE 0

\* Places, member by member.
Sum(u) ==
    one(User(u) \in inbox["player"]) + one(User(u) \in inbox["planner"]) + one(u \in landed)
      + seen["player"][u] + seen["planner"][u]
      + one(<<"player", u>> \in abandoned) + one(<<"planner", u>> \in abandoned)
      + one(<<"announcer", u>> \in abandoned)

LEMMA PlacesIsSum == ASSUME TypeOK, NEW u \in UserMessages PROVE Places(u) = Sum(u)
<1> DEFINE I == {m \in Agents : User(u) \in inbox[m]}
           A == {m \in Members : <<m, u>> \in abandoned}
<1>1. Cardinality({}) = 0 /\ IsFiniteSet({})
  BY FS_EmptySet
<1>2. ASSUME NEW S, NEW x, IsFiniteSet(S), x \notin S, NEW b \in BOOLEAN
      PROVE  LET T == IF b THEN S \cup {x} ELSE S
             IN  IsFiniteSet(T) /\ Cardinality(T) = Cardinality(S) + one(b)
                                /\ Cardinality(T) \in Nat /\ Cardinality(S) \in Nat
  <2>1. IsFiniteSet(S \cup {x}) /\ Cardinality(S \cup {x}) = Cardinality(S) + 1
    BY <1>2, FS_AddElement
  <2>2. Cardinality(S) \in Nat
    BY <1>2, FS_CardinalityType
  <2> QED BY <1>2, <2>1, <2>2 DEF one
<1>3. Cardinality(I) = one(User(u) \in inbox["player"]) + one(User(u) \in inbox["planner"])
  <2> DEFINE b1 == User(u) \in inbox["player"]
             b2 == User(u) \in inbox["planner"]
             I1 == IF b1 THEN {"player"} ELSE {}
             I2 == IF b2 THEN I1 \cup {"planner"} ELSE I1
  <2>1. I = I2
    BY DEF Agents
  <2>2. IsFiniteSet(I1) /\ Cardinality(I1) = one(b1) /\ Cardinality(I1) \in Nat
    <3>1. IsFiniteSet({"player"}) /\ Cardinality({"player"}) = 1
      BY FS_Singleton
    <3>2. CASE b1
      BY <3>1, <3>2 DEF one
    <3>3. CASE ~b1
      BY <1>1, <3>3 DEF one
    <3> QED BY <3>2, <3>3
  <2>3. "planner" \notin I1 /\ b2 \in BOOLEAN
    OBVIOUS
  <2> HIDE DEF I1
  <2>4. Cardinality(I2) = Cardinality(I1) + one(b2)
    <3> HIDE DEF b2
    <3> QED BY <2>2, <2>3, <1>2
  <2>5. one(b1) \in Nat /\ one(b2) \in Nat
    BY DEF one
  <2> HIDE DEF I, I2, b1, b2
  <2>6. Cardinality(I) = one(b1) + one(b2)
    BY <2>1, <2>2, <2>4, <2>5, <1>1
  <2> QED BY <2>6 DEF b1, b2
<1>4. Cardinality(A) = one(<<"player", u>> \in abandoned) + one(<<"planner", u>> \in abandoned)
                         + one(<<"announcer", u>> \in abandoned)
  <2> DEFINE b1 == <<"player", u>> \in abandoned
             b2 == <<"planner", u>> \in abandoned
             b3 == <<"announcer", u>> \in abandoned
             A1 == IF b1 THEN {"player"} ELSE {}
             A2 == IF b2 THEN A1 \cup {"planner"} ELSE A1
             A3 == IF b3 THEN A2 \cup {"announcer"} ELSE A2
  <2>1. A = A3
    BY DEF Members, Agents
  <2>2. IsFiniteSet(A1) /\ Cardinality(A1) = one(b1) /\ Cardinality(A1) \in Nat
    <3>1. IsFiniteSet({"player"}) /\ Cardinality({"player"}) = 1
      BY FS_Singleton
    <3>2. CASE b1
      BY <3>1, <3>2 DEF one
    <3>3. CASE ~b1
      BY <1>1, <3>3 DEF one
    <3> QED BY <3>2, <3>3
  <2>3. "planner" \notin A1 /\ "announcer" \notin A2 /\ b2 \in BOOLEAN /\ b3 \in BOOLEAN
    OBVIOUS
  <2> HIDE DEF A1
  <2>4. Cardinality(A2) = Cardinality(A1) + one(b2) /\ IsFiniteSet(A2) /\ Cardinality(A2) \in Nat
    <3> HIDE DEF b2
    <3> QED BY <2>2, <2>3, <1>2
  <2> HIDE DEF A2
  <2>5. Cardinality(A3) = Cardinality(A2) + one(b3)
    <3> HIDE DEF b3
    <3> QED BY <2>4, <2>3, <1>2
  <2>6. one(b1) \in Nat /\ one(b2) \in Nat /\ one(b3) \in Nat
    BY DEF one
  <2> HIDE DEF A, A3, b1, b2, b3
  <2>7. Cardinality(A) = one(b1) + one(b2) + one(b3)
    BY <2>1, <2>2, <2>4, <2>5, <2>6, <1>1
  <2> QED BY <2>7 DEF b1, b2, b3
<1>5. seen["player"][u] \in Nat /\ seen["planner"][u] \in Nat
  BY DEF TypeOK, Agents
<1>6. Places(u) = Cardinality(I) + (IF u \in landed THEN 1 ELSE 0)
                    + seen["player"][u] + seen["planner"][u] + Cardinality(A)
  BY DEF Places
<1> HIDE DEF I, A
<1> QED BY <1>3, <1>4, <1>5, <1>6 DEF Sum, one

\* While the team lives, an accepted message is in one place, any other in none.
PlaceInv == life = "live" => \A u \in UserMessages : Sum(u) = one(u \in sent)

LEMMA SumKept ==
    ASSUME NEW u,
           \A m \in Agents : /\ User(u) \in inbox'[m] <=> User(u) \in inbox[m]
                             /\ seen'[m][u] = seen[m][u],
           u \in landed' <=> u \in landed,
           \A m \in Members : <<m, u>> \in abandoned' <=> <<m, u>> \in abandoned
    PROVE  Sum(u)' = Sum(u)
<1>1. one(u \in landed')= one(u \in landed)
  BY DEF one
<1>2. \A m \in Agents : one(User(u) \in inbox'[m]) = one(User(u) \in inbox[m])
  BY DEF one
<1>3. \A m \in Members : one(<<m, u>> \in abandoned') = one(<<m, u>> \in abandoned)
  BY DEF one
<1>4. {"player", "planner"} \subseteq Agents /\ {"player", "planner", "announcer"} \subseteq Members
  BY DEF Agents, Members
<1> QED BY <1>1, <1>2, <1>3, <1>4 DEF Sum

\* A step that touches one member's inbox and log, and what w gave up.
LEMMA SumAt ==
    ASSUME TypeOK, TypeOK', NEW u \in UserMessages, NEW m \in Agents, NEW w \in Members,
           \A k \in Agents : k # m => /\ User(u) \in inbox'[k] <=> User(u) \in inbox[k]
                                      /\ seen'[k][u] = seen[k][u],
           \A k \in Members : k # w => (<<k, u>> \in abandoned' <=> <<k, u>> \in abandoned)
    PROVE  Sum(u)' = Sum(u) + (one(User(u) \in inbox'[m]) - one(User(u) \in inbox[m]))
                       + (one(u \in landed') - one(u \in landed)) + (seen'[m][u] - seen[m][u])
                       + (one(<<w, u>> \in abandoned') - one(<<w, u>> \in abandoned))
<1> DEFINE I(k) == one(User(u) \in inbox[k])
           J(k) == one(User(u) \in inbox'[k])
           A(k) == one(<<k, u>> \in abandoned)
           B(k) == one(<<k, u>> \in abandoned')
           l == one(u \in landed)
           n == one(u \in landed')
<1>1. /\ \A k \in Agents : I(k) \in Int /\ J(k) \in Int /\ (k # m => J(k) = I(k))
      /\ \A k \in Members : A(k) \in Int /\ B(k) \in Int /\ (k # w => B(k) = A(k))
      /\ l \in Int /\ n \in Int
  BY DEF one
<1>2. \A k \in Agents : seen[k][u] \in Int /\ seen'[k][u] \in Int /\ (k # m => seen'[k][u] = seen[k][u])
  <2>1. /\ seen \in [Agents -> [Unit \cup UserMessages -> Nat]]
        /\ seen' \in [Agents -> [Unit \cup UserMessages -> Nat]]
    BY Zenon DEF TypeOK
  <2> QED BY <2>1
<1>3. /\ Sum(u) = I("player") + I("planner") + l + seen["player"][u] + seen["planner"][u]
                    + A("player") + A("planner") + A("announcer")
      /\ Sum(u)' = J("player") + J("planner") + n + seen'["player"][u] + seen'["planner"][u]
                    + B("player") + B("planner") + B("announcer")
  BY DEF Sum
<1>4. {"player", "planner"} = Agents /\ {"player", "planner", "announcer"} = Members
  BY DEF Agents, Members
<1> HIDE DEF I, J, A, B, l, n
<1>5. Sum(u)' = Sum(u) + (J(m) - I(m)) + (n - l) + (seen'[m][u] - seen[m][u]) + (B(w) - A(w))
  <2>1. \/ m = "player" /\ J("planner") = I("planner") /\ seen'["planner"][u] = seen["planner"][u]
        \/ m = "planner" /\ J("player") = I("player") /\ seen'["player"][u] = seen["player"][u]
    BY <1>1, <1>2, <1>4
  <2>2. \/ w = "player" /\ B("planner") = A("planner") /\ B("announcer") = A("announcer")
        \/ w = "planner" /\ B("player") = A("player") /\ B("announcer") = A("announcer")
        \/ w = "announcer" /\ B("player") = A("player") /\ B("planner") = A("planner")
    BY <1>1, <1>4
  <2>3. /\ I("player") \in Int /\ I("planner") \in Int /\ J("player") \in Int /\ J("planner") \in Int
        /\ A("player") \in Int /\ A("planner") \in Int /\ A("announcer") \in Int
        /\ B("player") \in Int /\ B("planner") \in Int /\ B("announcer") \in Int
        /\ seen["player"][u] \in Int /\ seen["planner"][u] \in Int
        /\ seen'["player"][u] \in Int /\ seen'["planner"][u] \in Int
    BY <1>1, <1>2, <1>4
  <2> QED BY <2>1, <2>2, <2>3, <1>1, <1>3
<1> QED BY <1>5 DEF I, J, A, B, l, n

\* A message in one place is in no other; one not accepted is nowhere.
LEMMA SumBounds ==
    ASSUME TypeOK, NEW u \in UserMessages, NEW m \in Agents, NEW w \in Members
    PROVE  /\ Sum(u) \in Nat
           /\ Sum(u) <= 1 /\ u \in landed => User(u) \notin inbox[m]
           /\ Sum(u) = 0 => /\ User(u) \notin inbox[m] /\ u \notin landed
                            /\ <<w, u>> \notin abandoned
<1>1. seen["player"][u] \in Nat /\ seen["planner"][u] \in Nat
  BY DEF TypeOK, Agents
<1> QED BY <1>1 DEF Sum, one, Agents, Members

\* What a member gives up unclaimed is a broadcast.
LEMMA ForsakenUnits ==
    ASSUME TypeOK, NEW u \in UserMessages, NEW m \in Agents, NEW S \in SUBSET inbox[m]
    PROVE  \A k : <<k, u>> \notin Forsaken(m, S)
<1>1. u \notin Unit
  BY LoopAssumption DEF Unit
<1>2. \A x \in S : x.kind = "drained" => x.of \in Unit
  BY MessageCases DEF TypeOK
<1> QED BY <1>1, <1>2 DEF Forsaken

LEMMA UnreadUnits ==
    ASSUME TypeOK, NEW u \in UserMessages, NEW m \in Agents
    PROVE  \A k : <<k, u>> \notin Unread(m)
<1>1. u \notin Unit
  BY LoopAssumption DEF Unit
<1>2. \A x \in held[m] : x.kind = "drained" => x.of \in Unit
  BY MessageCases DEF TypeOK
<1> QED BY <1>1, <1>2 DEF Unread

\* The claim of an inbox counts a user message in it once.
LEMMA ClaimUser ==
    ASSUME TypeOK, NEW u \in UserMessages, NEW m \in Agents, Claim(m)
    PROVE  seen'[m][u] = seen[m][u] + one(User(u) \in inbox[m])
<1>1. u \notin Unit
  BY LoopAssumption DEF Unit
<1>2. {y \in inbox[m] : y.of = u} = IF User(u) \in inbox[m] THEN {User(u)} ELSE {}
  BY <1>1, MessageCases, MessageFields DEF TypeOK
<1>3. Cardinality({y \in inbox[m] : y.of = u}) = one(User(u) \in inbox[m])
  BY <1>2, FS_EmptySet, FS_Singleton DEF one
<1>4. seen'[m] = [x \in DOMAIN seen[m] |-> seen[m][x] + Cardinality({y \in inbox[m] : y.of = x})]
  BY DEF Claim, TypeOK
<1>5. u \in DOMAIN seen[m]
  BY DEF TypeOK
<1> QED BY <1>3, <1>4, <1>5

LEMMA PlaceInvNext == CoreInv /\ InputInv /\ PlaceInv /\ [Next]_vars => PlaceInv'
<1> SUFFICES ASSUME CoreInv, InputInv, PlaceInv, [Next]_vars, life' = "live",
                    NEW v \in UserMessages
             PROVE  Sum(v)' = one(v \in sent')
  BY DEF PlaceInv
<1>t. TypeOK /\ TypeOK' /\ HistOK /\ flow \in FlowType /\ flow.pos \in Activities
  <2>1. CoreInv'
    BY CoreInvNext
  <2> QED BY <2>1 DEF CoreInv, TypeInv, TypeOK, FlowType
<1>d. OneDriver /\ PumpInv /\ NewInv /\ HeldInv /\ WaitInv
  BY DEF CoreInv, DriveInv, InputInv
<1>n. v \notin Unit /\ (life = "live" => Sum(v) = one(v \in sent))
  BY LoopAssumption DEF PlaceInv, Unit
<1>g. Agents \subseteq Members /\ "announcer" \in Members
  BY DEF Members
<1> USE DEF flowVars, turnVars, teamVars, pumpVars, histVars, loopVars
<1>1. CASE Materialize \/ MaterializeFails \/ Release \/ Dispose
             \/ \E m \in Agents : CreateMember(m)
  BY <1>1 DEF Materialize, MaterializeFails, Release, Dispose, CreateMember
<1>2. CASE RegisterTeam
  <2>1. /\ UNCHANGED <<inbox, seen, abandoned, sent>> /\ landed' = {} /\ sent = {} /\ abandoned = {}
        /\ \A m \in Agents : inbox[m] = {} /\ seen[m][v] = 0
    BY <1>2, <1>d DEF RegisterTeam, NewInv
  <2>2. inbox'["player"] = {} /\ inbox'["planner"] = {} /\ seen'["player"][v] = 0
        /\ seen'["planner"][v] = 0
    BY <2>1 DEF Agents
  <2> QED BY <2>1, <2>2 DEF Sum, one
<1>3. CASE PumpRun \/ PumpDecide \/ GameEnds \/ UNCHANGED vars
             \/ \E m \in Agents, f \in BOOLEAN : TurnEnds(m, f)
  <2>1. UNCHANGED <<life, inbox, landed, seen, abandoned, sent>>
    BY <1>3 DEF PumpRun, PumpDecide, GameEnds, vars, TurnEnds
  <2>2. Sum(v)' = Sum(v)
    BY <2>1 DEF Sum
  <2> QED BY <2>1, <2>2, <1>n
<1>4. CASE Cancel
  <2>1. life = "live" /\ UNCHANGED <<seen, sent>> /\ pump \in {"none", "external", "drive"}
    BY <1>4 DEF Cancel, Settled
  <2>2. CASE paused
    <3>1. UNCHANGED <<inbox, landed, abandoned>>
      BY <1>4, <2>2 DEF Cancel
    <3> QED BY <2>1, <3>1, <1>n, SumKept
  <2>3. CASE ~paused /\ busy(activeMember)
    <3> DEFINE m == activeMember
    <3>1. /\ m \in Agents /\ landed' = landed \cup LandUnclaimed(m)
          /\ inbox' = [inbox EXCEPT ![m] = {}]
          /\ abandoned' = abandoned \cup Forsaken(m, inbox[m])
      BY <1>4, <2>3 DEF Cancel, busy
    <3>2. v \in LandUnclaimed(m) <=> User(v) \in inbox[m]
      <4>1. LandUnclaimed(m) = Of({x \in inbox[m] : IsUser(x)})
        BY <3>1 DEF LandUnclaimed
      <4>2. \A x \in inbox[m] : IsUser(x) => x = User(x.of)
        BY <3>1, <1>t, MessageCases DEF TypeOK, IsUser
      <4> QED BY <4>1, <4>2, MessageFields DEF Of
    <3>3. \A k \in Members : <<k, v>> \in abandoned' <=> <<k, v>> \in abandoned
      BY <3>1, <1>t, ForsakenUnits
    <3>4. /\ inbox'[m] = {} /\ \A k \in Agents : k # m => inbox'[k] = inbox[k]
      BY <3>1, <1>t DEF TypeOK
    <3> HIDE DEF m
    <3>5. Sum(v)' = Sum(v) + (one(User(v) \in inbox'[m]) - one(User(v) \in inbox[m]))
                      + (one(v \in landed') - one(v \in landed)) + (seen'[m][v] - seen[m][v])
                      + (one(<<m, v>> \in abandoned') - one(<<m, v>> \in abandoned))
      BY <2>1, <3>1, <3>3, <3>4, <1>t, <1>g, SumAt
    <3>6. Sum(v) \in Nat /\ (Sum(v) <= 1 /\ v \in landed => User(v) \notin inbox[m])
      BY <3>1, <1>t, <1>g, SumBounds
    <3>7. seen[m][v] \in Nat /\ (<<m, v>> \in abandoned' <=> <<m, v>> \in abandoned)
      BY <3>1, <3>3, <1>t, <1>g DEF TypeOK
    <3> QED BY <2>1, <3>1, <3>2, <3>4, <3>5, <3>6, <3>7, <1>n DEF one
  <2>4. CASE ~paused /\ ~busy(activeMember)
    <3>1. UNCHANGED <<inbox, abandoned>> /\ landed' = landed \cup LandUnclaimed(activeMember)
      BY <1>4, <2>4 DEF Cancel
    <3>2. \A m \in Agents : \A x \in inbox[m] : ~IsUser(x)
      BY <2>1, <2>4, <1>d DEF WaitInv, Stalling, Frozen, OneDriver
    <3>3. LandUnclaimed(activeMember) = {}
      BY <3>2 DEF LandUnclaimed, Of
    <3> QED BY <2>1, <3>1, <3>3, <1>n, SumKept
  <2> QED BY <2>2, <2>3, <2>4
<1>5. CASE PumpExecute
  <2>1. /\ UNCHANGED <<life, sent>> /\ life = "live" /\ landed = {}
        /\ \A m \in Agents : \A x \in inbox[m] : ~IsUser(x)
    BY <1>5, <1>d DEF PumpExecute, PumpInv, WaitInv, Stalling, Frozen, OneDriver, busy
  <2>2. CASE ExecuteAtOnce \/ ExecuteAnnounceThrows
    BY <2>1, <2>2, <1>n, SumKept DEF ExecuteAtOnce, ExecuteAnnounceThrows
  <2>3. CASE ExecuteAnnounce
    <3>1. UNCHANGED <<landed, seen, abandoned>>
          /\ \A m \in Agents : User(v) \in inbox'[m] <=> User(v) \in inbox[m]
      <4>1. Announce(terminal) /\ UNCHANGED <<landed, abandoned>>
        BY <2>3 DEF ExecuteAnnounce
      <4>2. seen' = seen
        BY <4>1, AnnounceRelays DEF Relay
      <4> QED BY <4>1, <4>2, AnnounceUsers, MessageFields
    <3> QED BY <2>1, <3>1, <1>n, SumKept
  <2>4. CASE ExecuteDrive
    <3> DEFINE m == activeMember
    <3>1. /\ m \in Agents /\ landed' = {} /\ seen' = seen
          /\ inbox' = [inbox EXCEPT ![m] = {x \in inbox[m] : IsUser(x)} \cup DefaultInput(m)]
          /\ \/ abandoned' = abandoned \cup Forsaken(m, {x \in inbox[m] : ~IsUser(x)})
             \/ abandoned' = abandoned \cup Forsaken(m, {x \in inbox[m] : ~IsUser(x)})
                                \cup Unread(m)
      BY <2>4 DEF ExecuteDrive, StartTurn
    <3>2. User(v) \notin DefaultInput(m)
      BY <3>1, <2>1, <1>d, MessageFields DEF DefaultInput, FreshInput, HeldInv
    <3>3. \A k \in Agents : User(v) \in inbox'[k] <=> User(v) \in inbox[k]
      BY <3>1, <3>2, <1>t, MessageFields DEF TypeOK
    <3>4. \A k \in Members : <<k, v>> \in abandoned' <=> <<k, v>> \in abandoned
      BY <3>1, <1>t, ForsakenUnits, UnreadUnits
    <3> QED BY <2>1, <3>1, <3>3, <3>4, <1>n, SumKept
  <2>5. CASE ExecuteThrows
    <3>1. activeMember \in Agents /\ UNCHANGED <<inbox, landed, seen>>
      BY <2>5 DEF ExecuteThrows
    <3>2. Pending(activeMember) \subseteq Unit
      BY <3>1, <1>t, InputTypes
    <3>3. \A k \in Members : <<k, v>> \in abandoned' <=> <<k, v>> \in abandoned
      <4>1. CASE abandoned' = abandoned
        BY <4>1
      <4>2. CASE \E built \in SUBSET Pending(activeMember) :
                    abandoned' = abandoned \cup {<<activeMember, n>> : n \in built}
        BY <4>2, <3>2, <1>n
      <4> QED BY <2>5, <4>1, <4>2 DEF ExecuteThrows
    <3> QED BY <2>1, <3>1, <3>3, <1>n, SumKept
  <2> QED BY <1>5, <2>2, <2>3, <2>4, <2>5 DEF PumpExecute
<1>6. ASSUME NEW u \in UserMessages, Submit(u) PROVE Sum(v)' = one(v \in sent')
  <2> DEFINE m == activeMember
  <2>1. life = "live" /\ seen' = seen /\ sent' = sent \cup {u} /\ u \notin sent
    BY <1>6 DEF Submit
  <2>2. Sum(v) = one(v \in sent) /\ (v = u => Sum(v) = 0)
    BY <2>1, <1>n DEF one
  <2>3. CASE Steer(u)
    <3>1. /\ m \in Agents /\ landed' = {} /\ abandoned' = abandoned
          /\ inbox' = [inbox EXCEPT ![m] = inbox[m] \cup {User(x) : x \in landed \cup {u}}]
      BY <2>3 DEF Steer, busy
    <3>2. User(v) \in inbox'[m] <=> User(v) \in inbox[m] \/ v \in landed \/ v = u
      <4>1. inbox'[m] = inbox[m] \cup {User(x) : x \in landed \cup {u}}
        BY <3>1, <1>t DEF TypeOK
      <4>2. \A x : User(x) = User(v) => x = v
        BY MessageFields
      <4> HIDE DEF m
      <4> QED BY <4>1, <4>2
    <3>3. \A k \in Agents : k # m => inbox'[k] = inbox[k]
      BY <3>1, <1>t DEF TypeOK
    <3> HIDE DEF m
    <3>4. Sum(v)' = Sum(v) + (one(User(v) \in inbox'[m]) - one(User(v) \in inbox[m]))
                      + (one(v \in landed') - one(v \in landed)) + (seen'[m][v] - seen[m][v])
                      + (one(<<m, v>> \in abandoned') - one(<<m, v>> \in abandoned))
      BY <2>1, <3>1, <3>3, <1>t, <1>g, SumAt
    <3>5. /\ Sum(v) \in Nat /\ (Sum(v) <= 1 /\ v \in landed => User(v) \notin inbox[m])
          /\ Sum(v) = 0 => User(v) \notin inbox[m] /\ v \notin landed
      BY <3>1, <1>t, <1>g, SumBounds
    <3>6. seen[m][v] \in Nat
      BY <3>1, <1>t DEF TypeOK
    <3> QED BY <2>1, <2>2, <3>1, <3>2, <3>4, <3>5, <3>6 DEF one
  <2>4. CASE Deliver(u)
    <3>1. /\ m \in Agents /\ landed' = {}
          /\ inbox' = [inbox EXCEPT ![m] = {x \in inbox[m] : IsUser(x)}
                                             \cup (FreshInput(m) \cup {User(u)})]
          /\ abandoned' = abandoned \cup Forsaken(m, {x \in inbox[m] : ~IsUser(x)})
      BY <2>4 DEF Deliver, StartTurn
    <3>2. User(v) \in FreshInput(m) <=> v \in landed
      BY MessageFields DEF FreshInput
    <3>3. User(v) \in inbox'[m] <=> User(v) \in inbox[m] \/ v \in landed \/ v = u
      <4>1. inbox'[m] = {x \in inbox[m] : IsUser(x)} \cup (FreshInput(m) \cup {User(u)})
        BY <3>1, <1>t DEF TypeOK
      <4>2. IsUser(User(v)) /\ (User(u) = User(v) => u = v)
        BY MessageFields
      <4> HIDE DEF m
      <4> QED BY <4>1, <4>2, <3>2
    <3>4. \A k \in Agents : k # m => inbox'[k] = inbox[k]
      BY <3>1, <1>t DEF TypeOK
    <3>5. \A k \in Members : <<k, v>> \in abandoned' <=> <<k, v>> \in abandoned
      BY <3>1, <1>t, ForsakenUnits
    <3> HIDE DEF m
    <3>6. Sum(v)' = Sum(v) + (one(User(v) \in inbox'[m]) - one(User(v) \in inbox[m]))
                      + (one(v \in landed') - one(v \in landed)) + (seen'[m][v] - seen[m][v])
                      + (one(<<m, v>> \in abandoned') - one(<<m, v>> \in abandoned))
      BY <2>1, <3>1, <3>4, <3>5, <1>t, <1>g, SumAt
    <3>7. /\ Sum(v) \in Nat /\ (Sum(v) <= 1 /\ v \in landed => User(v) \notin inbox[m])
          /\ Sum(v) = 0 => User(v) \notin inbox[m] /\ v \notin landed
      BY <3>1, <1>t, <1>g, SumBounds
    <3>8. seen[m][v] \in Nat /\ (<<m, v>> \in abandoned' <=> <<m, v>> \in abandoned)
      BY <3>1, <3>5, <1>t, <1>g, SMTT(30) DEF TypeOK
    <3> QED BY <2>1, <2>2, <3>1, <3>3, <3>6, <3>7, <3>8 DEF one
  <2>5. CASE DeliverThrows(u) \/ DeliverToAnnouncer(u)
    <3>0. m \in Members
      BY <1>t, ActiveMember
    <3>1. /\ UNCHANGED <<inbox, landed>>
          /\ <<m, v>> \in abandoned' <=> <<m, v>> \in abandoned \/ v = u
          /\ \A k \in Members : k # m => (<<k, v>> \in abandoned' <=> <<k, v>> \in abandoned)
      <4>1. CASE DeliverToAnnouncer(u)
        BY <4>1 DEF DeliverToAnnouncer
      <4>2. CASE DeliverThrows(u)
        <5>1. m \in Agents /\ UNCHANGED <<inbox, landed>>
          BY <4>2 DEF DeliverThrows
        <5>2. Pending(m) \subseteq Unit
          BY <5>1, <1>t, InputTypes
        <5>3. PICK built \in SUBSET Pending(m) :
                 abandoned' = abandoned \cup {<<m, n>> : n \in built} \cup {<<m, u>>}
          BY <4>2 DEF DeliverThrows
        <5> HIDE DEF m
        <5> QED BY <5>1, <5>2, <5>3, <1>n
      <4> QED BY <2>5, <4>1, <4>2
    <3>2. "player" \in Agents /\ seen["player"][v] \in Nat
      BY <1>t DEF Agents, TypeOK
    <3> HIDE DEF m
    <3>3. Sum(v)' = Sum(v) + (one(User(v) \in inbox'["player"]) - one(User(v) \in inbox["player"]))
                      + (one(v \in landed') - one(v \in landed))
                      + (seen'["player"][v] - seen["player"][v])
                      + (one(<<m, v>> \in abandoned') - one(<<m, v>> \in abandoned))
      BY <2>1, <3>0, <3>1, <3>2, <1>t, SumAt
    <3>4. Sum(v) \in Nat /\ (Sum(v) = 0 => <<m, v>> \notin abandoned)
      BY <3>0, <3>2, <1>t, SumBounds
    <3> QED BY <2>1, <2>2, <3>1, <3>2, <3>3, <3>4 DEF one
  <2> QED BY <1>6, <2>3, <2>4, <2>5 DEF Submit
<1>7. ASSUME NEW m \in Agents, Claim(m) PROVE Sum(v)' = one(v \in sent')
  <2>1. UNCHANGED <<life, landed, abandoned, sent>> /\ inbox' = [inbox EXCEPT ![m] = {}]
    BY <1>7 DEF Claim
  <2>2. inbox'[m] = {} /\ \A k \in Agents : k # m => inbox'[k] = inbox[k] /\ seen'[k] = seen[k]
    BY <1>7, <2>1, <1>t DEF Claim, TypeOK
  <2>3. seen'[m][v] = seen[m][v] + one(User(v) \in inbox[m]) /\ seen[m][v] \in Nat
    <3>1. seen[m][v] \in Nat
      BY <1>t DEF TypeOK
    <3> QED BY <1>7, <1>t, <3>1, ClaimUser
  <2>4. Sum(v)' = Sum(v) + (one(User(v) \in inbox'[m]) - one(User(v) \in inbox[m]))
                    + (one(v \in landed') - one(v \in landed)) + (seen'[m][v] - seen[m][v])
                    + (one(<<m, v>> \in abandoned') - one(<<m, v>> \in abandoned))
    BY <2>1, <2>2, <1>t, <1>g, SumAt
  <2>5. Sum(v) \in Nat
    BY <1>7, <1>t, <1>g, SumBounds
  <2> QED BY <2>1, <2>2, <2>3, <2>4, <2>5, <1>n DEF one
<1>8. CASE HookAnnounce \/ \E m \in Agents : Speak(m)
  <2>1. UNCHANGED <<life, landed, abandoned, sent>> /\ seen' = seen
    BY <1>8, AnnounceRelays DEF HookAnnounce, Speak, Relay
  <2>2. ASSUME NEW from, NEW S, Relay(from, 0, S)
        PROVE  \A k \in Agents : User(v) \in inbox'[k] <=> User(v) \in inbox[k]
    BY <2>2, MessageFields DEF Relay
  <2>3. \A k \in Agents : User(v) \in inbox'[k] <=> User(v) \in inbox[k]
    BY <1>8, <2>2, AnnounceRelays DEF HookAnnounce, Speak
  <2> QED BY <2>1, <2>3, <1>n, SumKept
<1> QED BY <1>1, <1>2, <1>3, <1>4, <1>5, <1>6, <1>7, <1>8 DEF Next

\* An accepted user message is in exactly one place while the team lives: an
\* inbox, the landed set, a member's log, or among those given up for a stated
\* reason; a cancel, a failure or a replay neither loses nor doubles it.
THEOREM UserMessagesOnce == Spec => []UserMessageOnce
<1>1. Init => CoreInv /\ InputInv /\ PlaceInv
  BY CoreInvInit, InputInvInit DEF Init, PlaceInv
<1>2. CoreInv /\ InputInv /\ PlaceInv /\ [Next]_vars => (CoreInv /\ InputInv /\ PlaceInv)'
  BY CoreInvNext, InputInvNext, PlaceInvNext
<1>3. CoreInv /\ PlaceInv => UserMessageOnce
  <2> SUFFICES ASSUME CoreInv, PlaceInv, life = "live", NEW u \in sent PROVE Places(u) = 1
    BY DEF UserMessageOnce
  <2>1. TypeOK /\ u \in UserMessages
    BY DEF CoreInv, TypeInv, TypeOK
  <2> QED BY <2>1, PlacesIsSum DEF PlaceInv, one
<1> QED BY <1>1, <1>2, <1>3, PTL DEF Spec

-----------------------------------------------------------------------------
(* Broadcasts: one unit on its way to one member.                            *)

\* Unit n waits for m: neither m's log nor a drain has taken it.
Waits(m, n) == n \in DOMAIN units /\ units[n].from # m /\ seen[m][n] = 0 /\ n \notin drained[m]

\* Where unit n can be on its way to m, and how often m has read it.
UnitInv(m, n) ==
    /\ n \notin DOMAIN units =>
          /\ n \notin drained[m] /\ seen[m][n] = 0
          /\ Drained(n) \notin inbox[m] /\ Fast(n) \notin inbox[m] /\ Drained(n) \notin held[m]
    /\ Drained(n) \in inbox[m] \cup held[m] => n \in drained[m] \/ seen[m][n] > 0
    /\ Fast(n) \in inbox[m] /\ busy(m) => n \notin drained[m] /\ seen[m][n] = 0
    /\ Drained(n) \in inbox[m] => seen[m][n] = 0 \/ <<m, n>> \in replayed
    /\ seen[m][n] <= 1 \/ <<m, n>> \in replayed
    \* the input of a drive is also held, until it is read or the turn aborted
    /\ hold[m] /\ Drained(n) \in inbox[m] => Drained(n) \in held[m]
    /\ hold[m] /\ busy(m) /\ ~abort[m] /\ Drained(n) \in held[m] /\ seen[m][n] = 0
          => Drained(n) \in inbox[m]
    \* a unit that was drained and not read is somewhere, or was given up
    /\ life = "live" /\ n \in drained[m] /\ seen[m][n] = 0 =>
          Drained(n) \in inbox[m] \cup held[m] \/ <<m, n>> \in abandoned
    \* a unit that appears during m's turn is also injected into it, or the
    \* injection of something the announcer said about no record failed
    /\ life = "live" /\ busy(m) /\ ~abort[m] /\ Waits(m, n) =>
          Fast(n) \in inbox[m] \/ <<m, n>> \in missed
    /\ <<m, n>> \in missed => n \in DOMAIN units /\ units[n].about = 0

\* A delivery that settled has read all there was but what missed it; so has
\* the flow when it restarts a frozen activity.
CaughtUp ==
    (pump = "decide" /\ wake = "null") \/ (pump = "execute" /\ paused) =>
       \A n \in Unit : Waits(activeMember, n) => <<activeMember, n>> \in missed

BroadcastInv == (\A m \in Agents, n \in Unit : UnitInv(m, n)) /\ CaughtUp

LEMMA PendingWaits ==
    ASSUME TypeOK, NEW m \in Agents
    PROVE  /\ Pending(m) = {n \in Unit : Waits(m, n)}
           /\ \A n \in Unit : n \in DOMAIN units <=> n <= Len(units)
           /\ Len(units) \in Nat /\ DOMAIN units \subseteq Unit
<1>1. Len(units) \in Nat /\ DOMAIN units = 1..Len(units) /\ Len(units) <= MaxUnits
  BY DEF TypeOK
<1>2. DOMAIN units \subseteq Unit
  BY <1>1, LoopAssumption DEF Unit
<1> QED BY <1>1, <1>2, LoopAssumption DEF Pending, Waits, Unit

\* The claim of an inbox counts the copies of a unit in it.
LEMMA ClaimUnit ==
    ASSUME TypeOK, NEW m \in Agents, NEW n \in Unit, Claim(m), UnitInv(m, n)
    PROVE  /\ seen'[m][n] = seen[m][n] + one(Drained(n) \in inbox[m] \/ Fast(n) \in inbox[m])
           /\ ~(Drained(n) \in inbox[m] /\ Fast(n) \in inbox[m])
           /\ \A k \in Agents : k # m => seen'[k] = seen[k]
<1>1. n \notin UserMessages
  BY LoopAssumption DEF Unit
<1>2. ~(Drained(n) \in inbox[m] /\ Fast(n) \in inbox[m])
  <2>1. seen[m][n] \in Nat /\ busy(m)
    BY DEF TypeOK, Claim, busy
  <2> QED BY <2>1 DEF UnitInv
<1>3. {y \in inbox[m] : y.of = n} =
        IF Drained(n) \in inbox[m] THEN {Drained(n)}
        ELSE IF Fast(n) \in inbox[m] THEN {Fast(n)} ELSE {}
  <2>1. \A y \in inbox[m] : y.of = n <=> y \in {Drained(n), Fast(n)}
    <3>1. \A y \in inbox[m] : y \in Message
      BY DEF TypeOK
    <3>2. \A y \in inbox[m] : y.of = n => y = Drained(n) \/ y = Fast(n)
      BY <3>1, <1>1, MessageCases
    <3> QED BY <3>2, MessageFields
  <2> QED BY <1>2, <2>1
<1>4. Cardinality({y \in inbox[m] : y.of = n})
        = one(Drained(n) \in inbox[m] \/ Fast(n) \in inbox[m])
  BY <1>3, FS_EmptySet, FS_Singleton DEF one
<1>5. seen'[m] = [x \in DOMAIN seen[m] |-> seen[m][x] + Cardinality({y \in inbox[m] : y.of = x})]
  BY DEF Claim, TypeOK
<1>6. n \in DOMAIN seen[m]
  BY DEF TypeOK
<1>7. \A k \in Agents : k # m => seen'[k] = seen[k]
  BY DEF Claim, TypeOK
<1> QED BY <1>2, <1>4, <1>5, <1>6, <1>7

\* A step that changes nothing of the pair, except that m's turn, or the team,
\* may end.
LEMMA UnitInvKept ==
    ASSUME NEW m \in Agents, NEW n \in Unit, UnitInv(m, n),
           UNCHANGED <<units, drained[m], seen[m], held[m], hold[m], missed>>,
           life' = "live" => life = "live" \/ (n \notin drained[m] /\ ~busy(m)'),
           busy(m)' => busy(m) /\ (abort[m] => abort'[m]),
           Drained(n) \in inbox'[m] <=> Drained(n) \in inbox[m],
           Fast(n) \in inbox'[m] <=> Fast(n) \in inbox[m],
           <<m, n>> \in replayed => <<m, n>> \in replayed',
           <<m, n>> \in abandoned => <<m, n>> \in abandoned'
    PROVE  UnitInv(m, n)'
<1>1. Waits(m, n)' <=> Waits(m, n)
  BY DEF Waits
<1> QED BY <1>1 DEF UnitInv

\* A unit that is appended: its copy enters the inbox of the turns in flight.
LEMMA UnitInvRelay ==
    ASSUME TypeOK, NEW m \in Agents, NEW n \in Unit, UnitInv(m, n),
           NEW from, NEW about, NEW S \in SUBSET Agents, Relay(from, about, S),
           UNCHANGED <<turn, held, hold, abort, life, replayed, abandoned>>,
           m \in S => busy(m),
           m \notin S => ~busy(m) \/ from = m \/ <<m, Len(units) + 1>> \in missed',
           \A i \in Unit : <<m, i>> \in missed => <<m, i>> \in missed',
           \A i \in Unit : <<m, i>> \in missed' =>
              <<m, i>> \in missed \/ (i = Len(units) + 1 /\ about = 0)
    PROVE  UnitInv(m, n)'
<1> DEFINE k == Len(units) + 1
<1>1. /\ Len(units) \in Nat /\ DOMAIN units = 1..Len(units)
      /\ units' = Append(units, [from |-> from, about |-> about])
      /\ drained' = drained /\ seen' = seen
      /\ inbox'[m] = IF m \in S THEN inbox[m] \cup {Fast(k)} ELSE inbox[m]
  BY DEF TypeOK, Relay
<1>2. /\ DOMAIN units' = 1..k /\ units'[k].from = from /\ units'[k].about = about
      /\ \A i \in DOMAIN units : units'[i] = units[i]
  <2> DEFINE r == [from |-> from, about |-> about]
  <2>1. r.from = from /\ r.about = about /\ units' = Append(units, r)
    BY <1>1
  <2> HIDE DEF r
  <2> QED BY <1>1, <2>1 DEF TypeOK
<1>3. busy(m)' = busy(m)
  BY DEF busy
<1>4. /\ Drained(n) \in inbox'[m] <=> Drained(n) \in inbox[m]
      /\ Fast(n) \in inbox'[m] <=> Fast(n) \in inbox[m] \/ (m \in S /\ n = k)
  BY <1>1, MessageFields
<1>5. CASE n = k
  <2>1. /\ n \notin DOMAIN units /\ n \in DOMAIN units'
        /\ units'[n].from = from /\ units'[n].about = about
    BY <1>1, <1>2, <1>5
  <2>2. n \notin drained[m] /\ seen[m][n] = 0 /\ Drained(n) \notin inbox[m] /\ Drained(n) \notin held[m]
    BY <2>1 DEF UnitInv
  <2> QED BY <1>1, <1>3, <1>4, <1>5, <2>1, <2>2 DEF UnitInv, Waits
<1>6. CASE n # k
  <2>1. /\ n \in DOMAIN units' <=> n \in DOMAIN units
        /\ n \in DOMAIN units => units'[n] = units[n]
    BY <1>1, <1>2, <1>6 DEF Unit
  <2>2. Waits(m, n)' <=> Waits(m, n)
    BY <1>1, <2>1 DEF Waits
  <2> QED BY <1>1, <1>3, <1>4, <1>6, <2>1, <2>2 DEF UnitInv
<1> QED BY <1>5, <1>6

\* A turn of m is started with all that waits for m, or with the held set when
\* nothing does.
LEMMA UnitInvStart ==
    ASSUME TypeOK, NEW m \in Agents, NEW n \in Unit, UnitInv(m, n), ~busy(m),
           NEW batch, NEW h \in BOOLEAN, StartTurn(m, batch, h),
           UNCHANGED <<life, units, seen, missed>>,
           drained' = [drained EXCEPT ![m] = DrainMark(m, Pending(m))],
           <<m, n>> \in replayed => <<m, n>> \in replayed',
           abandoned \cup Forsaken(m, {x \in inbox[m] : ~IsUser(x)}) \subseteq abandoned',
           \/ Drained(n) \in batch <=> Waits(m, n)
           \/ /\ h /\ ~Waits(m, n) /\ (Drained(n) \in batch <=> Drained(n) \in held[m])
              /\ Drained(n) \in held[m] => <<m, n>> \in replayed',
           Fast(n) \notin batch,
           h /\ Drained(n) \in held[m] /\ seen[m][n] = 0 =>
              Drained(n) \in batch \/ <<m, n>> \in abandoned'
    PROVE  UnitInv(m, n)'
<1>1. /\ hold'[m] = h /\ busy(m)' /\ ~abort'[m]
      /\ held'[m] = IF h THEN batch ELSE held[m]
      /\ inbox'[m] = {x \in inbox[m] : IsUser(x)} \cup batch
  BY DEF StartTurn, TypeOK, busy
<1>2. /\ Drained(n) \in inbox'[m] <=> Drained(n) \in batch
      /\ Fast(n) \notin inbox'[m]
  BY <1>1, MessageFields
<1>3. n \in drained'[m] <=> (n \in drained[m] /\ seen[m][n] = 0) \/ Waits(m, n)
  BY PendingWaits, ZenonT(40) DEF DrainMark, TypeOK
<1>4. ~Waits(m, n)'
  BY <1>3 DEF Waits
<1>5. seen[m][n] \in Nat
  BY DEF TypeOK
<1>6. Drained(n) \in inbox[m] /\ ~hold[m] => <<m, n>> \in abandoned'
  BY MessageFields DEF Forsaken
<1>7. Waits(m, n) => n \in DOMAIN units /\ seen[m][n] = 0
  BY DEF Waits
<1>8. life' = "live" /\ n \in drained'[m] /\ seen'[m][n] = 0 =>
          Drained(n) \in inbox'[m] \cup held'[m] \/ <<m, n>> \in abandoned'
  BY <1>1, <1>2, <1>3, <1>6 DEF UnitInv
<1> QED BY <1>1, <1>2, <1>3, <1>4, <1>5, <1>7, <1>8 DEF UnitInv

\* Building m's input throws: the units built so far are marked and given up.
LEMMA UnitInvThrows ==
    ASSUME TypeOK, NEW m \in Agents, NEW n \in Unit, UnitInv(m, n),
           NEW k \in Agents, NEW built \in SUBSET Pending(k),
           drained' = [drained EXCEPT ![k] = DrainMark(k, built)],
           abandoned \cup {<<k, i>> : i \in built} \subseteq abandoned',
           UNCHANGED <<life, units, seen, turn, held, hold, abort, inbox, missed, replayed>>,
           busy(m)' = busy(m), m = k => ~busy(m)
    PROVE  UnitInv(m, n)'
<1>1. CASE m # k
  <2>1. drained'[m] = drained[m]
    BY <1>1 DEF TypeOK
  <2> QED BY <1>1, <2>1, UnitInvKept
<1>2. CASE m = k
  <2>1. n \in drained'[m] <=> (n \in drained[m] /\ seen[m][n] = 0) \/ n \in built
    BY <1>2 DEF DrainMark, TypeOK
  <2>2. n \in built => n \in DOMAIN units /\ <<m, n>> \in abandoned'
    BY <1>2 DEF Pending
  <2>3. seen[m][n] \in Nat
    BY DEF TypeOK
  <2> QED BY <1>2, <2>1, <2>2, <2>3 DEF UnitInv
<1> QED BY <1>1, <1>2

\* What a frozen drive holds is what a restart drives: nothing fresh waits but
\* what missed the turn before.
LEMMA OnlyMissed ==
    ASSUME CoreInv, InputInv, CaughtUp, NEW m \in Agents, pump = "execute",
           activeMember = m, held[m] # {}
    PROVE  FreshInput(m) \subseteq {Drained(n) : n \in {k \in Unit : <<m, k>> \in missed}}
<1>1. TypeOK /\ life = "live" /\ ~busy(activeMember) /\ ~externalPending
  BY DEF CoreInv, TypeInv, DriveInv, OneDriver, PumpInv, busy
<1>2. paused
  BY <1>1 DEF InputInv, HeldInv, Unsettled, Stalling
<1>3. Pending(m) \subseteq {k \in Unit : <<m, k>> \in missed}
  BY <1>1, <1>2, PendingWaits DEF CaughtUp
<1>4. landed = {}
  BY <1>1 DEF InputInv, WaitInv, Stalling, Frozen
<1> QED BY <1>3, <1>4 DEF FreshInput

LEMMA UnitInvNext ==
    ASSUME CoreInv, InputInv, BroadcastInv, [Next]_vars, NEW m \in Agents, NEW n \in Unit
    PROVE  UnitInv(m, n)'
<1>t. TypeOK /\ HistOK /\ flow \in FlowType
  BY DEF CoreInv, TypeInv, TypeOK, FlowType
<1>d. OneDriver /\ PumpInv /\ NewInv
  BY DEF CoreInv, DriveInv
<1>b. UnitInv(m, n) /\ CaughtUp
  BY DEF BroadcastInv
<1> USE DEF flowVars, turnVars, teamVars, pumpVars, histVars, loopVars
<1>1. CASE Materialize \/ MaterializeFails \/ RegisterTeam \/ Release \/ UNCHANGED vars
             \/ \E k \in Agents : CreateMember(k)
  <2>1. /\ UNCHANGED <<units, drained, seen, turn, held, hold, abort, inbox, missed, replayed, abandoned>>
        /\ life' = "live" => life = "live" \/ life = "building"
    BY <1>1 DEF Materialize, MaterializeFails, RegisterTeam, Release, CreateMember, vars
  <2>2. life = "building" => drained[m] = {} /\ ~busy(m)
    BY <1>d DEF NewInv, busy
  <2>3. busy(m)' = busy(m)
    BY <2>1 DEF busy
  <2> QED BY <1>b, <2>1, <2>2, <2>3, UnitInvKept
<1>2. CASE Dispose
  <2>1. /\ UNCHANGED <<units, drained, seen, turn, held, hold, missed, replayed, abandoned>>
        /\ life' # "live" /\ abort'[m] = (abort[m] \/ busy(m)) /\ busy(m)' = busy(m)
        /\ inbox'[m] = IF busy(m) THEN {} ELSE inbox[m]
    BY <1>2 DEF Dispose, busy
  <2> QED BY <1>b, <2>1 DEF UnitInv
<1>3. CASE Cancel
  <2>1. /\ UNCHANGED <<life, units, drained, seen, turn, held, hold, missed, replayed>>
        /\ busy(m)' = busy(m)
    BY <1>3 DEF Cancel, busy
  <2>2. CASE ~paused /\ busy(activeMember) /\ activeMember = m
    <3>1. /\ abort'[m] /\ inbox'[m] = {}
          /\ abandoned' = abandoned \cup Forsaken(m, inbox[m])
      BY <1>3, <1>t, <2>2 DEF Cancel, TypeOK
    <3>2. Drained(n) \in inbox[m] /\ ~hold[m] => <<m, n>> \in abandoned'
      BY <3>1, MessageFields DEF Forsaken
    <3> QED BY <1>b, <2>1, <3>1, <3>2 DEF UnitInv
  <2>3. CASE paused \/ ~busy(activeMember) \/ activeMember # m
    <3>1. /\ abort'[m] = abort[m] /\ inbox'[m] = inbox[m] /\ abandoned \subseteq abandoned'
      BY <1>3, <1>t, <2>3 DEF Cancel, TypeOK
    <3> QED BY <1>b, <2>1, <3>1, UnitInvKept
  <2> QED BY <2>2, <2>3
<1>4. CASE PumpRun \/ PumpDecide \/ GameEnds
  <2>1. UNCHANGED <<life, units, drained, seen, turn, held, hold, abort, inbox, missed, replayed, abandoned>>
    BY <1>4 DEF PumpRun, PumpDecide, GameEnds
  <2>2. busy(m)' = busy(m)
    BY <2>1 DEF busy
  <2> QED BY <1>b, <2>1, <2>2, UnitInvKept
<1>5. CASE PumpExecute
  <2>1. life' = life /\ pump = "execute" /\ \A k \in Agents : ~busy(k)
    BY <1>5, <1>d DEF PumpExecute, OneDriver
  <2>2. CASE ExecuteAtOnce \/ ExecuteAnnounceThrows
    <3>1. UNCHANGED <<units, drained, seen, turn, held, hold, abort, inbox, missed, replayed, abandoned>>
      BY <2>2 DEF ExecuteAtOnce, ExecuteAnnounceThrows
    <3>2. busy(m)' = busy(m)
      BY <3>1 DEF busy
    <3> QED BY <1>b, <2>1, <3>1, <3>2, UnitInvKept
  <2>3. CASE ExecuteAnnounce
    <3>1. UNCHANGED <<turn, held, hold, abort, replayed, abandoned>> /\ Announce(terminal)
      BY <2>3 DEF ExecuteAnnounce
    <3>2. Receivers("announcer") = {}
      BY <2>1 DEF Receivers
    <3>3. Relay("announcer", terminal, {}) /\ missed' = missed
      <4>1. PICK S \in SUBSET Receivers("announcer") :
               /\ Relay("announcer", terminal, S)
               /\ missed' = missed \cup
                     {<<k, Len(units) + 1>> : k \in Receivers("announcer") \ S}
        BY <3>1, AnnounceRelays
      <4>2. S = {} /\ Receivers("announcer") \ S = {}
        BY <3>2
      <4> QED BY <4>1, <4>2
    <3>4. ~busy(m) /\ life' = life /\ {} \in SUBSET Agents /\ m \notin {}
      BY <2>1
    <3>5. UNCHANGED <<turn, held, hold, abort, life, replayed, abandoned>>
      BY <3>1, <3>4
    <3> HIDE DEF flowVars, turnVars, teamVars, pumpVars, histVars, loopVars
    <3> QED BY ONLY <1>b, <1>t, <3>3, <3>4, <3>5, UnitInvRelay
  <2>4. CASE ExecuteDrive
    <3>1. /\ activeMember \in Agents /\ DefaultInput(activeMember) # {}
          /\ StartTurn(activeMember, DefaultInput(activeMember), TRUE)
          /\ UNCHANGED <<units, seen, missed>>
          /\ drained' = [drained EXCEPT ![activeMember] =
                            DrainMark(activeMember, Pending(activeMember))]
          /\ abandoned \cup Forsaken(activeMember, {x \in inbox[activeMember] : ~IsUser(x)})
                \subseteq abandoned'
          /\ FreshInput(activeMember) # {} => Unread(activeMember) \subseteq abandoned'
          /\ replayed' = IF FreshInput(activeMember) = {}
                         THEN replayed \cup {<<activeMember, x.of>> : x \in held[activeMember]}
                         ELSE replayed
      BY <2>4 DEF ExecuteDrive
    <3>2. CASE m # activeMember
      <4>1. /\ UNCHANGED <<drained[m], held[m], hold[m], inbox[m], turn[m]>>
            /\ replayed \subseteq replayed' /\ abandoned \subseteq abandoned'
        BY <3>1, <3>2, <1>t DEF StartTurn, TypeOK
      <4>2. busy(m)' = busy(m)
        BY <4>1 DEF busy
      <4> QED BY <1>b, <2>1, <3>1, <4>1, <4>2, UnitInvKept
    <3>3. CASE m = activeMember
      <4>1. Fast(n) \notin DefaultInput(m)
        <5>1. Fast(n) \notin FreshInput(m)
          BY MessageFields DEF FreshInput
        <5>2. Fast(n) \notin held[m]
          BY MessageFields DEF InputInv, HeldInv
        <5> QED BY <5>1, <5>2 DEF DefaultInput
      <4>2. Drained(n) \in FreshInput(m) <=> Waits(m, n)
        BY <1>t, PendingWaits, MessageFields DEF FreshInput
      <4>3. CASE FreshInput(m) = {}
        <5>1. DefaultInput(m) = held[m] /\ ~Waits(m, n)
          BY <4>2, <4>3 DEF DefaultInput
        <5>2. Drained(n) \in held[m] => <<m, n>> \in replayed'
          BY <3>1, <3>3, <4>3, MessageFields
        <5>3. <<m, n>> \in replayed => <<m, n>> \in replayed'
          BY <3>1
        <5> QED BY <1>b, <1>t, <2>1, <3>1, <3>3, <4>1, <5>1, <5>2, <5>3, UnitInvStart
      <4>4. CASE FreshInput(m) # {}
        <5>1. DefaultInput(m) = FreshInput(m)
          BY <4>4 DEF DefaultInput
        <5>2. Drained(n) \in held[m] /\ seen[m][n] = 0 => <<m, n>> \in abandoned'
          BY <3>1, <3>3, <4>4, MessageFields DEF Unread
        <5>3. <<m, n>> \in replayed => <<m, n>> \in replayed'
          BY <3>1
        <5> QED BY <1>b, <1>t, <2>1, <3>1, <3>3, <4>1, <4>2, <5>1, <5>2, <5>3, UnitInvStart
      <4> QED BY <4>3, <4>4
    <3> QED BY <3>2, <3>3
  <2>5. CASE ExecuteThrows
    <3>1. PICK built \in SUBSET Pending(activeMember) :
            /\ activeMember \in Agents
            /\ drained' = [drained EXCEPT ![activeMember] = DrainMark(activeMember, built)]
            /\ abandoned' = abandoned \cup {<<activeMember, k>> : k \in built}
      BY <2>1, <2>5 DEF ExecuteThrows
    <3>2. UNCHANGED <<units, seen, turn, held, hold, abort, inbox, missed, replayed>>
      BY <2>5 DEF ExecuteThrows
    <3>3. /\ busy(m)' = busy(m) /\ ~busy(m)
      BY <2>1, <3>2 DEF busy
    <3> QED BY <1>b, <1>t, <2>1, <3>1, <3>2, <3>3, UnitInvThrows
  <2> QED BY <1>5, <2>2, <2>3, <2>4, <2>5 DEF PumpExecute
<1>6. ASSUME NEW u \in UserMessages, Submit(u) PROVE UnitInv(m, n)'
  <2>1. UNCHANGED <<life, units, seen, missed, replayed>>
    BY <1>6 DEF Submit
  <2>2. CASE Steer(u)
    <3>1. /\ UNCHANGED <<drained, turn, held, hold, abort, abandoned>>
          /\ \/ inbox'[m] = inbox[m]
             \/ inbox'[m] = inbox[m] \cup {User(v) : v \in landed \cup {u}}
      BY <2>2, <1>t DEF Steer, TypeOK
    <3>2. /\ Drained(n) \in inbox'[m] <=> Drained(n) \in inbox[m]
          /\ Fast(n) \in inbox'[m] <=> Fast(n) \in inbox[m]
      BY <3>1, MessageFields
    <3>3. busy(m)' = busy(m)
      BY <3>1 DEF busy
    <3> QED BY <1>b, <2>1, <3>1, <3>2, <3>3, UnitInvKept
  <2>3. CASE Deliver(u)
    <3> DEFINE batch == FreshInput(activeMember) \cup {User(u)}
    <3>1. /\ activeMember \in Agents /\ ~busy(activeMember)
          /\ StartTurn(activeMember, batch, FALSE)
          /\ drained' = [drained EXCEPT ![activeMember] =
                            DrainMark(activeMember, Pending(activeMember))]
          /\ abandoned \cup Forsaken(activeMember, {x \in inbox[activeMember] : ~IsUser(x)})
                \subseteq abandoned'
      BY <2>3 DEF Deliver
    <3>2. CASE m # activeMember
      <4>1. /\ UNCHANGED <<drained[m], held[m], hold[m], inbox[m], turn[m], abort[m]>>
            /\ abandoned \subseteq abandoned'
        BY <3>1, <3>2, <1>t DEF StartTurn, TypeOK
      <4>2. busy(m)' = busy(m)
        BY <4>1 DEF busy
      <4> QED BY <1>b, <2>1, <4>1, <4>2, UnitInvKept
    <3>3. CASE m = activeMember
      <4>1. Fast(n) \notin batch /\ (Drained(n) \in batch <=> Waits(m, n))
        BY <3>3, <1>t, PendingWaits, MessageFields DEF FreshInput
      <4> HIDE DEF batch
      <4> QED BY <1>b, <1>t, <2>1, <3>1, <3>3, <4>1, UnitInvStart
    <3> QED BY <3>2, <3>3
  <2>4. CASE DeliverThrows(u)
    <3>1. PICK built \in SUBSET Pending(activeMember) :
            /\ activeMember \in Agents
            /\ drained' = [drained EXCEPT ![activeMember] = DrainMark(activeMember, built)]
            /\ abandoned' = abandoned \cup {<<activeMember, k>> : k \in built}
                              \cup {<<activeMember, u>>}
      BY <2>4 DEF DeliverThrows
    <3>2. UNCHANGED <<turn, held, hold, abort, inbox>> /\ ~busy(activeMember)
      BY <2>4 DEF DeliverThrows
    <3>3. busy(m)' = busy(m) /\ (m = activeMember => ~busy(m))
      BY <3>2 DEF busy
    <3>4. abandoned \cup {<<activeMember, k>> : k \in built} \subseteq abandoned'
      BY <3>1
    <3> QED BY <1>b, <1>t, <2>1, <3>1, <3>2, <3>3, <3>4, UnitInvThrows
  <2>5. CASE DeliverToAnnouncer(u)
    <3>1. UNCHANGED <<drained, turn, held, hold, abort, inbox>> /\ abandoned \subseteq abandoned'
      BY <2>5 DEF DeliverToAnnouncer
    <3>2. busy(m)' = busy(m)
      BY <3>1 DEF busy
    <3> QED BY <1>b, <2>1, <3>1, <3>2, UnitInvKept
  <2> QED BY <1>6, <2>2, <2>3, <2>4, <2>5 DEF Submit
<1>7. ASSUME NEW k \in Agents, Claim(k) PROVE UnitInv(m, n)'
  <2>1. UNCHANGED <<life, units, drained, held, hold, abort, missed, replayed, abandoned>>
    BY <1>7 DEF Claim
  <2>2. CASE k # m
    <3>1. UNCHANGED <<seen[m], inbox[m], turn[m]>>
      BY <1>7, <1>t, <2>2 DEF Claim, TypeOK
    <3>2. busy(m)' = busy(m)
      BY <3>1 DEF busy
    <3> QED BY <1>b, <2>1, <3>1, <3>2, UnitInvKept
  <2>3. CASE k = m
    <3>1. busy(m) /\ inbox'[m] = {} /\ seen[m][n] \in Nat
      BY <1>7, <1>t, <2>3 DEF Claim, TypeOK, busy
    <3>2. /\ seen'[m][n] = seen[m][n] + one(Drained(n) \in inbox[m] \/ Fast(n) \in inbox[m])
          /\ ~(Drained(n) \in inbox[m] /\ Fast(n) \in inbox[m])
      BY <1>7, <1>b, <1>t, <2>3, ClaimUnit
    <3>3. seen'[m][n] \in Nat /\ seen'[m][n] >= seen[m][n]
          /\ (Drained(n) \in inbox[m] \/ Fast(n) \in inbox[m] => seen'[m][n] = seen[m][n] + 1)
          /\ (~(Drained(n) \in inbox[m] \/ Fast(n) \in inbox[m]) => seen'[m][n] = seen[m][n])
      BY <3>1, <3>2 DEF one
    <3>4. Waits(m, n)' => Waits(m, n) /\ Fast(n) \notin inbox[m]
      BY <2>1, <3>1, <3>3 DEF Waits
    <3> QED BY <1>b, <2>1, <3>1, <3>3, <3>4 DEF UnitInv
  <2> QED BY <2>2, <2>3
<1>8. ASSUME NEW k \in Agents, Speak(k) PROVE UnitInv(m, n)'
  <2>1. /\ UNCHANGED <<life, turn, held, hold, abort, missed, replayed, abandoned>>
        /\ Relay(k, 0, {}) /\ busy(k)
    BY <1>8 DEF Speak, busy
  <2>2. ~busy(m) \/ k = m
    BY <2>1, OnlyActive DEF CoreInv
  <2> HIDE DEF flowVars, turnVars, teamVars, pumpVars, histVars, loopVars
  <2> QED BY <1>b, <1>t, <2>1, <2>2, UnitInvRelay
<1>9. CASE HookAnnounce
  <2>1. UNCHANGED <<life, turn, held, hold, abort, replayed, abandoned>> /\ Announce(0)
    BY <1>9 DEF HookAnnounce
  <2>2. PICK S \in SUBSET Receivers("announcer") :
           /\ Relay("announcer", 0, S)
           /\ missed' = missed \cup {<<k, Len(units) + 1>> : k \in Receivers("announcer") \ S}
    BY <2>1, AnnounceRelays
  <2>3. /\ S \in SUBSET Agents /\ (m \in S => busy(m))
        /\ m \notin S => ~busy(m) \/ <<m, Len(units) + 1>> \in missed'
        /\ \A i \in Unit : <<m, i>> \in missed => <<m, i>> \in missed'
        /\ \A i \in Unit : <<m, i>> \in missed' => <<m, i>> \in missed \/ i = Len(units) + 1
    BY <2>2 DEF Receivers, Agents
  <2> HIDE DEF flowVars, turnVars, teamVars, pumpVars, histVars, loopVars
  <2> QED BY <1>b, <1>t, <2>1, <2>2, <2>3, UnitInvRelay
<1>10. ASSUME NEW k \in Agents, NEW f \in BOOLEAN, TurnEnds(k, f) PROVE UnitInv(m, n)'
  <2>1. UNCHANGED <<life, units, drained, seen, inbox, hold, missed, replayed, abandoned>>
    BY <1>10 DEF TurnEnds
  <2>2. CASE k # m
    <3>1. UNCHANGED <<held[m], turn[m], abort[m]>>
      BY <1>10, <1>t, <2>2 DEF TurnEnds, TypeOK
    <3>2. busy(m)' = busy(m)
      BY <3>1 DEF busy
    <3> QED BY <1>b, <2>1, <3>1, <3>2, UnitInvKept
  <2>3. CASE k = m
    <3>1. /\ busy(m) /\ ~busy(m)'
          /\ \/ held'[m] = held[m]
             \/ held'[m] = {} /\ hold[m] /\ ~abort[m] /\ inbox[m] = {}
      BY <1>10, <1>t, <2>3 DEF TurnEnds, TypeOK, busy
    <3>2. CASE held'[m] = held[m]
      BY <1>b, <2>1, <3>1, <3>2, UnitInvKept
    <3>3. CASE held'[m] = {} /\ hold[m] /\ ~abort[m] /\ inbox[m] = {}
      BY <1>b, <2>1, <3>1, <3>3 DEF UnitInv
    <3> QED BY <3>1, <3>2, <3>3
  <2> QED BY <2>2, <2>3
<1> QED BY <1>1, <1>2, <1>3, <1>4, <1>5, <1>6, <1>7, <1>8, <1>9, <1>10 DEF Next

LEMMA CaughtUpNext == CoreInv /\ BroadcastInv /\ [Next]_vars => CaughtUp'
<1> SUFFICES ASSUME CoreInv, BroadcastInv, [Next]_vars PROVE CaughtUp'
  OBVIOUS
<1>t. TypeOK /\ HistOK /\ flow \in FlowType
  BY DEF CoreInv, TypeInv, TypeOK, FlowType
<1>d. OneDriver /\ PumpInv
  BY DEF CoreInv, DriveInv
<1>b. CaughtUp
  BY DEF BroadcastInv
<1> USE DEF flowVars, turnVars, teamVars, pumpVars, histVars, loopVars
<1>1. CASE Settled /\ pump' = pump
  BY <1>1 DEF Settled, CaughtUp
<1>2. CASE PumpRun
  <2>1. pump = "run" /\ (pump' = "decide" => wake' # "null") /\ pump' # "execute"
    BY <1>2, <1>d DEF PumpRun, PumpInv
  <2> QED BY <2>1 DEF CaughtUp
<1>3. CASE PumpDecide
  <2>1. /\ UNCHANGED <<units, seen, drained, missed>> /\ pump = "decide"
        /\ Stalls \/ Retries \/ Rests \/ Moves
    BY <1>3, <1>t, PumpDecides DEF PumpDecide, TypeOK, HistOK
  <2>2. CASE Retries
    <3>1. wake = "null" /\ activeMember' = activeMember
      BY <2>2 DEF Retries, activeMember
    <3>2. \A n \in Unit : Waits(activeMember, n)' <=> Waits(activeMember, n)
      BY <2>1, <3>1 DEF Waits
    <3> QED BY <1>b, <2>1, <3>1, <3>2 DEF CaughtUp
  <2>3. CASE Stalls \/ Rests \/ Moves
    <3>1. pump' \in {"none", "execute"} /\ (pump' = "execute" => ~paused')
      BY <2>3 DEF Stalls, Rests, Moves, paused
    <3> QED BY <3>1 DEF CaughtUp
  <2> QED BY <2>1, <2>2, <2>3
<1>4. CASE PumpExecute
  <2>1. pump' \in {"run", "drive"}
    BY <1>4 DEF PumpExecute, ExecuteAtOnce, ExecuteAnnounce, ExecuteAnnounceThrows,
                ExecuteDrive, ExecuteThrows
  <2> QED BY <2>1 DEF CaughtUp
<1>5. ASSUME NEW u \in UserMessages, Submit(u) PROVE CaughtUp'
  <2>1. pump \in {"none", "external", "drive"} /\ (pump' = pump \/ pump' = "run")
    BY <1>5 DEF Submit, Settled, Steer, Deliver, DeliverThrows, DeliverToAnnouncer, RequestPump
  <2> QED BY <2>1 DEF CaughtUp
<1>6. ASSUME NEW m \in Agents, NEW f \in BOOLEAN, TurnEnds(m, f) PROVE CaughtUp'
  <2>1. /\ UNCHANGED <<flow, units, seen, drained, missed>> /\ pump' = PumpAfterAwait
        /\ busy(m) /\ pump \in {"external", "drive"} /\ m = activeMember
    BY <1>6, OnlyActive DEF TurnEnds, Settled, busy, CoreInv
  <2>2. activeMember' = activeMember
    BY <2>1 DEF activeMember
  <2>3. ASSUME pump' = "decide", wake' = "null"
        PROVE  life = "live" /\ ~abort[m] /\ inbox[m] = {}
    BY <1>6, <2>1, <2>3 DEF TurnEnds, PumpAfterAwait
  <2>4. pump' # "execute"
    BY <2>1 DEF PumpAfterAwait
  <2>5. ASSUME pump' = "decide", wake' = "null", NEW n \in Unit
        PROVE  Waits(m, n)' => <<m, n>> \in missed'
    <3>1. Waits(m, n)' <=> Waits(m, n)
      BY <2>1 DEF Waits
    <3>2. UnitInv(m, n)
      BY DEF BroadcastInv
    <3> QED BY <2>1, <2>3, <2>5, <3>1, <3>2 DEF UnitInv
  <2> QED BY <2>1, <2>2, <2>4, <2>5 DEF CaughtUp
<1>7. CASE Cancel \/ Dispose \/ HookAnnounce \/ GameEnds \/ \E m \in Agents : Claim(m) \/ Speak(m)
  <2>1. Settled /\ pump' = pump
    BY <1>7 DEF Cancel, Dispose, HookAnnounce, GameEnds, Claim, Speak
  <2> QED BY <2>1, <1>1
<1>8. CASE Materialize \/ MaterializeFails \/ RegisterTeam \/ Release \/ UNCHANGED vars
             \/ \E k \in Agents : CreateMember(k)
  <2>1. UNCHANGED <<pump, wake, flow, units, seen, drained, missed>>
    BY <1>8 DEF Materialize, MaterializeFails, RegisterTeam, Release, CreateMember, vars
  <2>2. activeMember' = activeMember /\ paused' = paused
    BY <2>1 DEF activeMember, paused
  <2>3. \A n \in Unit : Waits(activeMember, n)' <=> Waits(activeMember, n)
    BY <2>1, <2>2 DEF Waits
  <2> QED BY <1>b, <2>1, <2>2, <2>3 DEF CaughtUp
<1> QED BY <1>2, <1>3, <1>4, <1>5, <1>6, <1>7, <1>8 DEF Next

LEMMA BroadcastInvInit == Init => BroadcastInv
<1> SUFFICES ASSUME Init PROVE BroadcastInv
  OBVIOUS
<1>1. CaughtUp
  BY DEF Init, CaughtUp
<1>2. ASSUME NEW m \in Agents, NEW n \in Unit PROVE UnitInv(m, n)
  <2>1. /\ seen[m][n] = 0 /\ drained[m] = {} /\ inbox[m] = {} /\ held[m] = {}
        /\ ~busy(m) /\ missed = {}
    BY DEF Init, busy
  <2> QED BY <2>1 DEF UnitInv
<1> QED BY <1>1, <1>2 DEF BroadcastInv

LEMMA BroadcastInvNext == CoreInv /\ InputInv /\ BroadcastInv /\ [Next]_vars => BroadcastInv'
BY UnitInvNext, CaughtUpNext DEF BroadcastInv

\* What a member says reaches every other one once, or stays derivable, in a
\* batch or in a held set until it does, also when its injection into a running
\* turn fails; it is given up only by a drain that threw, a delivery that was
\* cancelled, or a held set that gave way; and the held input of a failed drive
\* gives way only to a broadcast whose injection failed (team.ts,
\* agent-member.ts).
THEOREM BroadcastsDelivered == Spec => []BroadcastDelivered
<1>1. Init => CoreInv /\ InputInv /\ BroadcastInv
  BY CoreInvInit, InputInvInit, BroadcastInvInit
<1>2. CoreInv /\ InputInv /\ BroadcastInv /\ [Next]_vars
        => (CoreInv /\ InputInv /\ BroadcastInv)'
  BY CoreInvNext, InputInvNext, BroadcastInvNext
<1>3. CoreInv /\ InputInv /\ BroadcastInv => BroadcastDelivered
  <2> SUFFICES ASSUME CoreInv, InputInv, BroadcastInv PROVE BroadcastDelivered
    OBVIOUS
  <2>1. TypeOK /\ \A m \in Agents, n \in Unit : UnitInv(m, n)
    BY DEF CoreInv, TypeInv, BroadcastInv
  <2>2. DOMAIN units \subseteq Unit
    BY <2>1, PendingWaits DEF Agents
  <2>3. BroadcastOnce
    BY <2>1, <2>2 DEF BroadcastOnce, UnitInv
  <2>4. BroadcastNotLost
    BY <2>1, <2>2 DEF BroadcastNotLost, UnitInv, Pending
  <2>5. HeldWins
    BY OnlyMissed DEF HeldWins, BroadcastInv
  <2> QED BY <2>3, <2>4, <2>5 DEF BroadcastDelivered
<1> QED BY <1>1, <1>2, <1>3, PTL DEF Spec

-----------------------------------------------------------------------------
(* The flow: rounds, records and their review.                               *)

\* m has read unit n, or n was given up on its way to m.
Read(m, n) == seen[m][n] > 0 \/ <<m, n>> \in abandoned

\* The records that were announced, in order, and the one that counts as
\* reviewed.
RecordInv ==
    /\ \A n \in DOMAIN units : units[n].about <= statsSent
    /\ statsSent # 0 => \E n \in DOMAIN units : units[n].about = statsSent /\ units[n].from = "announcer"
    /\ ReviewReadsRecord

\* A review follows the announcement of the latest record, and a turn that
\* settles has read all that was said before and could be injected.
FlowInv ==
    /\ flow.rounds < RoundStop
    /\ flow.pos = "announce" => ~flow.retrying
    /\ pump = "decide" /\ wake = "null" => flow.pos # "announce"
    /\ flow.pos = "review" => terminal = statsSent
    /\ pump \in {"run", "decide"} /\ ~externalPending /\ wake = "settled" =>
          /\ flow.pos = "announce" => terminal = statsSent
          /\ flow.pos # "announce" =>
                \A n \in DOMAIN units :
                   units[n].from # activeMember /\ <<activeMember, n>> \notin missed
                      => Read(activeMember, n)

\* What a step adds to the productions.
Silent == UNCHANGED <<units, statsSent>>
Said ==
    /\ statsSent' = statsSent
    /\ \E from \in Members : units' = Append(units, [from |-> from, about |-> 0])
Announces ==
    /\ pump = "execute" /\ flow.pos = "announce" /\ terminal \notin {0, statsSent}
    /\ statsSent' = terminal /\ terminal' = terminal /\ flow' = flow
    /\ units' = Append(units, [from |-> "announcer", about |-> terminal])

LEMMA UnitsGrow == [Next]_vars => Silent \/ Said \/ Announces
<1> SUFFICES ASSUME [Next]_vars PROVE Silent \/ Said \/ Announces
  OBVIOUS
<1> USE DEF flowVars, turnVars, teamVars, pumpVars, histVars, loopVars
<1>1. CASE Materialize \/ RegisterTeam \/ MaterializeFails \/ Cancel \/ Dispose \/ Release
             \/ PumpRun \/ PumpDecide \/ GameEnds \/ UNCHANGED vars
  BY <1>1 DEF Materialize, RegisterTeam, MaterializeFails, Cancel, Dispose, Release,
              PumpRun, PumpDecide, GameEnds, vars, Silent
<1>2. ASSUME NEW u \in UserMessages, Submit(u) PROVE Silent
  BY <1>2 DEF Submit, Silent
<1>3. ASSUME NEW m \in Agents, CreateMember(m) \/ Claim(m) \/ \E f \in BOOLEAN : TurnEnds(m, f)
      PROVE  Silent
  BY <1>3 DEF CreateMember, Claim, TurnEnds, Silent
<1>4. CASE HookAnnounce \/ \E m \in Agents : Speak(m)
  BY <1>4, AnnounceRelays DEF HookAnnounce, Speak, Relay, Said, Members
<1>5. CASE PumpExecute
  BY <1>5, AnnounceRelays
     DEF PumpExecute, ExecuteAtOnce, ExecuteAnnounce, ExecuteAnnounceThrows,
         ExecuteDrive, ExecuteThrows, Relay, Silent, Announces
<1> QED BY <1>1, <1>2, <1>3, <1>4, <1>5 DEF Next

\* What has been read stays read.
LEMMA ReadKept ==
    ASSUME CoreInv, BroadcastInv, [Next]_vars, NEW m \in Agents, NEW n \in Unit, Read(m, n)
    PROVE  Read(m, n)'
<1>t. TypeOK /\ seen[m][n] \in Nat
  BY ZenonT(40) DEF CoreInv, TypeInv, TypeOK
<1> USE DEF flowVars, turnVars, teamVars, pumpVars, histVars, loopVars
<1>1. CASE Materialize \/ RegisterTeam \/ MaterializeFails \/ Cancel \/ Dispose \/ Release
             \/ PumpRun \/ PumpDecide \/ GameEnds \/ HookAnnounce \/ UNCHANGED vars
  <2>1. seen' = seen /\ abandoned \subseteq abandoned'
    BY <1>1, AnnounceRelays
       DEF Materialize, RegisterTeam, MaterializeFails, Cancel, Dispose, Release,
           PumpRun, PumpDecide, GameEnds, HookAnnounce, Relay, vars
  <2> QED BY <2>1 DEF Read
<1>2. ASSUME NEW u \in UserMessages, Submit(u) PROVE Read(m, n)'
  <2>1. seen' = seen /\ abandoned \subseteq abandoned'
    BY <1>2 DEF Submit, Steer, Deliver, DeliverThrows, DeliverToAnnouncer
  <2> QED BY <2>1 DEF Read
<1>3. ASSUME NEW k \in Agents, CreateMember(k) \/ Speak(k) \/ \E f \in BOOLEAN : TurnEnds(k, f)
      PROVE  Read(m, n)'
  <2>1. seen' = seen /\ abandoned \subseteq abandoned'
    BY <1>3 DEF CreateMember, Speak, TurnEnds, Relay
  <2> QED BY <2>1 DEF Read
<1>4. ASSUME NEW k \in Agents, Claim(k) PROVE Read(m, n)'
  <2>1. abandoned' = abandoned
    BY <1>4 DEF Claim
  <2>2. CASE k # m
    <3>1. seen'[m] = seen[m]
      BY <1>4, <1>t, <2>2 DEF Claim, TypeOK
    <3> QED BY <2>1, <3>1 DEF Read
  <2>3. CASE k = m
    <3>1. UnitInv(m, n)
      BY DEF BroadcastInv
    <3>2. seen'[m][n] = seen[m][n] + one(Drained(n) \in inbox[m] \/ Fast(n) \in inbox[m])
      BY <1>4, <1>t, <2>3, <3>1, ClaimUnit
    <3>3. seen[m][n] > 0 => seen'[m][n] > 0
      BY <1>t, <3>2 DEF one
    <3> QED BY <2>1, <3>3 DEF Read
  <2> QED BY <2>2, <2>3
<1>5. CASE PumpExecute
  <2>1. seen' = seen /\ abandoned \subseteq abandoned'
    BY <1>5, AnnounceRelays
       DEF PumpExecute, ExecuteAtOnce, ExecuteAnnounce, ExecuteAnnounceThrows,
           ExecuteDrive, ExecuteThrows, Relay
  <2> QED BY <2>1 DEF Read
<1> QED BY <1>1, <1>2, <1>3, <1>4, <1>5 DEF Next

LEMMA UnitsAppend ==
    ASSUME TypeOK, NEW r, units' = Append(units, r)
    PROVE  /\ Len(units) + 1 \notin DOMAIN units
           /\ DOMAIN units' = DOMAIN units \cup {Len(units) + 1}
           /\ units'[Len(units) + 1] = r
           /\ \A n \in DOMAIN units : units'[n] = units[n]
BY DEF TypeOK

LEMMA FlowInvNext ==
    ASSUME CoreInv, BroadcastInv, FlowInv, [Next]_vars
    PROVE  FlowInv'
<1>t. TypeOK /\ HistOK /\ flow \in FlowType /\ flow.pos \in Activities /\ RoomInv
  BY DEF CoreInv, TypeInv, TypeOK, FlowType
<1>n. /\ DOMAIN units \subseteq Unit /\ statsSent \in Nat /\ terminal \in Nat
      /\ flow.rounds \in Nat /\ RoundStop \in Nat \ {0}
  <2>1. DOMAIN units \subseteq Unit
    BY <1>t, PendingWaits DEF Agents
  <2>2. statsSent \in 0 .. MaxTerminals /\ terminal \in 0 .. MaxTerminals
    BY <1>t DEF TypeOK
  <2>3. flow.rounds \in Nat
    BY <1>t DEF FlowType
  <2>4. MaxTerminals \in Nat /\ RoundStop \in Nat \ {0}
    BY LoopAssumption
  <2> QED BY <2>1, <2>2, <2>3, <2>4
<1>d. OneDriver /\ PumpInv /\ NewInv
  BY DEF CoreInv, DriveInv
<1>a. /\ activeMember = "announcer" <=> flow.pos = "announce"
      /\ activeMember \in Agents <=> flow.pos # "announce"
      /\ activeMember = "player" => flow.pos # "review"
  BY <1>t, ActiveMember
<1> USE DEF flowVars, turnVars, teamVars, pumpVars, histVars, loopVars
<1>1. ASSUME UNCHANGED <<flow, terminal, statsSent>>,
             pump' \notin {"run", "decide"} \/ (externalPending' /\ pump' # "decide")
                \/ wake' \notin {"settled", "null"}
      PROVE  FlowInv'
  BY <1>1 DEF FlowInv
<1>2. CASE Materialize \/ RegisterTeam \/ MaterializeFails \/ \E m \in Agents : CreateMember(m)
  <2>1. pump = "none" /\ UNCHANGED <<flow, terminal, statsSent, pump>>
    BY <1>2, <1>d DEF NewInv, Materialize, RegisterTeam, MaterializeFails, CreateMember
  <2> QED BY <1>1, <2>1
<1>3. CASE Dispose \/ Release \/ HookAnnounce \/ \E m \in Agents : Claim(m) \/ Speak(m)
  <2>1. UNCHANGED <<flow, terminal, statsSent, pump>> /\ pump \in {"none", "external", "drive"}
    BY <1>3 DEF Dispose, Release, HookAnnounce, Claim, Speak, Settled
  <2> QED BY <1>1, <2>1
<1>4. CASE Cancel
  <2>1. /\ UNCHANGED <<terminal, statsSent, pump>> /\ pump \in {"none", "external", "drive"}
        /\ flow'.pos = flow.pos /\ flow'.rounds = flow.rounds /\ flow'.retrying = flow.retrying
    BY <1>4, <1>t DEF Cancel, Settled, FlowType
  <2> QED BY <2>1 DEF FlowInv
<1>5. CASE GameEnds
  <2>1. UNCHANGED <<flow, statsSent, pump>> /\ pump \in {"none", "external", "drive"} /\ busy("player")
    BY <1>5 DEF GameEnds, Settled, busy, Agents
  <2>2. flow.pos # "review"
    BY <1>a, <1>d, <2>1 DEF OneDriver, Agents
  <2> QED BY <2>1, <2>2 DEF FlowInv
<1>6. CASE UNCHANGED vars
  <2>1. UNCHANGED <<flow, terminal, statsSent, pump, wake, externalPending, units, seen, missed,
                    abandoned>>
    BY <1>6 DEF vars
  <2>2. activeMember' = activeMember /\ \A n : Read(activeMember, n)' <=> Read(activeMember, n)
    BY <2>1 DEF activeMember, Read
  <2> QED BY <2>1, <2>2 DEF FlowInv
<1>7. ASSUME NEW u \in UserMessages, Submit(u) PROVE FlowInv'
  <2>1. UNCHANGED <<terminal, statsSent>> /\ pump \in {"none", "external", "drive"}
    BY <1>7 DEF Submit, Settled
  <2>2. /\ flow'.pos = flow.pos /\ flow'.rounds = flow.rounds
        /\ flow'.retrying = flow.retrying \/ flow'.retrying = FALSE
        /\ pump' = pump \/ (pump' = "run" /\ externalPending')
    BY <1>7, <1>t DEF Submit, Steer, Deliver, DeliverThrows, DeliverToAnnouncer, RequestPump, FlowType
  <2> QED BY <2>1, <2>2 DEF FlowInv
<1>8. CASE PumpRun
  <2>1. /\ UNCHANGED <<flow, terminal, statsSent, units, seen, missed, abandoned>>
        /\ pump = "run" /\ ~externalPending'
    BY <1>8 DEF PumpRun
  <2>2. CASE externalPending
    <3>1. pump' = "external" \/ wake' = "resting"
      BY <1>8, <2>2 DEF PumpRun
    <3> QED BY <1>1, <2>1, <3>1
  <2>3. CASE ~externalPending
    <3>1. pump' = "decide" /\ wake' = wake /\ wake # "null"
      BY <1>8, <1>d, <2>3 DEF PumpRun, PumpInv
    <3>2. activeMember' = activeMember /\ \A n : Read(activeMember, n)' <=> Read(activeMember, n)
      BY <2>1 DEF activeMember, Read
    <3> QED BY <2>1, <2>3, <3>1, <3>2 DEF FlowInv
  <2> QED BY <2>2, <2>3
<1>9. CASE PumpDecide
  <2>1. /\ UNCHANGED <<terminal, statsSent>> /\ pump = "decide" /\ pump' \notin {"run", "decide"}
        /\ ~externalPending
        /\ Stalls \/ Retries \/ Rests \/ Moves
    BY <1>9, <1>t, <1>d, PumpDecides DEF PumpDecide, TypeOK, HistOK, OneDriver
  <2>2. CASE Stalls \/ Rests
    BY <2>1, <2>2 DEF Stalls, Rests, FlowInv
  <2>3. CASE Retries
    BY <2>1, <2>3 DEF Retries, FlowInv
  <2>4. CASE Moves
    <3>1. flow'.rounds < RoundStop
      <4>1. CASE flow.pos = "review"
        BY <4>1, <2>4, <1>n DEF Moves, Counted
      <4>2. CASE flow.pos # "review"
        <5>1. Counted = flow.rounds
          BY <4>2 DEF Counted
        <5> QED BY <2>4, <5>1, <1>n DEF Moves, FlowInv
      <4> QED BY <4>1, <4>2
    <3>2. flow'.pos = "review" => flow.pos = "announce"
      BY <2>4, <1>t DEF Moves, Activities
    <3>3. flow'.pos = "review" => terminal = statsSent
      BY <2>1, <2>4, <3>2 DEF Moves, FlowInv
    <3> QED BY <2>1, <2>4, <3>1, <3>3 DEF Moves, FlowInv
  <2> QED BY <2>1, <2>2, <2>3, <2>4
<1>10. CASE PumpExecute
  <2>1. UNCHANGED <<flow, terminal, externalPending>> /\ pump = "execute"
    BY <1>10 DEF PumpExecute
  <2>2. CASE ExecuteAtOnce
    <3>1. /\ statsSent' = statsSent /\ pump' = "run"
          /\ wake' = "settled" => flow.pos = "announce" /\ terminal \in {0, statsSent}
      BY <2>2, <1>a DEF ExecuteAtOnce, Agents
    <3>2. wake' = "settled" => terminal = statsSent
      BY <3>1, <1>t, <1>n DEF RoomInv
    <3> QED BY <2>1, <3>1, <3>2 DEF FlowInv
  <2>3. CASE ExecuteAnnounce
    <3>1. flow.pos = "announce" /\ statsSent' = terminal /\ pump' = "run"
      BY <2>3 DEF ExecuteAnnounce
    <3> QED BY <2>1, <3>1 DEF FlowInv
  <2>4. CASE ExecuteAnnounceThrows \/ ExecuteDrive \/ ExecuteThrows
    <3>1. statsSent' = statsSent /\ (pump' = "drive" \/ wake' = "failed")
      BY <2>4 DEF ExecuteAnnounceThrows, ExecuteDrive, ExecuteThrows
    <3> QED BY <1>1, <2>1, <3>1
  <2> QED BY <1>10, <2>2, <2>3, <2>4 DEF PumpExecute
<1>11. ASSUME NEW m \in Agents, NEW f \in BOOLEAN, TurnEnds(m, f) PROVE FlowInv'
  <2>1. /\ UNCHANGED <<flow, terminal, statsSent, units, seen, missed, abandoned, drained, inbox,
                       hold>>
        /\ pump' = PumpAfterAwait
        /\ busy(m) /\ pump \in {"external", "drive"} /\ m = activeMember
    BY <1>11, OnlyActive DEF TurnEnds, Settled, busy, CoreInv
  <2>2. activeMember' = activeMember /\ flow.pos # "announce"
    BY <1>a, <2>1 DEF activeMember
  <2>3. CASE pump' \in {"run", "decide"} /\ wake' = "settled"
    <3>1. life = "live" /\ ~abort[m] /\ inbox[m] = {} /\ pump = "drive"
      BY <1>11, <2>1, <2>3 DEF TurnEnds, PumpAfterAwait
    <3>2. hold[m]
      BY <2>1, <3>1, <1>d DEF PumpInv
    <3>3. ASSUME NEW n \in DOMAIN units, units[n].from # m, <<m, n>> \notin missed
          PROVE  Read(m, n)
      <4>1. n \in Unit /\ UnitInv(m, n) /\ seen[m][n] \in Nat
        BY <1>n, <1>t DEF BroadcastInv, TypeOK
      <4>2. seen[m][n] = 0 => n \in drained[m]
        BY <2>1, <3>1, <3>3, <4>1 DEF UnitInv, Waits
      <4>3. seen[m][n] = 0 => Drained(n) \notin held[m]
        BY <2>1, <3>1, <3>2, <4>1 DEF UnitInv
      <4> QED BY <3>1, <4>1, <4>2, <4>3 DEF UnitInv, Read
    <3>4. \A n : Read(m, n)' <=> Read(m, n)
      BY <2>1 DEF Read
    <3> QED BY <2>1, <2>2, <2>3, <3>3, <3>4 DEF FlowInv
  <2>4. CASE ~(pump' \in {"run", "decide"} /\ wake' = "settled")
    BY <2>1, <2>2, <2>4 DEF FlowInv
  <2> QED BY <2>3, <2>4
<1> QED BY <1>2, <1>3, <1>4, <1>5, <1>6, <1>7, <1>8, <1>9, <1>10, <1>11 DEF Next

LEMMA OnlyPumpReviews ==
    ASSUME flow \in FlowType, [Next]_vars, flow'.reviewed # flow.reviewed
    PROVE  PumpDecide
<1> USE DEF flowVars, turnVars, teamVars, pumpVars, histVars, loopVars
<1>1. CASE Materialize \/ RegisterTeam \/ MaterializeFails \/ Dispose \/ Release
             \/ PumpRun \/ GameEnds \/ HookAnnounce \/ PumpExecute \/ UNCHANGED vars
  BY <1>1 DEF Materialize, RegisterTeam, MaterializeFails, Dispose, Release,
              PumpRun, GameEnds, HookAnnounce, PumpExecute, vars
<1>2. ASSUME NEW m \in Agents, CreateMember(m) \/ Claim(m) \/ Speak(m) \/ \E f \in BOOLEAN : TurnEnds(m, f)
      PROVE  PumpDecide
  BY <1>2 DEF CreateMember, Claim, Speak, TurnEnds
<1>3. CASE Cancel
  BY <1>3 DEF Cancel, FlowType
<1>4. ASSUME NEW u \in UserMessages, Submit(u) PROVE PumpDecide
  BY <1>4 DEF Submit, Steer, Deliver, DeliverThrows, DeliverToAnnouncer, FlowType
<1> QED BY <1>1, <1>2, <1>3, <1>4 DEF Next

LEMMA RecordInvNext ==
    ASSUME CoreInv, BroadcastInv, FlowInv, RecordInv, [Next]_vars
    PROVE  RecordInv'
<1>t. TypeOK /\ HistOK /\ flow \in FlowType /\ RoomInv
  BY DEF CoreInv, TypeInv, TypeOK, FlowType
<1>n. DOMAIN units \subseteq Unit /\ statsSent \in Nat /\ terminal \in Nat
  <2>1. DOMAIN units \subseteq Unit
    BY <1>t, PendingWaits DEF Agents
  <2> QED BY <2>1, <1>t, LoopAssumption DEF TypeOK
<1>u. \A n \in DOMAIN units : units[n].about \in Nat
  <2>1. units \in Seq(UnitType)
    BY <1>t DEF TypeOK, UnitType
  <2>2. \A n \in DOMAIN units : units[n] \in UnitType
    BY <2>1
  <2> QED BY <2>2, LoopAssumption DEF UnitType
<1>g. /\ \A n \in DOMAIN units : n \in DOMAIN units' /\ units'[n] = units[n]
      /\ \A n \in DOMAIN units : Read("planner", n) => Read("planner", n)'
  <2>1. \A n \in DOMAIN units : Read("planner", n) => Read("planner", n)'
    BY <1>n, ReadKept DEF Agents
  <2> QED BY <1>t, <2>1, UnitsGrow, UnitsAppend DEF Silent, Said, Announces
<1>1. /\ \A n \in DOMAIN units' : units'[n].about <= statsSent'
      /\ statsSent' # 0 => \E n \in DOMAIN units' : units'[n].about = statsSent' /\ units'[n].from = "announcer"
      /\ \A n, k \in DOMAIN units' : units'[n].about = units'[k].about /\ n # k => units'[n].about = 0
  <2> DEFINE k == Len(units) + 1
  <2>1. CASE Silent
    BY <2>1 DEF Silent, RecordInv, ReviewReadsRecord
  <2>2. CASE Said
    <3>1. PICK from \in Members : units' = Append(units, [from |-> from, about |-> 0])
      BY <2>2 DEF Said
    <3>2. /\ k \notin DOMAIN units /\ DOMAIN units' = DOMAIN units \cup {k} /\ units'[k].about = 0
          /\ \A n \in DOMAIN units : units'[n] = units[n]
      BY <1>t, <3>1, UnitsAppend
    <3>3. statsSent' = statsSent
      BY <2>2 DEF Said
    <3> HIDE DEF k
    <3> QED BY <1>n, <1>u, <3>2, <3>3 DEF RecordInv, ReviewReadsRecord
  <2>3. CASE Announces
    <3>1. /\ k \notin DOMAIN units /\ DOMAIN units' = DOMAIN units \cup {k}
          /\ units'[k].about = terminal /\ units'[k].from = "announcer"
          /\ \A n \in DOMAIN units : units'[n] = units[n]
      BY <1>t, <2>3, UnitsAppend DEF Announces
    <3>2. statsSent' = terminal /\ statsSent < terminal
      BY <2>3, <1>t, <1>n DEF Announces, RoomInv
    <3>3. \A n \in DOMAIN units : units[n].about < terminal
      BY <1>n, <1>u, <3>2 DEF RecordInv
    <3> HIDE DEF k
    <3> QED BY <1>n, <1>u, <3>1, <3>2, <3>3 DEF RecordInv, ReviewReadsRecord
  <2> QED BY <2>1, <2>2, <2>3, UnitsGrow
<1>2. CASE flow'.reviewed = flow.reviewed
  <2>1. flow.reviewed # 0 =>
          \E n \in DOMAIN units : units[n].about = flow.reviewed /\ Read("planner", n)
    BY DEF RecordInv, ReviewReadsRecord, Read
  <2>2. flow'.reviewed # 0 =>
          \E n \in DOMAIN units' : units'[n].about = flow'.reviewed /\ Read("planner", n)'
    BY <1>2, <1>g, <2>1
  <2> QED BY <1>1, <2>2 DEF RecordInv, ReviewReadsRecord, Read
<1>3. CASE flow'.reviewed # flow.reviewed
  <2>1. PumpDecide
    BY <1>3, <1>t, OnlyPumpReviews
  <2>2. /\ UNCHANGED <<units, seen, abandoned>> /\ pump = "decide"
        /\ Stalls \/ Retries \/ Rests \/ Moves
    BY <2>1, <1>t, PumpDecides DEF PumpDecide, TypeOK, HistOK, teamVars, histVars
  <2>3. Moves /\ wake = "settled" /\ flow.pos = "review" /\ flow'.reviewed = terminal
    BY <1>3, <2>2 DEF Stalls, Retries, Rests, Moves, Reviewed
  <2>4. activeMember = "planner" /\ ~externalPending
    BY <2>2, <2>3, <1>t, ActiveMember DEF FlowType, CoreInv, DriveInv, OneDriver
  <2>5. /\ terminal = statsSent
        /\ \A n \in DOMAIN units :
              units[n].from # "planner" /\ <<"planner", n>> \notin missed => Read("planner", n)
    BY <2>2, <2>3, <2>4 DEF FlowInv
  <2>6. \A n \in DOMAIN units : units[n].about # 0 => <<"planner", n>> \notin missed
    BY <1>n DEF BroadcastInv, UnitInv, Agents
  <2>7. flow'.reviewed # 0 =>
          \E n \in DOMAIN units : units[n].about = flow'.reviewed /\ Read("planner", n)
    BY <2>3, <2>5, <2>6 DEF RecordInv
  <2> QED BY <1>1, <2>2, <2>7 DEF RecordInv, ReviewReadsRecord, Read
<1> QED BY <1>2, <1>3

\* A game is reviewed only on its record: the record was announced once and
\* the planner read the announcement, or its delivery was given up; and the
\* flow drives the player only below the round limit (flow.ts).
THEOREM FlowIsHonest == Spec => []FlowHonest
<1> DEFINE I == CoreInv /\ InputInv /\ BroadcastInv /\ FlowInv /\ RecordInv
<1>1. Init => I
  <2>1. Init => FlowInv
    BY LoopAssumption DEF Init, FlowInv, FlowInit
  <2>2. Init => RecordInv
    BY DEF Init, RecordInv, ReviewReadsRecord, FlowInit
  <2> QED BY <2>1, <2>2, CoreInvInit, InputInvInit, BroadcastInvInit
<1>2. I /\ [Next]_vars => I'
  BY CoreInvNext, InputInvNext, BroadcastInvNext, FlowInvNext, RecordInvNext
<1>3. I => FlowHonest
  BY DEF FlowHonest, NaturalStop, FlowInv, RecordInv
<1> QED BY <1>1, <1>2, <1>3, PTL DEF Spec
=============================================================================
