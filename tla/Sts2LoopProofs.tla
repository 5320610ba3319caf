-------------------------- MODULE Sts2LoopProofs --------------------------
(***************************************************************************)
(* Theorems about Sts2Loop, for every set of messages and engine codes.     *)
(***************************************************************************)
EXTENDS Sts2Loop, WellFoundedInduction, TLAPS

-----------------------------------------------------------------------------
(* Sequences.                                                               *)

\* Induction over the naturals, with a set in place of a predicate.
LEMMA NatSetInduction ==
    ASSUME NEW S, 0 \in S, \A n \in Nat : n \in S => n + 1 \in S
    PROVE  \A n \in Nat : n \in S
<1>1. SUFFICES ASSUME Nat \ S # {} PROVE FALSE
  OBVIOUS
<1>2. \E x \in Nat \ S : \A y \in Nat \ S : ~ (<<y, x>> \in OpToRel(<, Nat))
  BY <1>1, NatLessThanWellFounded, WFMin, Zenon
<1>3. PICK x \in Nat \ S : \A y \in Nat \ S : ~ (y < x)
  BY <1>2, Zenon DEF OpToRel
<1>4. x # 0 /\ x - 1 \in Nat
  BY <1>3
<1>5. x - 1 \in S
  BY <1>3, <1>4
<1> QED BY <1>3, <1>4, <1>5

Distinct(s) == \A i, k \in DOMAIN s : s[i] = s[k] => i = k

\* Append and concatenation: elements and distinctness.
LEMMA AppendFacts ==
    ASSUME NEW X, NEW s \in Seq(X), NEW x \in X
    PROVE  /\ Append(s, x) \in Seq(X)
           /\ ToSet(Append(s, x)) = ToSet(s) \cup {x}
           /\ Distinct(s) /\ x \notin ToSet(s) => Distinct(Append(s, x))
<1>1. ToSet(Append(s, x)) = ToSet(s) \cup {x}
  <2> DEFINE t == Append(s, x)
  <2>1. /\ DOMAIN t = 1..(Len(s) + 1) /\ DOMAIN s = 1..Len(s)
        /\ t[Len(s) + 1] = x /\ \A i \in 1..Len(s) : t[i] = s[i]
    OBVIOUS
  <2>2. 1..(Len(s) + 1) = (1..Len(s)) \cup {Len(s) + 1}
    OBVIOUS
  <2> HIDE DEF t
  <2> QED BY <2>1, <2>2 DEF ToSet
<1>2. Distinct(s) /\ x \notin ToSet(s) => Distinct(Append(s, x))
  BY DEF ToSet, Distinct
<1> QED BY <1>1, <1>2

LEMMA ConcatFacts ==
    ASSUME NEW X, NEW s \in Seq(X), NEW t \in Seq(X)
    PROVE  /\ s \o t \in Seq(X)
           /\ ToSet(s \o t) = ToSet(s) \cup ToSet(t)
           /\ Distinct(s) /\ Distinct(t) /\ ToSet(s) \cap ToSet(t) = {} => Distinct(s \o t)
<1>1. ToSet(s \o t) = ToSet(s) \cup ToSet(t)
  <2> DEFINE c == s \o t
  <2>1. ASSUME NEW i \in DOMAIN c PROVE c[i] \in ToSet(s) \cup ToSet(t)
    <3>1. CASE i <= Len(s)
      BY <2>1, <3>1 DEF ToSet
    <3>2. CASE i > Len(s)
      <4>1. i - Len(s) \in DOMAIN t /\ c[i] = t[i - Len(s)]
        BY <2>1, <3>2
      <4> HIDE DEF c
      <4> QED BY <4>1 DEF ToSet
    <3> QED BY <3>1, <3>2
  <2>2. \A i \in DOMAIN s : i \in DOMAIN c /\ c[i] = s[i]
    OBVIOUS
  <2>3. \A i \in DOMAIN t : i + Len(s) \in DOMAIN c /\ c[i + Len(s)] = t[i]
    OBVIOUS
  <2> HIDE DEF c
  <2>4. ToSet(c) \subseteq ToSet(s) \cup ToSet(t)
    BY <2>1 DEF ToSet
  <2>5. ToSet(s) \subseteq ToSet(c)
    BY <2>2 DEF ToSet
  <2>6. ToSet(t) \subseteq ToSet(c)
    BY <2>3 DEF ToSet
  <2> QED BY <2>4, <2>5, <2>6 DEF c
<1>2. ASSUME Distinct(s), Distinct(t), ToSet(s) \cap ToSet(t) = {} PROVE Distinct(s \o t)
  <2>1. SUFFICES ASSUME NEW i \in DOMAIN (s \o t), NEW k \in DOMAIN (s \o t),
                        (s \o t)[i] = (s \o t)[k], i # k
                 PROVE  FALSE
    BY DEF Distinct
  <2>2. CASE i <= Len(s) /\ k <= Len(s)
    BY <1>2, <2>1, <2>2 DEF Distinct
  <2>3. CASE i > Len(s) /\ k > Len(s)
    <3>1. i - Len(s) \in DOMAIN t /\ k - Len(s) \in DOMAIN t /\ i - Len(s) # k - Len(s)
      BY <2>1, <2>3
    <3>2. t[i - Len(s)] = t[k - Len(s)]
      BY <2>1, <2>3
    <3> QED BY <1>2, <3>1, <3>2 DEF Distinct
  <2>4. ASSUME NEW a \in DOMAIN (s \o t), NEW b \in DOMAIN (s \o t),
               a <= Len(s), b > Len(s)
        PROVE  (s \o t)[a] # (s \o t)[b]
    <3>1. (s \o t)[a] \in ToSet(s)
      BY <2>4 DEF ToSet
    <3>2. (s \o t)[b] \in ToSet(t)
      BY <2>4 DEF ToSet
    <3> QED BY <1>2, <3>1, <3>2
  <2> QED BY <2>1, <2>2, <2>3, <2>4
<1> QED BY <1>1, <1>2

SelectAt(f, s, S, n) ==
    IF n = 0 THEN <<>>
    ELSE IF s[n] \in S THEN Append(f[n - 1], s[n]) ELSE f[n - 1]

\* The recursion that defines Select has a solution.
LEMMA SelectExists ==
    ASSUME NEW X, NEW s \in Seq(X), NEW S
    PROVE  \E f : f = [n \in 0..Len(s) |-> SelectAt(f, s, S, n)]
<1> DEFINE G == {m \in Nat : \E f : f = [n \in 0..m |-> SelectAt(f, s, S, n)]}
<1>1. 0 \in G
  <2> DEFINE f == [n \in 0..0 |-> <<>>]
  <2>1. f = [n \in 0..0 |-> SelectAt(f, s, S, n)]
    BY DEF SelectAt
  <2> QED BY <2>1
<1>2. ASSUME NEW m \in Nat, m \in G PROVE m + 1 \in G
  <2>1. PICK f : f = [n \in 0..m |-> SelectAt(f, s, S, n)]
    BY <1>2
  <2> DEFINE g == [n \in 0..(m + 1) |-> IF n <= m THEN f[n]
                        ELSE IF s[m + 1] \in S THEN Append(f[m], s[m + 1]) ELSE f[m]]
  <2>2. ASSUME NEW n \in 0..(m + 1) PROVE g[n] = SelectAt(g, s, S, n)
    <3>1. CASE n = 0
      <4>1. g[n] = f[0] /\ f[0] = SelectAt(f, s, S, 0)
        BY <3>1, <2>1
      <4> QED BY <4>1, <3>1 DEF SelectAt
    <3>2. CASE n # 0 /\ n <= m
      <4>1. n \in 0..m /\ n - 1 \in 0..m /\ n - 1 \in 0..(m + 1)
        BY <3>2
      <4>2. g[n] = f[n] /\ g[n - 1] = f[n - 1]
        BY <4>1, <3>2
      <4>3. f[n] = SelectAt(f, s, S, n)
        BY <2>1, <4>1
      <4> HIDE DEF g
      <4> QED BY <4>2, <4>3, <3>2 DEF SelectAt
    <3>3. CASE n = m + 1
      <4>1. n # 0 /\ ~ (n <= m) /\ n - 1 = m /\ m \in 0..(m + 1)
        BY <3>3
      <4>2. g[m] = f[m]
        BY <4>1
      <4>3. g[n] = IF s[m + 1] \in S THEN Append(f[m], s[m + 1]) ELSE f[m]
        BY <4>1
      <4> HIDE DEF g
      <4> QED BY <4>1, <4>2, <4>3, <3>3 DEF SelectAt
    <3> QED BY <3>1, <3>2, <3>3
  <2>3. g = [n \in 0..(m + 1) |-> SelectAt(g, s, S, n)]
    <3> DEFINE h == [n \in 0..(m + 1) |-> SelectAt(g, s, S, n)]
    <3>1. DOMAIN g = 0..(m + 1) /\ g = [n \in 0..(m + 1) |-> g[n]]
      OBVIOUS
    <3> HIDE DEF g
    <3> QED BY <2>2, <3>1
  <2> HIDE DEF g
  <2> QED BY <2>3
<1> HIDE DEF G
<1>3. \A m \in Nat : m \in G
  BY <1>1, <1>2, NatSetInduction
<1>4. Len(s) \in G
  BY <1>3
<1> QED BY <1>4 DEF G

\* What Select returns: the chosen elements, each as often as before.
LEMMA SelectProperties ==
    ASSUME NEW X, NEW s \in Seq(X), NEW S
    PROVE  /\ Select(s, S) \in Seq(X)
           /\ ToSet(Select(s, S)) = ToSet(s) \cap S
           /\ Distinct(s) => Distinct(Select(s, S))
<1> DEFINE f == CHOOSE g : g = [n \in 0..Len(s) |-> SelectAt(g, s, S, n)]
<1>1. f = [n \in 0..Len(s) |-> SelectAt(f, s, S, n)]
  BY SelectExists
<1>2. Select(s, S) = f[Len(s)]
  BY DEF Select, SelectAt
<1> HIDE DEF f
<1>3. \A n \in 0..Len(s) : f[n] = SelectAt(f, s, S, n)
  BY <1>1
<1> DEFINE P(n) == /\ f[n] \in Seq(X)
                   /\ ToSet(f[n]) = {s[i] : i \in 1..n} \cap S
                   /\ Distinct(s) => Distinct(f[n])
           G == {n \in Nat : n <= Len(s) => P(n)}
<1>4. 0 \in G
  <2>1. f[0] = <<>>
    BY <1>3 DEF SelectAt
  <2>2. P(0)
    BY <2>1 DEF ToSet, Distinct
  <2> HIDE DEF P
  <2> QED BY <2>2
<1>5. ASSUME NEW n \in Nat, n \in G PROVE n + 1 \in G
  <2>1. SUFFICES ASSUME n + 1 <= Len(s) PROVE P(n + 1)
    OBVIOUS
  <2>2. P(n)
    BY <1>5, <2>1
  <2>3. n + 1 \in DOMAIN s /\ s[n + 1] \in X /\ n + 1 \in 0..Len(s)
    BY <2>1
  <2>4. f[n + 1] = IF s[n + 1] \in S THEN Append(f[n], s[n + 1]) ELSE f[n]
    BY <1>3, <2>3 DEF SelectAt
  <2>5. {s[i] : i \in 1..(n + 1)} = {s[i] : i \in 1..n} \cup {s[n + 1]}
    <3>1. 1..(n + 1) = (1..n) \cup {n + 1}
      OBVIOUS
    <3> QED BY <3>1
  <2>6. CASE s[n + 1] \in S
    <3>1. f[n + 1] = Append(f[n], s[n + 1])
      BY <2>4, <2>6
    <3>2. f[n + 1] \in Seq(X) /\ ToSet(f[n + 1]) = ToSet(f[n]) \cup {s[n + 1]}
      BY <3>1, <2>2, <2>3, AppendFacts
    <3>3. ASSUME Distinct(s) PROVE Distinct(f[n + 1])
      <4>1. s[n + 1] \notin {s[i] : i \in 1..n}
        BY <3>3, <2>3 DEF Distinct
      <4>2. s[n + 1] \notin ToSet(f[n])
        BY <4>1, <2>2
      <4> QED BY <4>2, <3>1, <3>3, <2>2, <2>3, AppendFacts
    <3> QED BY <3>2, <3>3, <2>2, <2>5, <2>6
  <2>7. CASE s[n + 1] \notin S
    <3>1. f[n + 1] = f[n]
      BY <2>4, <2>7
    <3> QED BY <3>1, <2>2, <2>5, <2>7
  <2> QED BY <2>6, <2>7
<1>6. Len(s) \in G
  <2> HIDE DEF G
  <2> QED BY <1>4, <1>5, NatSetInduction
<1>7. P(Len(s))
  BY <1>6
<1>8. {s[i] : i \in 1..Len(s)} = ToSet(s)
  BY DEF ToSet
<1> QED BY <1>2, <1>7, <1>8

-----------------------------------------------------------------------------
(* The inductive invariant.                                                 *)

\* A turn in flight: nothing is held for a replay while it runs, a cancelled
\* turn has frozen the driver, and what it raised is what the driver noted.
InFlight ==
    /\ busy => held = <<>> /\ raised = lastTurnFailure /\ cancelled = abortRequested
    /\ ~busy => ~abortRequested /\ lastTurnFailure = "none"
    /\ abortRequested => frozen
    /\ ~abortRequested => abortHeld = <<>>

\* The agent and its stream live exactly as long as the team does.
Attached ==
    /\ busy => life \in {"live", "disposing"}
    /\ life \in {"live", "disposing"} => agent /\ stream
    /\ life \in {"none", "disposed"} => ~agent

SettleInv == TypeOK /\ RestIsQuiet /\ FailureIsLastTurns /\ InFlight /\ Attached

LEMMA mapEngineCodeType == \A code : mapEngineCode(code) \in MainDriveErrorCode
BY DEF mapEngineCode, MainDriveErrorCode

LEMMA SettleInvInit == Init => SettleInv
<1> SUFFICES ASSUME Init PROVE SettleInv
  OBVIOUS
<1>1. TypeOK
  <2>1. /\ <<>> \in Seq(UserMessages) /\ inbox = <<>> /\ log = <<>> /\ steered = <<>>
        /\ held = <<>> /\ abortHeld = <<>>
    BY DEF Init
  <2>2. /\ life = "none" /\ turn = "none" /\ agent = FALSE /\ abortRequested = FALSE
        /\ frozen = FALSE /\ lastTurnFailure = "none" /\ lastTurnError = "none"
        /\ stream = FALSE /\ sent = {}
    BY DEF Init
  <2> QED BY <2>1, <2>2, Zenon DEF TypeOK
<1>2. RestIsQuiet
  BY DEF Init, RestIsQuiet, pendingInput
<1>3. FailureIsLastTurns
  BY DEF Init, FailureIsLastTurns
<1>4. InFlight
  BY DEF Init, InFlight, busy
<1>5. Attached
  BY DEF Init, Attached, busy
<1> QED BY <1>1, <1>2, <1>3, <1>4, <1>5 DEF SettleInv

LEMMA SettleInvNext == SettleInv /\ [Next]_vars => SettleInv'
<1> SUFFICES ASSUME SettleInv, [Next]_vars PROVE SettleInv'
  OBVIOUS
<1> USE DEF SettleInv
<1>1. CASE Materialize
  <2> USE <1>1 DEF Materialize, driveVars, histVars, turnHist
  <2>1. TypeOK'
    BY DEF TypeOK
  <2>2. RestIsQuiet'
    BY DEF RestIsQuiet, pendingInput, busy
  <2>3. FailureIsLastTurns'
    BY DEF FailureIsLastTurns, busy
  <2>4. InFlight'
    BY DEF InFlight, busy
  <2>5. Attached'
    BY DEF Attached, busy
  <2> QED BY <2>1, <2>2, <2>3, <2>4, <2>5
<1>2. CASE CreateAgent
  <2> USE <1>2 DEF CreateAgent, driveVars, histVars, turnHist
  <2>1. TypeOK'
    BY DEF TypeOK
  <2>2. RestIsQuiet'
    BY DEF RestIsQuiet, pendingInput, busy
  <2>3. FailureIsLastTurns'
    BY DEF FailureIsLastTurns, busy
  <2>4. InFlight'
    BY DEF InFlight, busy
  <2>5. Attached'
    BY DEF Attached, busy
  <2> QED BY <2>1, <2>2, <2>3, <2>4, <2>5
<1>3. CASE Commit
  <2> USE <1>3 DEF Commit, OpenStream, driveVars, histVars, turnHist
  <2>1. TypeOK'
    BY DEF TypeOK
  <2>2. RestIsQuiet'
    BY DEF RestIsQuiet, pendingInput, busy
  <2>3. FailureIsLastTurns'
    BY DEF FailureIsLastTurns, busy
  <2>4. InFlight'
    BY DEF InFlight, busy
  <2>5. Attached'
    BY DEF Attached, busy
  <2> QED BY <2>1, <2>2, <2>3, <2>4, <2>5
<1>4. CASE MaterializeFails
  <2> USE <1>4 DEF MaterializeFails, driveVars, histVars, turnHist
  <2>1. TypeOK'
    BY DEF TypeOK
  <2>2. RestIsQuiet'
    BY DEF RestIsQuiet, pendingInput, busy
  <2>3. FailureIsLastTurns'
    BY DEF FailureIsLastTurns, busy
  <2>4. InFlight'
    BY DEF InFlight, busy
  <2>5. Attached'
    BY DEF Attached, busy
  <2> QED BY <2>1, <2>2, <2>3, <2>4, <2>5
<1>5. CASE Release
  <2> USE <1>5 DEF Release, EndStream, driveVars, histVars, turnHist
  <2>1. TypeOK'
    BY DEF TypeOK
  <2>2. RestIsQuiet'
    BY DEF RestIsQuiet, pendingInput, busy
  <2>3. FailureIsLastTurns'
    BY DEF FailureIsLastTurns, busy
  <2>4. InFlight'
    BY DEF InFlight, busy
  <2>5. Attached'
    BY DEF Attached, busy
  <2> QED BY <2>1, <2>2, <2>3, <2>4, <2>5
<1>6. CASE Cancel
  <2> USE <1>6 DEF Cancel, CancelTurn, driveVars, histVars, turnHist
  <2>1. TypeOK'
    <3>1. /\ <<>> \in Seq(UserMessages) /\ inbox \in Seq(UserMessages)
          /\ log \in Seq(UserMessages) /\ steered \in Seq(UserMessages)
          /\ held \in Seq(UserMessages) /\ abortHeld \in Seq(UserMessages)
      BY DEF TypeOK
    <3>2. /\ inbox' \in Seq(UserMessages) /\ log' \in Seq(UserMessages)
          /\ steered' \in Seq(UserMessages) /\ held' \in Seq(UserMessages)
          /\ abortHeld' \in Seq(UserMessages)
      BY <3>1
    <3>3. /\ life' \in {"none", "building", "live", "disposing", "disposed"}
          /\ turn' \in {"none", "woken", "running"}
          /\ agent' \in BOOLEAN /\ abortRequested' \in BOOLEAN /\ frozen' \in BOOLEAN
          /\ lastTurnFailure' \in EngineCodes \cup {"none"}
          /\ lastTurnError' \in MainDriveErrorCode \cup {"none"}
          /\ stream' \in BOOLEAN /\ sent' \subseteq UserMessages
      BY DEF TypeOK
    <3> QED BY <3>2, <3>3, Zenon DEF TypeOK
  <2>2. RestIsQuiet'
    BY DEF RestIsQuiet, pendingInput, busy
  <2>3. FailureIsLastTurns'
    BY DEF FailureIsLastTurns, busy
  <2>4. InFlight'
    BY DEF InFlight, busy
  <2>5. Attached'
    BY DEF Attached, busy
  <2> QED BY <2>1, <2>2, <2>3, <2>4, <2>5
<1>7. CASE Dispose
  <2> USE <1>7 DEF Dispose, CancelTurn, driveVars, histVars, turnHist
  <2>1. TypeOK'
    <3>1. /\ <<>> \in Seq(UserMessages) /\ inbox \in Seq(UserMessages)
          /\ log \in Seq(UserMessages) /\ steered \in Seq(UserMessages)
          /\ held \in Seq(UserMessages) /\ abortHeld \in Seq(UserMessages)
      BY DEF TypeOK
    <3>2. /\ inbox' \in Seq(UserMessages) /\ log' \in Seq(UserMessages)
          /\ steered' \in Seq(UserMessages) /\ held' \in Seq(UserMessages)
          /\ abortHeld' \in Seq(UserMessages)
      BY <3>1
    <3>3. /\ life' \in {"none", "building", "live", "disposing", "disposed"}
          /\ turn' \in {"none", "woken", "running"}
          /\ agent' \in BOOLEAN /\ abortRequested' \in BOOLEAN /\ frozen' \in BOOLEAN
          /\ lastTurnFailure' \in EngineCodes \cup {"none"}
          /\ lastTurnError' \in MainDriveErrorCode \cup {"none"}
          /\ stream' \in BOOLEAN /\ sent' \subseteq UserMessages
      BY DEF TypeOK
    <3> QED BY <3>2, <3>3, Zenon DEF TypeOK
  <2>2. RestIsQuiet'
    BY DEF RestIsQuiet, pendingInput, busy
  <2>3. FailureIsLastTurns'
    BY DEF FailureIsLastTurns, busy
  <2>4. InFlight'
    BY DEF InFlight, busy
  <2>5. Attached'
    BY DEF Attached, busy
  <2> QED BY <2>1, <2>2, <2>3, <2>4, <2>5
<1>8. CASE Claim
  <2> USE <1>8 DEF Claim, driveVars, histVars, turnHist
  <2>1. TypeOK'
    BY DEF TypeOK
  <2>2. RestIsQuiet'
    BY DEF RestIsQuiet, pendingInput, busy
  <2>3. FailureIsLastTurns'
    BY DEF FailureIsLastTurns, busy
  <2>4. InFlight'
    BY DEF InFlight, busy
  <2>5. Attached'
    BY DEF Attached, busy
  <2> QED BY <2>1, <2>2, <2>3, <2>4, <2>5
<1>9. ASSUME NEW u \in UserMessages, Submit(u), busy PROVE SettleInv'
  <2> USE <1>9 DEF Submit, Steer, driveVars, histVars, turnHist
  <2>1. TypeOK'
    <3>1. /\ <<>> \in Seq(UserMessages) /\ inbox \in Seq(UserMessages)
          /\ log \in Seq(UserMessages) /\ steered \in Seq(UserMessages)
          /\ held \in Seq(UserMessages) /\ abortHeld \in Seq(UserMessages)
      BY DEF TypeOK
    <3>2. /\ inbox' \in Seq(UserMessages) /\ log' \in Seq(UserMessages)
          /\ steered' \in Seq(UserMessages) /\ held' \in Seq(UserMessages)
          /\ abortHeld' \in Seq(UserMessages)
      <4>1. Append(inbox, u) \in Seq(UserMessages) /\ Append(steered, u) \in Seq(UserMessages)
        BY <3>1, AppendFacts
      <4> QED BY <3>1, <4>1
    <3>3. /\ life' \in {"none", "building", "live", "disposing", "disposed"}
          /\ turn' \in {"none", "woken", "running"}
          /\ agent' \in BOOLEAN /\ abortRequested' \in BOOLEAN /\ frozen' \in BOOLEAN
          /\ lastTurnFailure' \in EngineCodes \cup {"none"}
          /\ lastTurnError' \in MainDriveErrorCode \cup {"none"}
          /\ stream' \in BOOLEAN /\ sent' \subseteq UserMessages
      BY DEF TypeOK
    <3> QED BY <3>2, <3>3, Zenon DEF TypeOK
  <2>2. RestIsQuiet'
    BY DEF RestIsQuiet, pendingInput, busy
  <2>3. FailureIsLastTurns'
    BY DEF FailureIsLastTurns, busy
  <2>4. InFlight'
    BY DEF InFlight, busy
  <2>5. Attached'
    BY DEF Attached, busy
  <2> QED BY <2>1, <2>2, <2>3, <2>4, <2>5
<1>10. ASSUME NEW u \in UserMessages, Submit(u), ~busy PROVE SettleInv'
  <2> USE <1>10 DEF Submit, StartTurn, driveVars, histVars, turnHist
  <2>1. TypeOK'
    <3>1. /\ <<>> \in Seq(UserMessages) /\ inbox \in Seq(UserMessages)
          /\ log \in Seq(UserMessages) /\ steered \in Seq(UserMessages)
          /\ held \in Seq(UserMessages) /\ abortHeld \in Seq(UserMessages)
      BY DEF TypeOK
    <3>2. /\ inbox' \in Seq(UserMessages) /\ log' \in Seq(UserMessages)
          /\ steered' \in Seq(UserMessages) /\ held' \in Seq(UserMessages)
          /\ abortHeld' \in Seq(UserMessages)
      <4>1. inbox \o held \in Seq(UserMessages)
        BY <3>1, ConcatFacts
      <4>2. Append(inbox \o held, u) \in Seq(UserMessages)
        BY <4>1, AppendFacts
      <4> QED BY <3>1, <4>2
    <3>3. /\ life' \in {"none", "building", "live", "disposing", "disposed"}
          /\ turn' \in {"none", "woken", "running"}
          /\ agent' \in BOOLEAN /\ abortRequested' \in BOOLEAN /\ frozen' \in BOOLEAN
          /\ lastTurnFailure' \in EngineCodes \cup {"none"}
          /\ lastTurnError' \in MainDriveErrorCode \cup {"none"}
          /\ stream' \in BOOLEAN /\ sent' \subseteq UserMessages
      BY DEF TypeOK
    <3> QED BY <3>2, <3>3, Zenon DEF TypeOK
  <2>2. RestIsQuiet'
    BY DEF RestIsQuiet, pendingInput, busy
  <2>3. FailureIsLastTurns'
    BY DEF FailureIsLastTurns, busy
  <2>4. InFlight'
    BY DEF InFlight, busy
  <2>5. Attached'
    BY DEF Attached, busy
  <2> QED BY <2>1, <2>2, <2>3, <2>4, <2>5
<1>11. ASSUME NEW code \in EngineCodes, TurnFails(code) PROVE SettleInv'
  <2> USE <1>11 DEF TurnFails, driveVars, histVars, turnHist
  <2>1. TypeOK'
    BY DEF TypeOK
  <2>2. RestIsQuiet'
    BY DEF RestIsQuiet, pendingInput, busy
  <2>3. FailureIsLastTurns'
    BY DEF FailureIsLastTurns, busy
  <2>4. InFlight'
    BY DEF InFlight, busy
  <2>5. Attached'
    BY DEF Attached, busy
  <2> QED BY <2>1, <2>2, <2>3, <2>4, <2>5
<1>12. CASE TurnEnds
  <2> USE <1>12 DEF TurnEnds, Cleared, Latched, driveVars, histVars, turnHist
  <2>0. /\ Unclaimed(steered) \in Seq(UserMessages)
        /\ InboxWithout(steered) \in Seq(UserMessages)
    BY SelectProperties DEF TypeOK, Unclaimed, InboxWithout
  <2>a. CASE abortRequested
    <3>0. Settle("aborted")
      BY <2>a
    <3> USE <2>a, <3>0 DEF Settle
    <3>1. TypeOK'
      <4>1. /\ <<>> \in Seq(UserMessages) /\ inbox \in Seq(UserMessages)
            /\ log \in Seq(UserMessages) /\ steered \in Seq(UserMessages)
            /\ held \in Seq(UserMessages) /\ abortHeld \in Seq(UserMessages)
        BY DEF TypeOK
      <4>2. /\ inbox' \in Seq(UserMessages) /\ log' \in Seq(UserMessages)
            /\ steered' \in Seq(UserMessages) /\ held' \in Seq(UserMessages)
            /\ abortHeld' \in Seq(UserMessages)
        <5>1. Unclaimed(steered) \o abortHeld \in Seq(UserMessages)
          BY <4>1, <2>0, ConcatFacts
        <5>2. Unclaimed(steered) \o abortHeld \o held \in Seq(UserMessages)
          BY <4>1, <5>1, ConcatFacts
        <5> QED BY <4>1, <2>0, <5>2
      <4>3. /\ life' \in {"none", "building", "live", "disposing", "disposed"}
            /\ turn' \in {"none", "woken", "running"}
            /\ agent' \in BOOLEAN /\ abortRequested' \in BOOLEAN /\ frozen' \in BOOLEAN
            /\ lastTurnFailure' \in EngineCodes \cup {"none"}
            /\ lastTurnError' \in MainDriveErrorCode \cup {"none"}
            /\ stream' \in BOOLEAN /\ sent' \subseteq UserMessages
        BY mapEngineCodeType DEF TypeOK
      <4> QED BY <4>2, <4>3, Zenon DEF TypeOK
    <3>2. RestIsQuiet'
      BY DEF RestIsQuiet, pendingInput, busy, InFlight
    <3>3. FailureIsLastTurns'
      BY DEF FailureIsLastTurns, busy, InFlight
    <3>4. InFlight'
      BY DEF InFlight, busy
    <3>5. Attached'
      BY DEF Attached, busy
    <3> QED BY <3>1, <3>2, <3>3, <3>4, <3>5
  <2>b. CASE ~abortRequested /\ lastTurnFailure # "none"
    <3>0. Settle("failed")
      BY <2>b
    <3> USE <2>b, <3>0 DEF Settle
    <3>1. TypeOK'
      <4>1. /\ <<>> \in Seq(UserMessages) /\ inbox \in Seq(UserMessages)
            /\ log \in Seq(UserMessages) /\ steered \in Seq(UserMessages)
            /\ held \in Seq(UserMessages) /\ abortHeld \in Seq(UserMessages)
        BY DEF TypeOK
      <4>2. /\ inbox' \in Seq(UserMessages) /\ log' \in Seq(UserMessages)
            /\ steered' \in Seq(UserMessages) /\ held' \in Seq(UserMessages)
            /\ abortHeld' \in Seq(UserMessages)
        <5>1. Unclaimed(steered) \o held \in Seq(UserMessages)
          BY <4>1, <2>0, ConcatFacts
        <5> QED BY <4>1, <2>0, <5>1
      <4>3. /\ life' \in {"none", "building", "live", "disposing", "disposed"}
            /\ turn' \in {"none", "woken", "running"}
            /\ agent' \in BOOLEAN /\ abortRequested' \in BOOLEAN /\ frozen' \in BOOLEAN
            /\ lastTurnFailure' \in EngineCodes \cup {"none"}
            /\ lastTurnError' \in MainDriveErrorCode \cup {"none"}
            /\ stream' \in BOOLEAN /\ sent' \subseteq UserMessages
        BY mapEngineCodeType DEF TypeOK
      <4> QED BY <4>2, <4>3, Zenon DEF TypeOK
    <3>2. RestIsQuiet'
      BY DEF RestIsQuiet, pendingInput, busy, InFlight
    <3>3. FailureIsLastTurns'
      <4>1. raised' # "none" /\ ~cancelled' /\ raised' = lastTurnFailure
        BY DEF InFlight
      <4>2. lastTurnError' = mapEngineCode(lastTurnFailure) /\ frozen'
        OBVIOUS
      <4> QED BY <4>1, <4>2 DEF FailureIsLastTurns
    <3>4. InFlight'
      BY DEF InFlight, busy
    <3>5. Attached'
      BY DEF Attached, busy
    <3> QED BY <3>1, <3>2, <3>3, <3>4, <3>5
  <2>c. CASE ~abortRequested /\ lastTurnFailure = "none"
    <3>0. Settle("settled")
      BY <2>c
    <3> USE <2>c, <3>0 DEF Settle
    <3>1. TypeOK'
      <4>1. /\ <<>> \in Seq(UserMessages) /\ inbox \in Seq(UserMessages)
            /\ log \in Seq(UserMessages) /\ steered \in Seq(UserMessages)
            /\ held \in Seq(UserMessages) /\ abortHeld \in Seq(UserMessages)
        BY DEF TypeOK
      <4>2. /\ inbox' \in Seq(UserMessages) /\ log' \in Seq(UserMessages)
            /\ steered' \in Seq(UserMessages) /\ held' \in Seq(UserMessages)
            /\ abortHeld' \in Seq(UserMessages)
        BY <4>1, <2>0
      <4>3. /\ life' \in {"none", "building", "live", "disposing", "disposed"}
            /\ turn' \in {"none", "woken", "running"}
            /\ agent' \in BOOLEAN /\ abortRequested' \in BOOLEAN /\ frozen' \in BOOLEAN
            /\ lastTurnFailure' \in EngineCodes \cup {"none"}
            /\ lastTurnError' \in MainDriveErrorCode \cup {"none"}
            /\ stream' \in BOOLEAN /\ sent' \subseteq UserMessages
        BY mapEngineCodeType DEF TypeOK
      <4> QED BY <4>2, <4>3, Zenon DEF TypeOK
    <3>2. RestIsQuiet'
      BY DEF RestIsQuiet, pendingInput, busy, InFlight
    <3>3. FailureIsLastTurns'
      BY DEF FailureIsLastTurns, busy, InFlight
    <3>4. InFlight'
      BY DEF InFlight, busy
    <3>5. Attached'
      BY DEF Attached, busy
    <3> QED BY <3>1, <3>2, <3>3, <3>4, <3>5
  <2> QED BY <2>a, <2>b, <2>c
<1>13. CASE UNCHANGED vars
  <2> USE <1>13 DEF vars, driveVars, histVars, turnHist
  <2>1. TypeOK'
    BY DEF TypeOK
  <2>2. RestIsQuiet'
    BY DEF RestIsQuiet, pendingInput, busy
  <2>3. FailureIsLastTurns'
    BY DEF FailureIsLastTurns, busy
  <2>4. InFlight'
    BY DEF InFlight, busy
  <2>5. Attached'
    BY DEF Attached, busy
  <2> QED BY <2>1, <2>2, <2>3, <2>4, <2>5
<1> QED BY <1>1, <1>2, <1>3, <1>4, <1>5, <1>6, <1>7, <1>8, <1>9, <1>10, <1>11, <1>12, <1>13 DEF Next

-----------------------------------------------------------------------------
(* Where a message may be.                                                   *)

\* An accepted message that no cancel took is kept, in whatever life the loop is.
Kept == sent \ taken \subseteq ToSet(inbox) \cup ToSet(held) \cup ToSet(abortHeld) \cup ToSet(log)

\* Only accepted messages are anywhere, so a new one is nowhere yet.
OnlySent ==
    /\ ToSet(inbox) \cup ToSet(held) \cup ToSet(abortHeld) \cup ToSet(log) \subseteq sent
    /\ ToSet(steered) \subseteq sent

\* No queue holds a message twice.
NoRepeat == Distinct(inbox) /\ Distinct(held) /\ Distinct(abortHeld) /\ Distinct(steered)

\* What waits and has been read before was put back by a cancel.
WaitsAgain == (ToSet(inbox) \cup ToSet(held) \cup ToSet(abortHeld)) \cap ToSet(log) \subseteq redone

InputInv == Kept /\ HeldOnce /\ ReadOnce /\ OnlySent /\ NoRepeat /\ WaitsAgain

LEMMA EmptyFacts == ToSet(<<>>) = {} /\ Distinct(<<>>)
BY DEF ToSet, Distinct

LEMMA InputInvInit == Init => InputInv
<1> SUFFICES ASSUME Init PROVE InputInv
  OBVIOUS
<1>1. sent = {} /\ inbox = <<>> /\ log = <<>> /\ steered = <<>> /\ held = <<>> /\ abortHeld = <<>>
  BY DEF Init
<1>2. ReadOnce
  BY <1>1 DEF ReadOnce
<1> QED BY <1>1, <1>2, EmptyFacts
     DEF InputInv, Kept, HeldOnce, OnlySent, NoRepeat, WaitsAgain

\* ReadOnce only looks at the log and at what was put back.
LEMMA ReadOnceKept ==
    ASSUME ReadOnce, log' = log, redone \subseteq redone'
    PROVE  ReadOnce'
BY DEF ReadOnce

LEMMA InputInvNext == SettleInv /\ InputInv /\ [Next]_vars => InputInv'
<1> SUFFICES ASSUME SettleInv, InputInv, [Next]_vars PROVE InputInv'
  OBVIOUS
<1> USE DEF InputInv
<1>0. /\ inbox \in Seq(UserMessages) /\ log \in Seq(UserMessages)
      /\ steered \in Seq(UserMessages) /\ held \in Seq(UserMessages)
      /\ abortHeld \in Seq(UserMessages) /\ sent \subseteq UserMessages
  BY DEF SettleInv, TypeOK
<1>1. ASSUME UNCHANGED <<inbox, log, steered, held, abortHeld, sent, taken, redone>>
      PROVE  InputInv'
  BY <1>1 DEF Kept, HeldOnce, ReadOnce, OnlySent, NoRepeat, WaitsAgain
<1>2. ASSUME CancelTurn, UNCHANGED <<log, held, sent>> PROVE InputInv'
  <2>1. CASE ~busy \/ abortRequested
    BY <1>1, <1>2, <2>1 DEF CancelTurn
  <2>2. CASE busy /\ ~abortRequested
    <3>1. held = <<>> /\ abortHeld = <<>>
      BY <2>2 DEF SettleInv, InFlight
    <3>2. /\ abortHeld' = steered /\ steered' = <<>> /\ inbox' = <<>>
          /\ held' = held /\ log' = log /\ sent' = sent
          /\ taken' = taken \cup (ToSet(inbox) \ ToSet(steered))
          /\ redone' = redone \cup (ToSet(steered) \ ToSet(inbox))
      BY <1>2, <2>2 DEF CancelTurn
    <3>3. Kept' /\ HeldOnce' /\ OnlySent' /\ NoRepeat' /\ WaitsAgain'
      BY <3>1, <3>2, EmptyFacts DEF Kept, HeldOnce, OnlySent, NoRepeat, WaitsAgain
    <3>4. ReadOnce'
      BY <3>2, ReadOnceKept
    <3> QED BY <3>3, <3>4
  <2> QED BY <2>1, <2>2
<1>3. ASSUME Claim PROVE InputInv'
  <2>1. /\ log' = log \o inbox /\ inbox' = <<>> /\ steered' = steered /\ held' = held
        /\ abortHeld' = abortHeld /\ sent' = sent /\ taken' = taken /\ redone' = redone
    BY <1>3 DEF Claim, driveVars, histVars
  <2>2. ToSet(log') = ToSet(log) \cup ToSet(inbox)
    BY <2>1, <1>0, ConcatFacts
  <2>3. Kept' /\ HeldOnce' /\ OnlySent' /\ NoRepeat' /\ WaitsAgain'
    BY <2>1, <2>2, EmptyFacts DEF Kept, HeldOnce, OnlySent, NoRepeat, WaitsAgain
  <2>4. ReadOnce'
    <3>1. SUFFICES ASSUME NEW i \in DOMAIN (log \o inbox), NEW k \in DOMAIN (log \o inbox),
                          (log \o inbox)[i] = (log \o inbox)[k], i # k
                   PROVE  (log \o inbox)[i] \in redone
      BY <2>1 DEF ReadOnce
    <3>2. CASE i <= Len(log) /\ k <= Len(log)
      BY <3>1, <3>2, <1>0 DEF ReadOnce
    <3>3. CASE i > Len(log) /\ k > Len(log)
      <4>1. /\ i - Len(log) \in DOMAIN inbox /\ k - Len(log) \in DOMAIN inbox
            /\ inbox[i - Len(log)] = inbox[k - Len(log)] /\ i - Len(log) # k - Len(log)
        BY <3>1, <3>3, <1>0
      <4> QED BY <4>1 DEF NoRepeat, Distinct
    <3>4. ASSUME NEW a \in DOMAIN (log \o inbox), NEW b \in DOMAIN (log \o inbox),
                 a <= Len(log), b > Len(log), (log \o inbox)[a] = (log \o inbox)[b]
          PROVE  (log \o inbox)[a] \in redone
      <4>1. (log \o inbox)[a] \in ToSet(log)
        BY <3>4, <1>0 DEF ToSet
      <4>2. (log \o inbox)[b] \in ToSet(inbox)
        <5>1. b - Len(log) \in DOMAIN inbox /\ (log \o inbox)[b] = inbox[b - Len(log)]
          BY <3>4, <1>0
        <5> QED BY <5>1 DEF ToSet
      <4> QED BY <3>4, <4>1, <4>2 DEF WaitsAgain
    <3>5. CASE i <= Len(log) /\ k > Len(log)
      BY <3>1, <3>4, <3>5
    <3>6. CASE k <= Len(log) /\ i > Len(log)
      <4>1. (log \o inbox)[k] \in redone
        BY <3>1, <3>4, <3>6
      <4> QED BY <3>1, <4>1
    <3>7. i \in Nat /\ k \in Nat /\ Len(log) \in Nat
      BY <1>0
    <3> QED BY <3>2, <3>3, <3>5, <3>6, <3>7
  <2> QED BY <2>3, <2>4
<1>4. ASSUME NEW u \in UserMessages, Submit(u) PROVE InputInv'
  <2>1. /\ u \notin sent /\ sent' = sent \cup {u} /\ log' = log /\ taken' = taken
        /\ redone' = redone
    BY <1>4 DEF Submit
  <2>2. ReadOnce'
    BY <2>1, ReadOnceKept
  <2>3. CASE busy
    <3>1. /\ inbox' = Append(inbox, u) /\ steered' = Append(steered, u)
          /\ held' = held /\ abortHeld' = abortHeld
      BY <1>4, <2>3 DEF Submit, Steer
    <3>2. /\ ToSet(inbox') = ToSet(inbox) \cup {u} /\ ToSet(steered') = ToSet(steered) \cup {u}
      BY <3>1, <1>0, AppendFacts
    <3>3. Distinct(inbox') /\ Distinct(steered')
      BY <3>1, <2>1, <1>0, AppendFacts DEF OnlySent, NoRepeat
    <3>4. Kept' /\ HeldOnce' /\ OnlySent' /\ NoRepeat' /\ WaitsAgain'
      BY <2>1, <3>1, <3>2, <3>3 DEF Kept, HeldOnce, OnlySent, NoRepeat, WaitsAgain
    <3> QED BY <3>4, <2>2
  <2>4. CASE ~busy
    <3>1. /\ inbox' = Append(inbox \o held, u) /\ steered' = steered
          /\ held' = <<>> /\ abortHeld' = <<>>
      BY <1>4, <2>4 DEF Submit, StartTurn
    <3>2. abortHeld = <<>>
      BY <2>4 DEF SettleInv, InFlight
    <3>3. /\ inbox \o held \in Seq(UserMessages)
          /\ ToSet(inbox \o held) = ToSet(inbox) \cup ToSet(held)
          /\ Distinct(inbox \o held)
      BY <1>0, ConcatFacts DEF NoRepeat, HeldOnce
    <3>4. /\ ToSet(inbox') = ToSet(inbox) \cup ToSet(held) \cup {u}
          /\ Distinct(inbox')
      <4>1. u \notin ToSet(inbox \o held)
        BY <3>3, <2>1 DEF OnlySent
      <4>2. ASSUME NEW q \in Seq(UserMessages), u \notin ToSet(q), Distinct(q)
            PROVE  ToSet(Append(q, u)) = ToSet(q) \cup {u} /\ Distinct(Append(q, u))
        BY <4>2, AppendFacts
      <4> QED BY <4>1, <4>2, <3>1, <3>3
    <3>5. Kept' /\ HeldOnce' /\ OnlySent' /\ NoRepeat' /\ WaitsAgain'
      BY <2>1, <3>1, <3>2, <3>4, EmptyFacts DEF Kept, HeldOnce, OnlySent, NoRepeat, WaitsAgain
    <3> QED BY <3>5, <2>2
  <2> QED BY <2>3, <2>4
<1>5. ASSUME TurnEnds PROVE InputInv'
  <2>1. /\ log' = log /\ sent' = sent /\ taken' = taken /\ redone' = redone /\ steered' = <<>>
    BY <1>5 DEF TurnEnds, Settle, Cleared, histVars
  <2>2. ReadOnce'
    BY <2>1, ReadOnceKept
  <2>3. held = <<>>
    BY <1>5 DEF TurnEnds, SettleInv, InFlight
  <2>4. /\ Unclaimed(steered) \in Seq(UserMessages)
        /\ ToSet(Unclaimed(steered)) = ToSet(steered) \cap ToSet(inbox)
        /\ Distinct(Unclaimed(steered))
    BY <1>0, SelectProperties DEF Unclaimed, NoRepeat
  <2>5. /\ InboxWithout(steered) \in Seq(UserMessages)
        /\ ToSet(InboxWithout(steered)) = ToSet(inbox) \ ToSet(steered)
        /\ Distinct(InboxWithout(steered))
    <3>1. ToSet(inbox) \subseteq UserMessages
      BY <1>0 DEF OnlySent
    <3> QED BY <1>0, <3>1, SelectProperties DEF InboxWithout, NoRepeat
  <2>6. CASE abortRequested
    <3>1. /\ held' = Unclaimed(steered) \o abortHeld \o held
          /\ inbox' = InboxWithout(steered) /\ abortHeld' = <<>>
      BY <1>5, <2>6 DEF TurnEnds, Settle
    <3>2. /\ Unclaimed(steered) \o abortHeld \in Seq(UserMessages)
          /\ ToSet(Unclaimed(steered) \o abortHeld) = ToSet(Unclaimed(steered)) \cup ToSet(abortHeld)
          /\ Distinct(Unclaimed(steered) \o abortHeld)
      BY <1>0, <2>4, ConcatFacts DEF NoRepeat, HeldOnce
    <3>3. held' = Unclaimed(steered) \o abortHeld
      BY <2>3, <3>1, <3>2
    <3>4. Kept' /\ HeldOnce' /\ OnlySent' /\ NoRepeat' /\ WaitsAgain'
      BY <2>1, <2>3, <2>4, <2>5, <3>1, <3>2, <3>3, EmptyFacts
         DEF Kept, HeldOnce, OnlySent, NoRepeat, WaitsAgain
    <3> QED BY <3>4, <2>2
  <2>7. CASE ~abortRequested /\ lastTurnFailure # "none"
    <3>1. /\ held' = Unclaimed(steered) \o held
          /\ inbox' = InboxWithout(steered) /\ abortHeld' = abortHeld
      BY <1>5, <2>7 DEF TurnEnds, Settle
    <3>2. held' = Unclaimed(steered)
      BY <2>3, <2>4, <3>1
    <3>3. abortHeld = <<>>
      BY <2>7 DEF SettleInv, InFlight
    <3>4. Kept' /\ HeldOnce' /\ OnlySent' /\ NoRepeat' /\ WaitsAgain'
      BY <2>1, <2>3, <2>4, <2>5, <3>1, <3>2, <3>3, EmptyFacts
         DEF Kept, HeldOnce, OnlySent, NoRepeat, WaitsAgain
    <3> QED BY <3>4, <2>2
  <2>8. CASE ~abortRequested /\ lastTurnFailure = "none"
    <3>1. held' = held /\ inbox' = inbox /\ abortHeld' = abortHeld
      BY <1>5, <2>8 DEF TurnEnds, Settle
    <3> QED BY <2>1, <2>2, <3>1, EmptyFacts DEF Kept, HeldOnce, OnlySent, NoRepeat, WaitsAgain
  <2> QED BY <2>6, <2>7, <2>8
<1>6. CASE Materialize \/ CreateAgent \/ Commit \/ MaterializeFails \/ Release
           \/ (\E code \in EngineCodes : TurnFails(code)) \/ UNCHANGED vars
  BY <1>1, <1>6 DEF Materialize, CreateAgent, Commit, MaterializeFails, Release, TurnFails, vars,
     driveVars, histVars, turnHist
<1>7. CASE Cancel
  BY <1>2, <1>7 DEF Cancel
<1>8. CASE Dispose
  <2>1. CASE busy
    BY <1>2, <1>8, <2>1 DEF Dispose
  <2>2. CASE ~busy
    BY <1>1, <1>8, <2>2 DEF Dispose
  <2> QED BY <2>1, <2>2
<1> QED BY <1>3, <1>4, <1>5, <1>6, <1>7, <1>8 DEF Next

-----------------------------------------------------------------------------
(* Theorems.                                                                *)

\* A turn of the driver leaves behind exactly its own traces, however it ends
\* (runTurn after its await): the failure on record is its own, nothing counts
\* as queued at rest, the agent is released after it; and an accepted message is
\* in one of the inbox, the held sets and the log unless a cancel took it, and is
\* read twice only if a cancel put it back.
THEOREM TurnsSettle == FairSpec => []TurnSettles
<1>1. Init => SettleInv /\ InputInv
  BY SettleInvInit, InputInvInit
<1>2. SettleInv /\ InputInv /\ [Next]_vars => (SettleInv /\ InputInv)'
  BY SettleInvNext, InputInvNext
<1>3. InputInv => InputAccounted
  BY DEF InputInv, Kept, InputKept, InputAccounted
<1>4. SettleInv /\ InputAccounted => TurnSettles
  BY DEF SettleInv, TurnSettles, Attached, AgentOutlivesTurn
<1> QED BY <1>1, <1>2, <1>3, <1>4, PTL DEF FairSpec

\* What the host reads of the driver is a snapshot; the fields it is made of.
ObservedFields ==
    /\ Observed \in Scene!SceneSnapshot
    /\ Observed.life = IF life = "building" THEN "none" ELSE life
    /\ Observed.active = IF busy THEN MAIN_MEMBER_ROLE ELSE Scene!Nobody
    /\ Observed.aborting = (busy /\ abortRequested)
    /\ Observed.running = busy /\ Observed.paused = frozen
    /\ Observed.error = IF lastTurnError # "none" /\ life # "disposed"
                        THEN "member-turn" ELSE "none"

LEMMA ObservedIsSnapshot == ASSUME SettleInv PROVE ObservedFields
BY DEF SettleInv, TypeOK, Observed, ObservedFields, busy, Scene!SceneSnapshot,
       Scene!SceneFailureOrigin

\* The driver keeps the contract of the host: every step it takes is one that
\* SceneOrchestration allows, seen through snapshot and whenQuiescent.
THEOREM DriverKeepsContract == FairSpec => ImplementsScene
<1>1. Init => SettleInv /\ Observed = Scene!NewScene
  <2>1. Init => Observed = Scene!NewScene
    BY DEF Init, Observed, Scene!NewScene, Scene!Nobody, busy
  <2> QED BY <2>1, SettleInvInit
<1>2. SettleInv /\ [Next]_vars => SettleInv'
  BY SettleInvNext
<1>3. SettleInv /\ [Next]_vars => [Scene!SceneStep(Observed, Observed')]_Observed
  <2> SUFFICES ASSUME SettleInv, [Next]_vars
               PROVE  Scene!SceneStep(Observed, Observed') \/ Observed' = Observed
    OBVIOUS
  <2>t. /\ life \in {"none", "building", "live", "disposing", "disposed"}
        /\ busy => life \in {"live", "disposing"}
        /\ lastTurnError \in MainDriveErrorCode \cup {"none"}
        /\ ~busy => ~abortRequested
        /\ abortRequested => frozen
        /\ frozen \in BOOLEAN /\ abortRequested \in BOOLEAN /\ busy \in BOOLEAN
    BY DEF SettleInv, TypeOK, Attached, InFlight, busy
  <2>s. Scene!Nobody # MAIN_MEMBER_ROLE
    BY DEF Scene!Nobody, MAIN_MEMBER_ROLE
  <2>o. ObservedFields
    BY ObservedIsSnapshot
  <2>p. ObservedFields'
    <3>1. SettleInv'
      BY <1>2
    <3> QED BY <3>1, ObservedIsSnapshot, PTL
  <2> USE DEF driveVars, histVars, turnHist
  <2>1. CASE Materialize \/ CreateAgent \/ MaterializeFails \/ Claim \/ UNCHANGED vars
             \/ \E code \in EngineCodes : TurnFails(code)
    BY <2>1, <2>t DEF Materialize, CreateAgent, MaterializeFails, Claim, TurnFails, vars,
       Observed, busy
  <2>2. CASE Commit
    BY <2>2, <2>o, <2>p, Scene!MaterializeStep DEF Commit, ObservedFields, busy
  <2>3. CASE Release
    BY <2>3, <2>o, <2>p, <2>t, Scene!ReleaseStep DEF Release, ObservedFields, busy
  <2>4. CASE Cancel
    BY <2>4, <2>o, <2>p, <2>t, <2>s, Scene!CancelStep DEF Cancel, CancelTurn, ObservedFields, busy
  <2>5. CASE Dispose
    BY <2>5, <2>o, <2>p, <2>t, <2>s, Scene!DisposeStep
       DEF Dispose, CancelTurn, ObservedFields, busy
  <2>6. ASSUME NEW u \in UserMessages, Submit(u)
        PROVE  Scene!SceneStep(Observed, Observed') \/ Observed' = Observed
    <3>1. CASE busy
      BY <2>6, <3>1 DEF Submit, Steer, Observed, busy
    <3>2. CASE ~busy
      BY <2>6, <3>2, <2>o, <2>p, <2>t, Scene!SubmitStep
         DEF Submit, StartTurn, ObservedFields, busy
    <3> QED BY <3>1, <3>2
  <2>7. CASE TurnEnds
    <3>0. /\ busy /\ turn' = "none" /\ abortRequested' = FALSE /\ life' = life
          /\ life \in {"live", "disposing"}
      BY <2>7, <2>t DEF TurnEnds, Settle, Cleared
    <3>1. /\ Observed'.life = Observed.life /\ Observed'.active = Scene!Nobody
          /\ Observed'.aborting = FALSE /\ Observed.active # Scene!Nobody
          /\ Observed.aborting = abortRequested
      <4>1. /\ Observed'.life = Observed.life /\ Observed'.active = Scene!Nobody
            /\ Observed.active # Scene!Nobody
        BY <3>0, <2>o, <2>p, <2>s DEF ObservedFields, busy
      <4>2. busy' = FALSE /\ Observed'.aborting = (busy' /\ abortRequested')
        BY <3>0, <2>p DEF ObservedFields, busy
      <4>3. busy = TRUE /\ Observed.aborting = (busy /\ abortRequested)
        BY <3>0, <2>o, <2>t DEF ObservedFields
      <4> QED BY <4>1, <4>2, <4>3, <2>t
    <3>2. CASE abortRequested
      <4>1. lastTurnError' = "none" /\ frozen' = frozen
        BY <2>7, <3>2, <2>t DEF TurnEnds, Settle, Latched
      <4>2. Observed'.error = "none" /\ Observed'.paused = Observed.paused
        BY <4>1, <2>o, <2>p DEF ObservedFields
      <4>3. Scene!OutcomeOf(Observed, FALSE) = "aborted"
        BY <3>1, <3>2 DEF Scene!OutcomeOf
      <4>4. "none" \in Scene!ErrorOf(Observed, "aborted")
        BY DEF Scene!ErrorOf
      <4> QED BY <3>1, <4>2, <4>3, <4>4, <2>o, <2>p, Scene!TurnEndStep DEF ObservedFields
    <3>3. CASE ~abortRequested /\ lastTurnFailure # "none"
      <4>1. lastTurnError' # "none" /\ frozen' = TRUE
        BY <2>7, <3>3, <2>t, mapEngineCodeType
           DEF TurnEnds, Settle, Latched, MainDriveErrorCode
      <4>2. Observed'.error = "member-turn" /\ Observed'.paused = TRUE
        BY <4>1, <3>0, <2>p DEF ObservedFields
      <4>3. Scene!OutcomeOf(Observed, TRUE) = "failed"
        BY <3>1, <3>3 DEF Scene!OutcomeOf
      <4>4. "member-turn" \in Scene!ErrorOf(Observed, "failed")
        BY DEF Scene!ErrorOf
      <4> QED BY <3>1, <4>2, <4>3, <4>4, <2>o, <2>p, Scene!TurnEndStep DEF ObservedFields
    <3>4. CASE ~abortRequested /\ lastTurnFailure = "none"
      <4>1. lastTurnError' = "none" /\ frozen' = frozen
        BY <2>7, <3>4, <2>t DEF TurnEnds, Settle, Latched
      <4>2. Observed'.error = "none" /\ Observed'.paused = Observed.paused
        BY <4>1, <2>o, <2>p DEF ObservedFields
      <4>3. Scene!OutcomeOf(Observed, FALSE) = "completed"
        BY <3>1, <3>4 DEF Scene!OutcomeOf
      <4>4. "none" \in Scene!ErrorOf(Observed, "completed")
        BY DEF Scene!ErrorOf
      <4> QED BY <3>1, <4>2, <4>3, <4>4, <2>o, <2>p, Scene!TurnEndStep DEF ObservedFields
    <3> QED BY <3>2, <3>3, <3>4
  <2> QED BY <2>1, <2>2, <2>3, <2>4, <2>5, <2>6, <2>7 DEF Next
<1> QED BY <1>1, <1>2, <1>3, PTL DEF FairSpec, ImplementsScene
=============================================================================
