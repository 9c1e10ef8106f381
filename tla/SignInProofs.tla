---------------------------- MODULE SignInProofs ---------------------------
(***************************************************************************)
(* What Login and SignIn promise for any number of replicas, requests,     *)
(* sign-ins and attempts, for any policies and periods: a sign-out ends    *)
(* the session everywhere within the window, what was begun once opens     *)
(* once, and those who get a session were fit to.                          *)
(***************************************************************************)
EXTENDS Login, TLAPS

Rows == [created : Nat, seen : Nat, there : BOOLEAN]
Entries == [row : Rows, checkedAt : Nat, touchedAt : Nat]
RequestStates == {"none", "ask", "expire", "keep", "drop", "touch", "leave", "delete"}
RequestRecords == [pc : RequestStates, replica : Replicas \cup {"none"}, now : Nat,
                   leaving : BOOLEAN, created : Nat]

SessionTypes ==
    /\ clock \in Nat /\ lastUse \in Nat /\ signedOut \in Nat /\ imports \in Nat
    /\ row \in Rows /\ mirror \in Rows
    /\ opened \in BOOLEAN
    /\ cache \in [Replicas -> Entries]
    /\ loader \in [Replicas -> {"count", "import", "clean", "up"}]
    /\ requests \in [Requests -> RequestRecords]

\* Nothing is dated in the future.
Dates ==
    /\ clock <= MaxTime
    /\ lastUse <= clock
    /\ signedOut <= clock \/ signedOut = MaxTime + 1
    /\ \A r \in Replicas : cache[r].checkedAt <= clock
    /\ \A q \in Requests : requests[q].now <= clock

\* The mirror may still put the session in the store.
Importing == mirror.there \/ \E r \in Replicas : loader[r] = "import"

\* Without the cookie nobody asks, and nobody has to be signed out.
BeforeCookie ==
    ~opened => /\ signedOut = MaxTime + 1
               /\ imports = 0 /\ ~Importing
               /\ \A q \in Requests : requests[q].pc = "none"

\* Until the mirror is imported nobody is let in by its session.
BeforeImport ==
    imports = 0 /\ Importing =>
        /\ signedOut = MaxTime + 1
        /\ ~row.there
        /\ \A r \in Replicas : ~cache[r].row.there
        /\ \A q \in Requests : requests[q].pc \in {"none", "ask", "drop"}

\* After a sign-out there is no row, what replicas and requests still hold is
\* from before it, and nobody was let in beyond the window.
AfterSignOut ==
    signedOut <= MaxTime /\ imports <= 1 =>
        /\ ~row.there
        /\ \A r \in Replicas : cache[r].row.there => cache[r].checkedAt <= signedOut
        /\ \A q \in Requests : requests[q].pc = "keep" => requests[q].now <= signedOut
        /\ lastUse < signedOut + Revalidate

SessionInv == SessionTypes /\ Dates /\ BeforeCookie /\ BeforeImport /\ AfterSignOut
----------------------------------------------------------------------------
LEMMA RowFacts ==
    /\ None \in Rows /\ ~None.there
    /\ \A created, seen \in Nat : Row(created, seen) \in Rows /\ Row(created, seen).there
    /\ \A s \in Rows, at \in Nat : [s EXCEPT !.seen = at] \in Rows /\ [s EXCEPT !.seen = at].there = s.there
  BY DEF Rows, None, Row

LEMMA CountSessionsInv ==
    ASSUME SessionInv, NEW r \in Replicas, CountSessions(r)
    PROVE  SessionInv'
  <1> USE TimesAssumption DEF CountSessions, Load, SessionInv, NoEntry, NoRequest
  <1>0. UNCHANGED <<clock, lastUse, signedOut, cache, requests>>
    OBVIOUS
  <1>1. SessionTypes'
    <2>1. /\ clock' \in Nat /\ lastUse' \in Nat /\ signedOut' \in Nat /\ imports' \in Nat
          /\ opened' \in BOOLEAN
      BY DEF SessionTypes, RequestRecords
    <2>2. row' \in Rows /\ mirror' \in Rows
      BY RowFacts DEF SessionTypes, RequestRecords
    <2>3. cache' \in [Replicas -> Entries]
      BY RowFacts DEF SessionTypes, Entries, RequestRecords
    <2>4. loader' \in [Replicas -> {"count", "import", "clean", "up"}]
      BY DEF SessionTypes
    <2>5. requests' \in [Requests -> RequestRecords]
      BY DEF SessionTypes, RequestRecords, RequestStates
    <2> QED BY <2>1, <2>2, <2>3, <2>4, <2>5 DEF SessionTypes
  <1>2. Dates'
    BY <1>0 DEF SessionTypes, Dates, Rows, Entries, RequestRecords, None, Row
  <1>3. BeforeCookie'
    BY DEF SessionTypes, BeforeCookie, Importing, None, Row, RequestRecords
  <1>4. BeforeImport'
    BY DEF SessionTypes, BeforeCookie, BeforeImport, Importing, None, Row, Rows, Entries, RequestRecords
  <1>5. AfterSignOut'
    BY <1>0 DEF SessionTypes, Dates, BeforeCookie, BeforeImport, AfterSignOut, None, Row, Importing, Rows, Entries, RequestRecords
  <1> QED BY <1>1, <1>2, <1>3, <1>4, <1>5

LEMMA ImportInv ==
    ASSUME SessionInv, NEW r \in Replicas, Import(r)
    PROVE  SessionInv'
  <1> USE TimesAssumption DEF Import, Load, SessionInv, NoEntry, NoRequest
  <1>1. SessionTypes'
    <2>1. /\ clock' \in Nat /\ lastUse' \in Nat /\ signedOut' \in Nat /\ imports' \in Nat
          /\ opened' \in BOOLEAN
      BY DEF SessionTypes, RequestRecords
    <2>2. row' \in Rows /\ mirror' \in Rows
      BY RowFacts, Row(0, 0) \in Rows DEF SessionTypes, RequestRecords
    <2>3. cache' \in [Replicas -> Entries]
      BY RowFacts DEF SessionTypes, Entries, RequestRecords
    <2>4. loader' \in [Replicas -> {"count", "import", "clean", "up"}]
      BY DEF SessionTypes
    <2>5. requests' \in [Requests -> RequestRecords]
      BY DEF SessionTypes, RequestRecords, RequestStates
    <2> QED BY <2>1, <2>2, <2>3, <2>4, <2>5 DEF SessionTypes
  <1>2. Dates'
    BY DEF SessionTypes, Dates, Rows, Entries, RequestRecords, None, Row
  <1>3. BeforeCookie'
    BY DEF SessionTypes, BeforeCookie, Importing, None, Row, RequestRecords
  <1>4. BeforeImport'
    BY DEF SessionTypes, BeforeCookie, BeforeImport, Importing, None, Row, Rows, Entries, RequestRecords
  <1>5. AfterSignOut'
    BY DEF SessionTypes, Dates, BeforeCookie, BeforeImport, AfterSignOut, None, Row, Importing, Rows, Entries, RequestRecords
  <1> QED BY <1>1, <1>2, <1>3, <1>4, <1>5

LEMMA CleanInv ==
    ASSUME SessionInv, NEW r \in Replicas, Clean(r)
    PROVE  SessionInv'
  <1> USE TimesAssumption DEF Clean, Load, Spend, SessionInv, NoEntry, NoRequest
  <1>1. SessionTypes'
    <2>1. /\ clock' \in Nat /\ lastUse' \in Nat /\ signedOut' \in Nat /\ imports' \in Nat
          /\ opened' \in BOOLEAN
      BY DEF SessionTypes, RequestRecords
    <2>2. row' \in Rows /\ mirror' \in Rows
      BY RowFacts DEF SessionTypes, RequestRecords
    <2>3. cache' \in [Replicas -> Entries]
      BY RowFacts DEF SessionTypes, Entries, RequestRecords
    <2>4. loader' \in [Replicas -> {"count", "import", "clean", "up"}]
      BY DEF SessionTypes
    <2>5. requests' \in [Requests -> RequestRecords]
      BY DEF SessionTypes, RequestRecords, RequestStates
    <2> QED BY <2>1, <2>2, <2>3, <2>4, <2>5 DEF SessionTypes
  <1>2. Dates'
    BY DEF SessionTypes, Dates, Rows, Entries, RequestRecords, None, Row
  <1>3. BeforeCookie'
    BY DEF SessionTypes, BeforeCookie, Importing, None, Row, RequestRecords
  <1>4. BeforeImport'
    BY DEF SessionTypes, BeforeCookie, BeforeImport, Importing, None, Row, Rows, Entries, RequestRecords
  <1>5. AfterSignOut'
    BY DEF SessionTypes, Dates, BeforeCookie, BeforeImport, AfterSignOut, None, Row, Importing, Rows, Entries, RequestRecords
  <1> QED BY <1>1, <1>2, <1>3, <1>4, <1>5

LEMMA RestartInv ==
    ASSUME SessionInv, NEW r \in Replicas, Restart(r)
    PROVE  SessionInv'
  <1> USE TimesAssumption DEF Restart, Spend, SessionInv, NoEntry, NoRequest
  <1>1. SessionTypes'
    <2>1. /\ clock' \in Nat /\ lastUse' \in Nat /\ signedOut' \in Nat /\ imports' \in Nat
          /\ opened' \in BOOLEAN
      BY DEF SessionTypes, RequestRecords
    <2>2. row' \in Rows /\ mirror' \in Rows
      BY RowFacts DEF SessionTypes, RequestRecords
    <2>3. cache' \in [Replicas -> Entries]
      BY RowFacts DEF SessionTypes, Entries, RequestRecords
    <2>4. loader' \in [Replicas -> {"count", "import", "clean", "up"}]
      BY DEF SessionTypes
    <2>5. requests' \in [Requests -> RequestRecords]
      BY DEF SessionTypes, RequestRecords, RequestStates
    <2> QED BY <2>1, <2>2, <2>3, <2>4, <2>5 DEF SessionTypes
  <1>2. Dates'
    BY DEF SessionTypes, Dates, Rows, Entries, RequestRecords, None, Row
  <1>3. BeforeCookie'
    BY DEF SessionTypes, BeforeCookie, Importing, None, Row, RequestRecords
  <1>4. BeforeImport'
    BY DEF SessionTypes, BeforeCookie, BeforeImport, Importing, None, Row, Rows, Entries, RequestRecords
  <1>5. AfterSignOut'
    BY DEF SessionTypes, Dates, BeforeCookie, BeforeImport, AfterSignOut, None, Row, Importing, Rows, Entries, RequestRecords
  <1> QED BY <1>1, <1>2, <1>3, <1>4, <1>5

LEMMA CreateInv ==
    ASSUME SessionInv, NEW r, Create(r)
    PROVE  SessionInv'
  <1> USE TimesAssumption DEF Create, SessionInv, NoEntry, NoRequest
  <1>1. SessionTypes'
    <2>1. /\ clock' \in Nat /\ lastUse' \in Nat /\ signedOut' \in Nat /\ imports' \in Nat
          /\ opened' \in BOOLEAN
      BY DEF SessionTypes, RequestRecords
    <2>2. row' \in Rows /\ mirror' \in Rows
      BY RowFacts DEF SessionTypes, RequestRecords
    <2>3. cache' \in [Replicas -> Entries]
      BY RowFacts DEF SessionTypes, Entries, RequestRecords
    <2>4. loader' \in [Replicas -> {"count", "import", "clean", "up"}]
      BY DEF SessionTypes
    <2>5. requests' \in [Requests -> RequestRecords]
      BY DEF SessionTypes, RequestRecords, RequestStates
    <2> QED BY <2>1, <2>2, <2>3, <2>4, <2>5 DEF SessionTypes
  <1>2. Dates'
    BY DEF SessionTypes, Dates, Rows, Entries, RequestRecords, None, Row
  <1>3. BeforeCookie'
    BY DEF SessionTypes, BeforeCookie, Importing, None, Row, RequestRecords
  <1>4. BeforeImport'
    BY DEF SessionTypes, BeforeCookie, BeforeImport, Importing, None, Row, Rows, Entries, RequestRecords
  <1>5. AfterSignOut'
    BY DEF SessionTypes, Dates, BeforeCookie, BeforeImport, AfterSignOut, None, Row, Importing, Rows, Entries, RequestRecords
  <1> QED BY <1>1, <1>2, <1>3, <1>4, <1>5

LEMMA PurgeSessionsInv ==
    ASSUME SessionInv, PurgeSessions
    PROVE  SessionInv'
  <1> USE TimesAssumption DEF PurgeSessions, Expired, SessionInv, NoEntry, NoRequest
  <1>1. SessionTypes'
    <2>1. /\ clock' \in Nat /\ lastUse' \in Nat /\ signedOut' \in Nat /\ imports' \in Nat
          /\ opened' \in BOOLEAN
      BY DEF SessionTypes, RequestRecords
    <2>2. row' \in Rows /\ mirror' \in Rows
      BY RowFacts DEF SessionTypes, RequestRecords
    <2>3. cache' \in [Replicas -> Entries]
      BY RowFacts DEF SessionTypes, Entries, RequestRecords
    <2>4. loader' \in [Replicas -> {"count", "import", "clean", "up"}]
      BY DEF SessionTypes
    <2>5. requests' \in [Requests -> RequestRecords]
      BY DEF SessionTypes, RequestRecords, RequestStates
    <2> QED BY <2>1, <2>2, <2>3, <2>4, <2>5 DEF SessionTypes
  <1>2. Dates'
    BY DEF SessionTypes, Dates, Rows, Entries, RequestRecords, None, Row
  <1>3. BeforeCookie'
    BY DEF SessionTypes, BeforeCookie, Importing, None, Row, RequestRecords
  <1>4. BeforeImport'
    BY DEF SessionTypes, BeforeCookie, BeforeImport, Importing, None, Row, Rows, Entries, RequestRecords
  <1>5. AfterSignOut'
    BY DEF SessionTypes, Dates, BeforeCookie, BeforeImport, AfterSignOut, None, Row, Importing, Rows, Entries, RequestRecords
  <1> QED BY <1>1, <1>2, <1>3, <1>4, <1>5

LEMMA GetSessionInv ==
    ASSUME SessionInv, NEW q \in Requests, GetSession(q)
    PROVE  SessionInv'
  <1> USE TimesAssumption DEF GetSession, At, Goto, Spend, SessionInv, NoEntry, NoRequest
  <1>0. \A p \in Requests :
           /\ requests'[p].now = requests[p].now
           /\ requests'[p].pc = "keep" => requests[p].pc = "keep" \/ row.there
    BY DEF SessionTypes, RequestRecords
  <1>1. SessionTypes'
    <2>1. /\ clock' \in Nat /\ lastUse' \in Nat /\ signedOut' \in Nat /\ imports' \in Nat
          /\ opened' \in BOOLEAN
      BY DEF SessionTypes, RequestRecords
    <2>2. row' \in Rows /\ mirror' \in Rows
      BY RowFacts DEF SessionTypes, RequestRecords
    <2>3. cache' \in [Replicas -> Entries]
      BY RowFacts DEF SessionTypes, Entries, RequestRecords
    <2>4. loader' \in [Replicas -> {"count", "import", "clean", "up"}]
      BY DEF SessionTypes
    <2>5. requests' \in [Requests -> RequestRecords]
      BY DEF SessionTypes, RequestRecords, RequestStates
    <2> QED BY <2>1, <2>2, <2>3, <2>4, <2>5 DEF SessionTypes
  <1>2. Dates'
    BY <1>0 DEF SessionTypes, Dates, Rows, Entries, RequestRecords, None, Row
  <1>3. BeforeCookie'
    BY DEF SessionTypes, BeforeCookie, Importing, None, Row, RequestRecords
  <1>4. BeforeImport'
    BY DEF SessionTypes, BeforeCookie, BeforeImport, Importing, None, Row, Rows, Entries, RequestRecords
  <1>5. AfterSignOut'
    BY <1>0 DEF SessionTypes, Dates, BeforeCookie, BeforeImport, AfterSignOut, None, Row, Importing, Rows, Entries, RequestRecords
  <1> QED BY <1>1, <1>2, <1>3, <1>4, <1>5

LEMMA ExpireInv ==
    ASSUME SessionInv, NEW q \in Requests, Expire(q)
    PROVE  SessionInv'
  <1> USE TimesAssumption DEF Expire, At, Goto, Spend, SessionInv, NoEntry, NoRequest
  <1>1. SessionTypes'
    <2>1. /\ clock' \in Nat /\ lastUse' \in Nat /\ signedOut' \in Nat /\ imports' \in Nat
          /\ opened' \in BOOLEAN
      BY DEF SessionTypes, RequestRecords
    <2>2. row' \in Rows /\ mirror' \in Rows
      BY RowFacts DEF SessionTypes, RequestRecords
    <2>3. cache' \in [Replicas -> Entries]
      BY RowFacts DEF SessionTypes, Entries, RequestRecords
    <2>4. loader' \in [Replicas -> {"count", "import", "clean", "up"}]
      BY DEF SessionTypes
    <2>5. requests' \in [Requests -> RequestRecords]
      BY DEF SessionTypes, RequestRecords, RequestStates
    <2> QED BY <2>1, <2>2, <2>3, <2>4, <2>5 DEF SessionTypes
  <1>2. Dates'
    BY DEF SessionTypes, Dates, Rows, Entries, RequestRecords, None, Row
  <1>3. BeforeCookie'
    BY DEF SessionTypes, BeforeCookie, Importing, None, Row, RequestRecords
  <1>4. BeforeImport'
    BY DEF SessionTypes, BeforeCookie, BeforeImport, Importing, None, Row, Rows, Entries, RequestRecords
  <1>5. AfterSignOut'
    BY DEF SessionTypes, Dates, BeforeCookie, BeforeImport, AfterSignOut, None, Row, Importing, Rows, Entries, RequestRecords
  <1> QED BY <1>1, <1>2, <1>3, <1>4, <1>5

LEMMA DropInv ==
    ASSUME SessionInv, NEW q \in Requests, Drop(q)
    PROVE  SessionInv'
  <1> USE TimesAssumption DEF Drop, At, Done, SessionInv, NoEntry, NoRequest
  <1>1. SessionTypes'
    <2>1. /\ clock' \in Nat /\ lastUse' \in Nat /\ signedOut' \in Nat /\ imports' \in Nat
          /\ opened' \in BOOLEAN
      BY DEF SessionTypes, RequestRecords
    <2>2. row' \in Rows /\ mirror' \in Rows
      BY RowFacts DEF SessionTypes, RequestRecords
    <2>3. cache' \in [Replicas -> Entries]
      BY RowFacts DEF SessionTypes, Entries, RequestRecords
    <2>4. loader' \in [Replicas -> {"count", "import", "clean", "up"}]
      BY DEF SessionTypes
    <2>5. requests' \in [Requests -> RequestRecords]
      BY DEF SessionTypes, RequestRecords, RequestStates
    <2> QED BY <2>1, <2>2, <2>3, <2>4, <2>5 DEF SessionTypes
  <1>2. Dates'
    BY DEF SessionTypes, Dates, Rows, Entries, RequestRecords, None, Row
  <1>3. BeforeCookie'
    BY DEF SessionTypes, BeforeCookie, Importing, None, Row, RequestRecords
  <1>4. BeforeImport'
    BY DEF SessionTypes, BeforeCookie, BeforeImport, Importing, None, Row, Rows, Entries, RequestRecords
  <1>5. AfterSignOut'
    BY DEF SessionTypes, Dates, BeforeCookie, BeforeImport, AfterSignOut, None, Row, Importing, Rows, Entries, RequestRecords
  <1> QED BY <1>1, <1>2, <1>3, <1>4, <1>5

LEMMA KeepInv ==
    ASSUME SessionInv, NEW q \in Requests, Keep(q)
    PROVE  SessionInv'
  <1> USE TimesAssumption DEF Keep, At, Accept, Later, SessionInv, NoEntry, NoRequest
  <1>0. /\ requests[q].now \in Nat
        /\ \A p \in Requests : requests'[p].pc = "keep" => p # q /\ requests'[p] = requests[p]
        /\ \A r \in Replicas : cache'[r] = cache[r] \/ cache'[r].checkedAt = requests[q].now
        /\ lastUse' \in {lastUse, requests[q].now}
        /\ UNCHANGED <<row, signedOut, imports>>
    BY DEF SessionTypes, RequestRecords
  <1>1. SessionTypes'
    <2>1. /\ clock' \in Nat /\ lastUse' \in Nat /\ signedOut' \in Nat /\ imports' \in Nat
          /\ opened' \in BOOLEAN
      BY DEF SessionTypes, RequestRecords
    <2>2. row' \in Rows /\ mirror' \in Rows
      BY RowFacts DEF SessionTypes, RequestRecords
    <2>3. cache' \in [Replicas -> Entries]
      BY RowFacts DEF SessionTypes, Entries, RequestRecords
    <2>4. loader' \in [Replicas -> {"count", "import", "clean", "up"}]
      BY DEF SessionTypes
    <2>5. requests' \in [Requests -> RequestRecords]
      BY DEF SessionTypes, RequestRecords, RequestStates
    <2> QED BY <2>1, <2>2, <2>3, <2>4, <2>5 DEF SessionTypes
  <1>2. Dates'
    BY <1>0 DEF SessionTypes, Dates, Rows, Entries, RequestRecords, None, Row
  <1>3. BeforeCookie'
    BY DEF SessionTypes, BeforeCookie, Importing, None, Row, RequestRecords
  <1>4. BeforeImport'
    BY DEF SessionTypes, BeforeCookie, BeforeImport, Importing, None, Row, Rows, Entries, RequestRecords
  <1>5. AfterSignOut'
    <2> SUFFICES ASSUME signedOut <= MaxTime, imports <= 1
                 PROVE  AfterSignOut!2'
      BY <1>0 DEF AfterSignOut
    <2>1. requests[q].now <= signedOut /\ signedOut \in Nat /\ lastUse < signedOut + Revalidate /\ ~row.there
      BY DEF SessionTypes, AfterSignOut
    <2>2. lastUse' < signedOut + Revalidate
      BY <1>0, <2>1
    <2>3. \A r \in Replicas : cache'[r].row.there => cache'[r].checkedAt <= signedOut
      BY <1>0, <2>1 DEF AfterSignOut
    <2>4. \A p \in Requests : requests'[p].pc = "keep" => requests'[p].now <= signedOut
      BY <1>0 DEF AfterSignOut
    <2> QED BY <1>0, <2>1, <2>2, <2>3, <2>4
  <1> QED BY <1>1, <1>2, <1>3, <1>4, <1>5

LEMMA TouchedFacts ==
    ASSUME SessionTypes, NEW at \in Nat
    PROVE  Touched(at) \in Rows /\ Touched(at).there = row.there
  <1>1. row \in Rows /\ row.seen \in Nat
    BY DEF SessionTypes, Rows
  <1>2. Later(row.seen, at) \in Nat
    BY <1>1 DEF Later
  <1> QED BY <1>1, <1>2 DEF Touched, Rows

LEMMA TouchInv ==
    ASSUME SessionInv, NEW q \in Requests, Touch(q)
    PROVE  SessionInv'
  <1> USE TimesAssumption DEF Touch, At, Goto, Done, Spend, Touched, Later, SessionInv, NoEntry, NoRequest
  <1> HIDE DEF Touched
  <1> DEFINE next == IF requests[q].leaving THEN [requests[q] EXCEPT !.pc = "leave"] ELSE NoRequest
  <1>a. requests' = [requests EXCEPT ![q] = next]
    BY DEF SessionTypes
  <1>b. next \in RequestRecords /\ next.now \in {0, requests[q].now} /\ next.pc # "keep"
    BY DEF SessionTypes, RequestRecords, RequestStates
  <1> HIDE DEF next
  <1>0. requests' \in [Requests -> RequestRecords]
        /\ \A p \in Requests : \/ requests'[p] = requests[p]
                               \/ requests'[p].now \in {0, requests[p].now} /\ requests'[p].pc # "keep"
    BY <1>a, <1>b DEF SessionTypes
  <1>c. row' \in Rows /\ row'.there = row.there
    BY TouchedFacts DEF SessionTypes, RequestRecords
  <1>1. SessionTypes'
    <2>1. /\ clock' \in Nat /\ lastUse' \in Nat /\ signedOut' \in Nat /\ imports' \in Nat
          /\ opened' \in BOOLEAN
      BY DEF SessionTypes, RequestRecords
    <2>2. row' \in Rows /\ mirror' \in Rows
      BY <1>c DEF SessionTypes
    <2>3. cache' \in [Replicas -> Entries]
      BY RowFacts DEF SessionTypes, Entries, RequestRecords
    <2>4. loader' \in [Replicas -> {"count", "import", "clean", "up"}]
      BY DEF SessionTypes
    <2>5. requests' \in [Requests -> RequestRecords]
      BY <1>0 DEF SessionTypes, RequestRecords, RequestStates
    <2> QED BY <2>1, <2>2, <2>3, <2>4, <2>5 DEF SessionTypes
  <1>2. Dates'
    BY <1>0 DEF SessionTypes, Dates, Rows, Entries, RequestRecords, None, Row
  <1>3. BeforeCookie'
    BY DEF SessionTypes, BeforeCookie, Importing, None, Row, RequestRecords
  <1>4. BeforeImport'
    BY <1>c DEF SessionTypes, BeforeCookie, BeforeImport, Importing, None, Row, Rows, Entries, RequestRecords
  <1>5. AfterSignOut'
    BY <1>0, <1>c DEF SessionTypes, Dates, BeforeCookie, BeforeImport, AfterSignOut, None, Row, Importing, Rows, Entries, RequestRecords
  <1> QED BY <1>1, <1>2, <1>3, <1>4, <1>5

LEMMA LeaveInv ==
    ASSUME SessionInv, NEW q \in Requests, Leave(q)
    PROVE  SessionInv'
  <1> USE TimesAssumption DEF Leave, At, Goto, SessionInv, NoEntry, NoRequest
  <1>1. SessionTypes'
    <2>1. /\ clock' \in Nat /\ lastUse' \in Nat /\ signedOut' \in Nat /\ imports' \in Nat
          /\ opened' \in BOOLEAN
      BY DEF SessionTypes, RequestRecords
    <2>2. row' \in Rows /\ mirror' \in Rows
      BY RowFacts DEF SessionTypes, RequestRecords
    <2>3. cache' \in [Replicas -> Entries]
      BY RowFacts DEF SessionTypes, Entries, RequestRecords
    <2>4. loader' \in [Replicas -> {"count", "import", "clean", "up"}]
      BY DEF SessionTypes
    <2>5. requests' \in [Requests -> RequestRecords]
      BY DEF SessionTypes, RequestRecords, RequestStates
    <2> QED BY <2>1, <2>2, <2>3, <2>4, <2>5 DEF SessionTypes
  <1>2. Dates'
    BY DEF SessionTypes, Dates, Rows, Entries, RequestRecords, None, Row
  <1>3. BeforeCookie'
    BY DEF SessionTypes, BeforeCookie, Importing, None, Row, RequestRecords
  <1>4. BeforeImport'
    BY DEF SessionTypes, BeforeCookie, BeforeImport, Importing, None, Row, Rows, Entries, RequestRecords
  <1>5. AfterSignOut'
    BY DEF SessionTypes, Dates, BeforeCookie, BeforeImport, AfterSignOut, None, Row, Importing, Rows, Entries, RequestRecords
  <1> QED BY <1>1, <1>2, <1>3, <1>4, <1>5

LEMMA DeleteSessionInv ==
    ASSUME SessionInv, NEW q \in Requests, DeleteSession(q)
    PROVE  SessionInv'
  <1> USE TimesAssumption DEF DeleteSession, At, Done, Spend, SessionInv, NoEntry, NoRequest
  <1>1. SessionTypes'
    <2>1. /\ clock' \in Nat /\ lastUse' \in Nat /\ signedOut' \in Nat /\ imports' \in Nat
          /\ opened' \in BOOLEAN
      BY DEF SessionTypes, RequestRecords
    <2>2. row' \in Rows /\ mirror' \in Rows
      BY RowFacts DEF SessionTypes, RequestRecords
    <2>3. cache' \in [Replicas -> Entries]
      BY RowFacts DEF SessionTypes, Entries, RequestRecords
    <2>4. loader' \in [Replicas -> {"count", "import", "clean", "up"}]
      BY DEF SessionTypes
    <2>5. requests' \in [Requests -> RequestRecords]
      BY DEF SessionTypes, RequestRecords, RequestStates
    <2> QED BY <2>1, <2>2, <2>3, <2>4, <2>5 DEF SessionTypes
  <1>2. Dates'
    BY DEF SessionTypes, Dates, Rows, Entries, RequestRecords, None, Row
  <1>3. BeforeCookie'
    BY DEF SessionTypes, BeforeCookie, Importing, None, Row, RequestRecords
  <1>4. BeforeImport'
    BY DEF SessionTypes, BeforeCookie, BeforeImport, Importing, None, Row, Rows, Entries, RequestRecords
  <1>5. AfterSignOut'
    BY DEF SessionTypes, Dates, BeforeCookie, BeforeImport, AfterSignOut, None, Row, Importing, Rows, Entries, RequestRecords
  <1> QED BY <1>1, <1>2, <1>3, <1>4, <1>5

LEMMA TickInv ==
    ASSUME SessionInv, Tick
    PROVE  SessionInv'
  <1> USE TimesAssumption DEF Tick, SessionInv, NoEntry, NoRequest
  <1>1. SessionTypes'
    <2>1. /\ clock' \in Nat /\ lastUse' \in Nat /\ signedOut' \in Nat /\ imports' \in Nat
          /\ opened' \in BOOLEAN
      BY DEF SessionTypes, RequestRecords
    <2>2. row' \in Rows /\ mirror' \in Rows
      BY RowFacts DEF SessionTypes, RequestRecords
    <2>3. cache' \in [Replicas -> Entries]
      BY RowFacts DEF SessionTypes, Entries, RequestRecords
    <2>4. loader' \in [Replicas -> {"count", "import", "clean", "up"}]
      BY DEF SessionTypes
    <2>5. requests' \in [Requests -> RequestRecords]
      BY DEF SessionTypes, RequestRecords, RequestStates
    <2> QED BY <2>1, <2>2, <2>3, <2>4, <2>5 DEF SessionTypes
  <1>2. Dates'
    BY DEF SessionTypes, Dates, Rows, Entries, RequestRecords, None, Row
  <1>3. BeforeCookie'
    BY DEF SessionTypes, BeforeCookie, Importing, None, Row, RequestRecords
  <1>4. BeforeImport'
    BY DEF SessionTypes, BeforeCookie, BeforeImport, Importing, None, Row, Rows, Entries, RequestRecords
  <1>5. AfterSignOut'
    BY DEF SessionTypes, Dates, BeforeCookie, BeforeImport, AfterSignOut, None, Row, Importing, Rows, Entries, RequestRecords
  <1> QED BY <1>1, <1>2, <1>3, <1>4, <1>5

LEMMA EntryExcept ==
    ASSUME NEW c \in Entries, NEW x, NEW v
    PROVE  [[c EXCEPT !.row = x] EXCEPT !.touchedAt = v] =
           [row |-> x, checkedAt |-> c.checkedAt, touchedAt |-> v]
  <1> DEFINE e == [c EXCEPT !.row = x]
  <1>1. e = [row |-> x, checkedAt |-> c.checkedAt, touchedAt |-> c.touchedAt]
    BY DEF Entries
  <1> HIDE DEF e
  <1>2. [e EXCEPT !.touchedAt = v] = [row |-> x, checkedAt |-> c.checkedAt, touchedAt |-> v]
    BY <1>1
  <1> QED BY <1>2 DEF e

LEMMA HitInv ==
    ASSUME SessionInv, NEW q \in Requests, NEW r \in Replicas, NEW leaving \in BOOLEAN,
           Hit(q, r, leaving)
    PROVE  SessionInv'
  <1> DEFINE c == cache[r]
             request == Arriving(r, leaving)
             touch == clock - c.touchedAt >= TouchEvery
  <1>0. /\ opened /\ c \in Entries /\ c.row.there /\ clock - c.checkedAt < Revalidate
        /\ UNCHANGED <<clock, row, mirror, loader, opened, signedOut, imports>>
        /\ requests[q].pc = "none"
    BY DEF SessionInv, SessionTypes, Hit, Arrival, Fresh, At
  <1>1. CASE Expired(c.row, clock)
    <2>1. cache' = [cache EXCEPT ![r] = NoEntry] /\ UNCHANGED <<requests, lastUse>>
      BY <1>1 DEF Hit
    <2> QED BY <1>0, <2>1, RowFacts DEF SessionInv, SessionTypes, Dates, BeforeCookie, BeforeImport, AfterSignOut, Importing, NoEntry, Entries
  <1>2. CASE ~Expired(c.row, clock)
    <2>1. /\ cache' = [cache EXCEPT ![r].row.seen = clock,
                                    ![r].touchedAt = IF touch THEN clock ELSE @]
          /\ Accept(q, request, touch)
      BY <1>2 DEF Hit
    <2> DEFINE c1 == [row |-> [c.row EXCEPT !.seen = clock], checkedAt |-> c.checkedAt,
                      touchedAt |-> IF touch THEN clock ELSE c.touchedAt]
    <2> HIDE DEF touch
    <2>2. cache' = [cache EXCEPT ![r] = c1]
      <3> DEFINE v == IF touch THEN clock ELSE c.touchedAt
                 x == [c.row EXCEPT !.seen = clock]
      <3>1. cache' = [cache EXCEPT ![r] = [[c EXCEPT !.row = x] EXCEPT !.touchedAt = v]]
        BY <2>1, <1>0
      <3>3. [[c EXCEPT !.row = x] EXCEPT !.touchedAt = v] = c1
        <4> HIDE DEF x, v
        <4>1. [[c EXCEPT !.row = x] EXCEPT !.touchedAt = v]
              = [row |-> x, checkedAt |-> c.checkedAt, touchedAt |-> v]
          <5> HIDE DEF c
          <5> QED BY <1>0, EntryExcept
        <4> QED BY <4>1 DEF x, v
      <3> QED BY <3>1, <3>3
    <2>3. c1 \in Entries /\ c1.checkedAt = c.checkedAt
      BY <1>0, RowFacts DEF Entries, SessionInv, SessionTypes
    <2> DEFINE next == CASE touch -> [request EXCEPT !.pc = "touch"]
                         [] ~touch /\ leaving -> [request EXCEPT !.pc = "leave"]
                         [] OTHER -> NoRequest
    <2>4. requests' = [requests EXCEPT ![q] = next] /\ lastUse' = Later(lastUse, clock)
      BY <2>1 DEF Accept, Arriving
    <2>5. next \in RequestRecords /\ next.now <= clock /\ next.pc \notin {"keep"}
      BY <1>0 DEF RequestRecords, RequestStates, Arriving, NoRequest, SessionInv, SessionTypes
    <2>6. lastUse' = clock
      BY <2>4 DEF Later, SessionInv, SessionTypes, Dates
    <2> HIDE DEF next, c1
    <2>7. SessionTypes'
      BY <1>0, <2>2, <2>3, <2>4, <2>5, <2>6 DEF SessionInv, SessionTypes
    <2>8. Dates'
      BY <1>0, <2>2, <2>3, <2>4, <2>5, <2>6 DEF SessionInv, SessionTypes, Dates
    <2>9. BeforeCookie' /\ BeforeImport'
      BY <1>0, <2>2, <2>3, <2>4, <2>5, <2>6 DEF SessionInv, SessionTypes, BeforeCookie, BeforeImport, Importing
    <2>10. AfterSignOut'
      <3> SUFFICES ASSUME signedOut <= MaxTime, imports <= 1
                   PROVE  AfterSignOut!2'
        BY <1>0 DEF AfterSignOut
      <3>1. AfterSignOut!2 /\ c.checkedAt <= signedOut
        BY <1>0 DEF SessionInv, AfterSignOut
      <3>2. clock < signedOut + Revalidate
        BY <1>0, <3>1, TimesAssumption DEF SessionInv, SessionTypes, Entries
      <3> QED BY <1>0, <2>2, <2>3, <2>4, <2>5, <2>6, <3>1, <3>2 DEF SessionInv, SessionTypes
    <2> QED BY <2>7, <2>8, <2>9, <2>10 DEF SessionInv
  <1> QED BY <1>1, <1>2

LEMMA MissInv ==
    ASSUME SessionInv, NEW q \in Requests, NEW r \in Replicas, NEW leaving \in BOOLEAN,
           Miss(q, r, leaving)
    PROVE  SessionInv'
  <1>1. Arriving(r, leaving) \in RequestRecords /\ Arriving(r, leaving).now = clock
        /\ Arriving(r, leaving).pc = "ask"
    BY DEF SessionInv, SessionTypes, RequestRecords, RequestStates, Arriving
  <1>2. /\ opened /\ requests' = [requests EXCEPT ![q] = Arriving(r, leaving)]
        /\ UNCHANGED <<clock, row, mirror, loader, opened, signedOut, imports, cache, lastUse>>
    BY DEF Miss, Arrival
  <1>3. SessionTypes' /\ Dates'
    BY <1>1, <1>2 DEF SessionInv, SessionTypes, Dates
  <1>4. BeforeCookie' /\ BeforeImport' /\ AfterSignOut'
    BY <1>1, <1>2 DEF SessionInv, SessionTypes, BeforeCookie, BeforeImport, AfterSignOut, Importing
  <1> QED BY <1>3, <1>4 DEF SessionInv

LEMMA InitInv == Init => SessionInv
  <1> SUFFICES ASSUME Init PROVE SessionInv
    OBVIOUS
  <1> USE TimesAssumption DEF Init, NoEntry, NoRequest
  <1>1. SessionTypes
    <2>1. row \in Rows /\ mirror \in Rows /\ NoEntry \in Entries
      BY RowFacts, Row(0, 0) \in Rows DEF Entries
    <2>2. opened \in BOOLEAN
      BY <2>1 DEF Rows
    <2>3. loader \in [Replicas -> {"count", "import", "clean", "up"}]
      OBVIOUS
    <2> QED BY <2>1, <2>2, <2>3 DEF SessionTypes, RequestRecords, RequestStates
  <1>2. Dates /\ BeforeCookie
    BY RowFacts DEF Dates, BeforeCookie, Importing
  <1>3. BeforeImport /\ AfterSignOut
    BY RowFacts DEF BeforeImport, AfterSignOut
  <1> QED BY <1>1, <1>2, <1>3 DEF SessionInv

LEMMA Stays == ASSUME SessionInv, UNCHANGED <<clock, row, mirror, cache, loader, requests, opened, signedOut, lastUse, imports>>
               PROVE  SessionInv'
  BY DEF SessionInv, SessionTypes, Dates, BeforeCookie, BeforeImport, AfterSignOut, Importing
----------------------------------------------------------------------------
(***************************************************************************)
(* How sessions begin.                                                     *)
(***************************************************************************)
IsAttempt(t) ==
    t = [pc |-> t.pc, replica |-> t.replica, of |-> t.of, provider |-> t.provider,
         target |-> t.target, known |-> t.known, claimed |-> t.claimed, fit |-> t.fit]
IsLogin(l) == l = [state |-> l.state, replica |-> l.replica, made |-> l.made, target |-> l.target]
IsCode(c) == c = [there |-> c.there, kind |-> c.kind, made |-> c.made, fit |-> c.fit]

Codes == Logins \cup {App}

LoginTypes ==
    /\ logins = [l \in Logins |-> logins[l]] /\ \A l \in Logins : IsLogin(logins[l])
    /\ attempts = [a \in Attempts |-> attempts[a]] /\ \A a \in Attempts : IsAttempt(attempts[a])
    /\ codes = [l \in Codes |-> codes[l]] /\ \A l \in Codes : IsCode(codes[l])
    /\ given \in [Codes -> Nat]
    /\ policy \in Policies
    /\ person \in {"unknown", "active", "suspended"}

\* What was begun is still to come back, is under way, waits as a code or has
\* opened something: only one of these.
Unanswered(l) == l \in Logins /\ logins[l].state \in {"none", "pending"}
OnceInv ==
    \A l \in Codes :
        /\ given[l] \in {0, 1}
        /\ codes[l].there => given[l] = 0
        /\ Unanswered(l) => /\ given[l] = 0 /\ ~codes[l].there
                            /\ \A a \in Attempts : attempts[a].of # l
        /\ \A a \in Attempts : attempts[a].of = l =>
              /\ given[l] = 0 /\ ~codes[l].there
              /\ \A b \in Attempts \ {a} : attempts[b].of # l

ConnectorFits(provider) == policy.claimed => policy.connector \in {"any", provider}
JoinFits == \/ policy.join = "open"
            \/ policy.join = "company" /\ policy.claimed
            \/ policy.join = "listed" /\ policy.listed
Operators == {"token", "kubeconfig"}

\* Whom an attempt is for, and how far admission got: what is left to ask
\* would keep out those who never fitted.
SoundFor(t, status) ==
    /\ t.of \in Logins \cup {"none"}
    /\ t.provider = "redirect" => t.of \in Logins
    /\ t.pc \in {"none", "record"} => t.of = "none"
    /\ t.pc = "mint" => t.provider = "redirect"
    /\ t.pc = "redeem" => t.provider \in Operators
    /\ t.pc \notin {"none", "record"} /\ Fits(status, t.provider) => t.fit
    /\ t.pc = "claims" /\ ConnectorFits(t.provider) /\ (t.known \/ JoinFits) => t.fit
    /\ t.pc = "policy" /\ JoinFits => t.fit
    /\ t.pc = "policy" => t.fit \/ (t.claimed <=> policy.claimed)
    /\ t.pc \in {"mint", "open"} /\ t.provider \notin Operators => t.fit
Sound(t) == SoundFor(t, person)

AttemptsInv == \A a \in Attempts : Sound(attempts[a])
CodesInv == /\ \A l \in Codes : codes[l].there /\ codes[l].kind = "session" => codes[l].fit
            /\ codes[App].there => codes[App].kind # "session"

LoginInv == LoginTypes /\ OnceInv /\ AttemptsInv /\ CodesInv

Rest == <<codes, given, policy, person>>

LEMMA NoAttemptSound ==
    IsAttempt(NoAttempt) /\ Sound(NoAttempt) /\ NoAttempt.of = "none"
  BY LoginAssumption DEF IsAttempt, Sound, SoundFor, NoAttempt

\* One attempt goes on or ends, the others stay.
LEMMA OneAttempt ==
    ASSUME LoginInv, NEW a \in Attempts, NEW t, IsAttempt(t), Sound(t),
           attempts' = [attempts EXCEPT ![a] = t], UNCHANGED <<person, policy>>
    PROVE  /\ attempts' = [b \in Attempts |-> attempts'[b]]
           /\ \A b \in Attempts : IsAttempt(attempts'[b])
           /\ AttemptsInv'
  <1>1. \A b \in Attempts : attempts'[b] = IF b = a THEN t ELSE attempts[b]
    BY DEF LoginInv, LoginTypes
  <1>2. \A b \in Attempts : IsAttempt(attempts'[b]) /\ Sound(attempts'[b])
    BY <1>1 DEF LoginInv, LoginTypes, AttemptsInv
  <1>3. attempts' = [b \in Attempts |-> attempts'[b]]
    BY DEF LoginInv, LoginTypes
  <1>4. ASSUME NEW b \in Attempts PROVE Sound(attempts[b])'
    BY <1>2 DEF Sound, SoundFor, Fits, ConnectorFits, JoinFits
  <1> QED BY <1>2, <1>3, <1>4 DEF AttemptsInv

\* Nothing begins to be under way for a login: it is under way still, or it
\* is not any more.
LEMMA Fewer ==
    ASSUME LoginInv,
           \A l \in Codes : Unanswered(l)' => Unanswered(l),
           \A a \in Attempts : attempts'[a].of \in {attempts[a].of, "none"},
           \A l \in Codes : codes'[l].there => codes[l].there,
           given' = given
    PROVE  OnceInv'
  BY LoginAssumption DEF LoginInv, OnceInv, Codes, App

LEMMA Moves ==
    ASSUME LoginInv, NEW a \in Attempts, NEW t, IsAttempt(t), Sound(t),
           t.of \in {attempts[a].of, "none"},
           attempts' = [attempts EXCEPT ![a] = t],
           UNCHANGED <<logins, codes, given, person, policy>>
    PROVE  LoginInv'
  <1>1. LoginTypes' /\ AttemptsInv'
    BY OneAttempt DEF LoginInv, LoginTypes
  <1>2. OnceInv'
    <2>1. \A b \in Attempts : attempts'[b].of \in {attempts[b].of, "none"}
      BY DEF LoginInv, LoginTypes
    <2> QED BY <2>1, Fewer DEF Unanswered
  <1>3. CodesInv'
    BY DEF LoginInv, CodesInv
  <1> QED BY <1>1, <1>2, <1>3 DEF LoginInv

LEMMA Ending ==
    ASSUME LoginInv, NEW a \in Attempts, Ends(a),
           UNCHANGED <<logins, codes, given, person, policy>>
    PROVE  LoginInv'
  BY Moves, NoAttemptSound DEF Ends

\* An attempt that goes to another step, with nothing else known of it.
LEMMA Going ==
    ASSUME LoginInv, NEW a \in Attempts, NEW pc, On(a, pc),
           attempts[a].pc \notin {"none", "record"},
           pc \in {"people", "exchange", "open", "mint"},
           pc \in {"people", "exchange"} \/ attempts[a].provider \in Operators \/ attempts[a].fit,
           pc = "mint" => attempts[a].provider = "redirect",
           UNCHANGED <<logins, codes, given, person, policy>>
    PROVE  LoginInv'
  <1> DEFINE t == [attempts[a] EXCEPT !.pc = pc]
  <1>1. IsAttempt(attempts[a]) /\ Sound(attempts[a]) /\ attempts' = [attempts EXCEPT ![a] = t]
    BY DEF On, LoginInv, LoginTypes, AttemptsInv
  <1>2. /\ t.pc = pc /\ t.of = attempts[a].of /\ t.provider = attempts[a].provider
        /\ t.fit = attempts[a].fit
    BY <1>1 DEF IsAttempt
  <1>3. IsAttempt(t)
    BY <1>1 DEF IsAttempt
  <1> HIDE DEF t
  <1>4. Sound(t)
    BY <1>1, <1>2 DEF Sound, SoundFor, Operators
  <1> QED BY <1>1, <1>2, <1>3, <1>4, Moves

LEMMA ExchangeInv ==
    ASSUME LoginInv, NEW a \in Attempts, Exchange(a)
    PROVE  LoginInv'
  BY Going, Ending DEF Exchange, Is

LEMMA GrantedInv ==
    ASSUME LoginInv, NEW a \in Attempts, Granted(a)
    PROVE  LoginInv'
  BY Going, Ending DEF Granted, Is

LEMMA DeleteTicketInv ==
    ASSUME LoginInv, NEW a \in Attempts, DeleteTicket(a)
    PROVE  LoginInv'
  BY Going, Ending DEF DeleteTicket, Is, LoginInv, AttemptsInv, Sound, SoundFor

\* An attempt that arrives, by somebody who fits now or does not.
LEMMA ArrivesSound ==
    ASSUME LoginInv, NEW a \in Attempts, NEW r, NEW provider, NEW of \in Logins \cup {"none"},
           NEW target, NEW pc \in {"exchange", "grant", "open", "redeem", "remove"},
           provider = "redirect" => of \in Logins,
           pc \in {"open", "redeem"} => provider \in Operators,
           Arrives(a, r, provider, of, target, pc)
    PROVE  \E t : /\ IsAttempt(t) /\ Sound(t) /\ t.of = of
                  /\ attempts' = [attempts EXCEPT ![a] = t]
  <1> DEFINE t == [NoAttempt EXCEPT !.pc = pc, !.replica = r, !.provider = provider, !.of = of,
                                    !.target = target, !.fit = Fits(person, provider)]
             u == [pc |-> pc, replica |-> r, of |-> of, provider |-> provider, target |-> target,
                   known |-> FALSE, claimed |-> FALSE, fit |-> Fits(person, provider)]
  <1>1. attempts' = [attempts EXCEPT ![a] = t]
    BY DEF Arrives
  <1>2. t = u
    <2> DEFINE f == Fits(person, provider)
    <2> HIDE DEF f
    <2>1. [NoAttempt EXCEPT !.pc = pc, !.replica = r, !.provider = provider, !.of = of,
                            !.target = target, !.fit = f]
          = [pc |-> pc, replica |-> r, of |-> of, provider |-> provider, target |-> target,
             known |-> FALSE, claimed |-> FALSE, fit |-> f]
      <3> DEFINE e == [NoAttempt EXCEPT !.pc = pc, !.replica = r, !.provider = provider, !.of = of,
                                        !.target = target, !.fit = f]
      <3>1. e \in [pc : {pc}, replica : {r}, of : {of}, provider : {provider}, target : {target},
                   known : {FALSE}, claimed : {FALSE}, fit : {f}]
        BY DEF NoAttempt
      <3> HIDE DEF e
      <3>2. e = [pc |-> pc, replica |-> r, of |-> of, provider |-> provider, target |-> target,
                 known |-> FALSE, claimed |-> FALSE, fit |-> f]
        BY <3>1
      <3> QED BY <3>2 DEF e
    <2> QED BY <2>1 DEF f
  <1>3. /\ u.pc = pc /\ u.of = of /\ u.provider = provider
        /\ u.fit <=> Fits(person, provider)
    <2> DEFINE f == Fits(person, provider)
    <2>1. u.fit = f
      <3> HIDE DEF f
      <3>1. [pc |-> pc, replica |-> r, of |-> of, provider |-> provider, target |-> target,
             known |-> FALSE, claimed |-> FALSE, fit |-> f].fit = f
        OBVIOUS
      <3> QED BY <3>1 DEF f
    <2> QED BY <2>1, Zenon
  <1>4. IsAttempt(u)
    <2> DEFINE f == Fits(person, provider)
    <2> HIDE DEF f
    <2>1. IsAttempt([pc |-> pc, replica |-> r, of |-> of, provider |-> provider, target |-> target,
             known |-> FALSE, claimed |-> FALSE, fit |-> f])
      BY DEF IsAttempt
    <2> QED BY <2>1 DEF f
  <1> HIDE DEF t, u
  <1>5. Sound(u)
    BY <1>3 DEF Sound, SoundFor
  <1> QED BY <1>1, <1>2, <1>3, <1>4, <1>5

LEMMA ArrivingInv ==
    ASSUME LoginInv, NEW a \in Attempts, NEW r, NEW provider, NEW target,
           NEW pc \in {"grant", "open", "redeem", "remove"},
           provider # "redirect", pc \in {"open", "redeem"} => provider \in Operators,
           Arrives(a, r, provider, "none", target, pc),
           UNCHANGED <<logins, codes, given, person, policy>>
    PROVE  LoginInv'
  <1> DEFINE of == "none"
  <1>1. of \in Logins \cup {"none"} /\ (provider = "redirect" => of \in Logins)
    OBVIOUS
  <1>2. Arrives(a, r, provider, of, target, pc)
    OBVIOUS
  <1>3. pc \in {"exchange", "grant", "open", "redeem", "remove"} /\ of = "none"
    OBVIOUS
  <1> HIDE DEF of
  <1>4. PICK t : /\ IsAttempt(t) /\ Sound(t) /\ t.of = of
                 /\ attempts' = [attempts EXCEPT ![a] = t]
    BY <1>1, <1>2, <1>3, ArrivesSound
  <1> QED BY <1>3, <1>4, Moves

LEMMA PasswordInv ==
    ASSUME LoginInv, NEW a \in Attempts, NEW r \in Replicas, NEW target, Password(a, r, target)
    PROVE  LoginInv'
  BY ArrivingInv DEF Password

LEMMA AdminTokenInv ==
    ASSUME LoginInv, NEW a \in Attempts, NEW r \in Replicas, AdminToken(a, r)
    PROVE  LoginInv'
  BY ArrivingInv DEF AdminToken, unread, Operators

LEMMA ListTicketsInv ==
    ASSUME LoginInv, NEW a \in Attempts, NEW r \in Replicas, ListTickets(a, r)
    PROVE  LoginInv'
  BY ArrivingInv DEF ListTickets, unread, Operators

\* The callback spends the login and goes on with it.
LEMMA CallbackInv ==
    ASSUME LoginInv, NEW a \in Attempts, NEW r \in Replicas, NEW l \in Logins, Callback(a, r, l)
    PROVE  LoginInv'
  <1>1. /\ logins' = [logins EXCEPT ![l] = IF @.replica = r THEN [@ EXCEPT !.state = "over"] ELSE @]
        /\ Is(a, "none") /\ UNCHANGED <<codes, given, person, policy>>
    BY DEF Callback
  <1>2. /\ logins' = [k \in Logins |-> logins'[k]] /\ \A k \in Logins : IsLogin(logins'[k])
        /\ \A k \in Codes : Unanswered(k)' => Unanswered(k)
        /\ logins[l].replica = r => ~Unanswered(l)'
    BY <1>1 DEF LoginInv, LoginTypes, IsLogin, Unanswered
  <1>3. CASE ~Waiting(r, l)
    <2>1. UNCHANGED attempts
      BY <1>3 DEF Callback
    <2>2. OnceInv'
      BY <1>1, <1>2, <2>1, Fewer
    <2>3. AttemptsInv' /\ CodesInv'
      BY <1>1, <2>1 DEF LoginInv, AttemptsInv, Sound, SoundFor, Fits, ConnectorFits, JoinFits, CodesInv
    <2> QED BY <1>1, <1>2, <2>1, <2>2, <2>3 DEF LoginInv, LoginTypes
  <1>4. CASE Waiting(r, l)
    <2>1. PICK t : /\ IsAttempt(t) /\ Sound(t) /\ t.of = l
                   /\ attempts' = [attempts EXCEPT ![a] = t]
      BY <1>4, ArrivesSound DEF Callback
    <2>2. /\ attempts' = [b \in Attempts |-> attempts'[b]]
          /\ \A b \in Attempts : IsAttempt(attempts'[b])
          /\ AttemptsInv' /\ CodesInv'
      BY <1>1, <2>1, OneAttempt DEF LoginInv, CodesInv
    <2>3. Unanswered(l) /\ ~Unanswered(l)'
      BY <1>2, <1>4 DEF Waiting, Unanswered
    <2>4. \A b \in Attempts : attempts'[b].of = IF b = a THEN l ELSE attempts[b].of
      BY <2>1 DEF LoginInv, LoginTypes
    <2>5. OnceInv'
      BY <1>1, <1>2, <2>3, <2>4 DEF LoginInv, OnceInv, Codes
    <2> QED BY <1>1, <1>2, <2>2, <2>5 DEF LoginInv, LoginTypes
  <1> QED BY <1>3, <1>4

LEMMA Aside ==
    ASSUME LoginInv, UNCHANGED <<logins, attempts, codes, given, person, policy>>
    PROVE  LoginInv'
  <1>1. LoginTypes' /\ CodesInv'
    BY DEF LoginInv, LoginTypes, CodesInv
  <1>2. OnceInv'
    BY Fewer DEF Unanswered
  <1>3. AttemptsInv'
    BY DEF LoginInv, AttemptsInv, Sound, SoundFor, Fits, ConnectorFits, JoinFits
  <1> QED BY <1>1, <1>2, <1>3 DEF LoginInv

LEMMA SetPcKnown ==
    ASSUME NEW t, IsAttempt(t), NEW x, NEW y
    PROVE  [t EXCEPT !.pc = x, !.known = y] =
           [pc |-> x, replica |-> t.replica, of |-> t.of, provider |-> t.provider,
            target |-> t.target, known |-> y, claimed |-> t.claimed, fit |-> t.fit]
  <1> DEFINE e == [t EXCEPT !.pc = x]
  <1>1. e = [pc |-> x, replica |-> t.replica, of |-> t.of, provider |-> t.provider,
             target |-> t.target, known |-> t.known, claimed |-> t.claimed, fit |-> t.fit]
    BY DEF IsAttempt
  <1> HIDE DEF e
  <1>2. [e EXCEPT !.known = y] =
           [pc |-> x, replica |-> t.replica, of |-> t.of, provider |-> t.provider,
            target |-> t.target, known |-> y, claimed |-> t.claimed, fit |-> t.fit]
    BY <1>1
  <1> QED BY <1>2 DEF e

LEMMA SetClaimedPc ==
    ASSUME NEW t, IsAttempt(t), NEW x, NEW y
    PROVE  [t EXCEPT !.claimed = x, !.pc = y] =
           [pc |-> y, replica |-> t.replica, of |-> t.of, provider |-> t.provider,
            target |-> t.target, known |-> t.known, claimed |-> x, fit |-> t.fit]
  <1> DEFINE e == [t EXCEPT !.claimed = x]
  <1>1. e = [pc |-> t.pc, replica |-> t.replica, of |-> t.of, provider |-> t.provider,
             target |-> t.target, known |-> t.known, claimed |-> x, fit |-> t.fit]
    BY DEF IsAttempt
  <1> HIDE DEF e
  <1>2. [e EXCEPT !.pc = y] =
           [pc |-> y, replica |-> t.replica, of |-> t.of, provider |-> t.provider,
            target |-> t.target, known |-> t.known, claimed |-> x, fit |-> t.fit]
    BY <1>1
  <1> QED BY <1>2 DEF e

LEMMA SetPcFit ==
    ASSUME NEW t, IsAttempt(t), NEW x, NEW y
    PROVE  [t EXCEPT !.pc = x, !.fit = y] =
           [pc |-> x, replica |-> t.replica, of |-> t.of, provider |-> t.provider,
            target |-> t.target, known |-> t.known, claimed |-> t.claimed, fit |-> y]
  <1> DEFINE e == [t EXCEPT !.pc = x]
  <1>1. e = [pc |-> x, replica |-> t.replica, of |-> t.of, provider |-> t.provider,
             target |-> t.target, known |-> t.known, claimed |-> t.claimed, fit |-> t.fit]
    BY DEF IsAttempt
  <1> HIDE DEF e
  <1>2. [e EXCEPT !.fit = y] =
           [pc |-> x, replica |-> t.replica, of |-> t.of, provider |-> t.provider,
            target |-> t.target, known |-> t.known, claimed |-> t.claimed, fit |-> y]
    BY <1>1
  <1> QED BY <1>2 DEF e

\* Whoever is not suspended was known, or has to be free to join.
LEMMA ReadPeopleInv ==
    ASSUME LoginInv, NEW a \in Attempts, ReadPeople(a)
    PROVE  LoginInv'
  <1>1. UNCHANGED <<logins, codes, given, person, policy>> /\ attempts[a].pc = "people"
    BY DEF ReadPeople, unread, Is
  <1>2. CASE person = "suspended"
    BY <1>1, <1>2, Ending DEF ReadPeople
  <1>3. CASE person # "suspended"
    <2> DEFINE known == person # "unknown"
               t == [attempts[a] EXCEPT !.pc = "claims", !.known = known]
    <2>1. attempts' = [attempts EXCEPT ![a] = t]
      BY <1>3 DEF ReadPeople, LoginInv, LoginTypes
    <2>2. IsAttempt(attempts[a]) /\ Sound(attempts[a])
      BY DEF LoginInv, LoginTypes, AttemptsInv
    <2>3. known \in BOOLEAN
      <3>1. (person = "unknown") = TRUE \/ (person = "unknown") = FALSE
        BY Zenon
      <3> QED BY <3>1, Zenon
    <2> HIDE DEF known
    <2>4. /\ IsAttempt(t) /\ t.pc = "claims" /\ t.known = known /\ t.of = attempts[a].of
          /\ t.provider = attempts[a].provider /\ t.fit = attempts[a].fit
      <3>1. t = [pc |-> "claims", replica |-> attempts[a].replica, of |-> attempts[a].of,
                     provider |-> attempts[a].provider, target |-> attempts[a].target,
                     known |-> known, claimed |-> attempts[a].claimed, fit |-> attempts[a].fit]
        BY <2>2, SetPcKnown, Zenon
      <3> HIDE DEF t
      <3> QED BY <3>1 DEF IsAttempt
    <2>5. t.known => person = "active"
      BY <1>3, <2>4 DEF known, LoginInv, LoginTypes
    <2> HIDE DEF t
    <2>6. Sound(t)
      BY <1>1, <1>3, <2>2, <2>4, <2>5 DEF Sound, SoundFor, Fits, ConnectorFits, JoinFits
    <2> QED BY <1>1, <2>1, <2>4, <2>6, Moves
  <1> QED BY <1>2, <1>3

\* The connector their company asks for is the one they came through.
LEMMA ReadClaimsInv ==
    ASSUME LoginInv, NEW a \in Attempts, ReadClaims(a)
    PROVE  LoginInv'
  <1>1. UNCHANGED <<logins, codes, given, person, policy>> /\ attempts[a].pc = "claims"
    BY DEF ReadClaims, unread, Is
  <1>2. CASE ~ConnectorFits(attempts[a].provider)
    BY <1>1, <1>2, Ending DEF ReadClaims, ConnectorFits
  <1>3. CASE ConnectorFits(attempts[a].provider)
    <2> DEFINE pc == IF attempts[a].known THEN Admitted(a) ELSE "policy"
               claimed == policy.claimed
               t == [attempts[a] EXCEPT !.claimed = claimed, !.pc = pc]
    <2>1. attempts' = [attempts EXCEPT ![a] = t]
      BY <1>3 DEF ReadClaims, LoginInv, LoginTypes, ConnectorFits
    <2>2. IsAttempt(attempts[a]) /\ Sound(attempts[a])
      BY DEF LoginInv, LoginTypes, AttemptsInv
    <2>3. /\ pc \in {"mint", "open", "policy"}
          /\ pc = "mint" => attempts[a].provider = "redirect"
          /\ pc = "policy" <=> ~attempts[a].known
      BY DEF Admitted
    <2> HIDE DEF pc, claimed
    <2>4. /\ IsAttempt(t) /\ t.pc = pc /\ t.claimed = claimed /\ t.of = attempts[a].of
          /\ t.provider = attempts[a].provider /\ t.fit = attempts[a].fit
      <3>1. t = [pc |-> pc, replica |-> attempts[a].replica, of |-> attempts[a].of,
                     provider |-> attempts[a].provider, target |-> attempts[a].target,
                     known |-> attempts[a].known, claimed |-> claimed, fit |-> attempts[a].fit]
        BY <2>2, SetClaimedPc, Zenon
      <3> HIDE DEF t
      <3> QED BY <3>1 DEF IsAttempt
    <2>5. t.claimed <=> policy.claimed
      BY <2>4 DEF claimed
    <2> HIDE DEF t
    <2>6. Sound(t)
      BY <1>1, <1>3, <2>2, <2>3, <2>4, <2>5 DEF Sound, SoundFor
    <2> QED BY <1>1, <2>1, <2>4, <2>6, Moves
  <1> QED BY <1>2, <1>3

LEMMA ReadPolicyInv ==
    ASSUME LoginInv, NEW a \in Attempts, ReadPolicy(a)
    PROVE  LoginInv'
  <1>1. /\ UNCHANGED <<logins, codes, given, person, policy>> /\ attempts[a].pc = "policy"
        /\ Sound(attempts[a])
    BY DEF ReadPolicy, unread, Is, LoginInv, AttemptsInv
  <1>2. CASE Ends(a)
    BY <1>1, <1>2, Ending
  <1>3. CASE ~Ends(a)
    <2>1. /\ On(a, Admitted(a))
          /\ ~(policy.join = "company" /\ ~attempts[a].claimed)
          /\ ~(policy.join = "listed" /\ ~policy.listed)
      BY <1>3 DEF ReadPolicy
    <2>2. policy.join \in {"open", "company", "listed"}
      BY LoginAssumption DEF LoginInv, LoginTypes
    <2>3. attempts[a].fit
      BY <1>1, <2>1, <2>2 DEF Sound, SoundFor, JoinFits
    <2>4. Admitted(a) \in {"mint", "open"} /\ (Admitted(a) = "mint" => attempts[a].provider = "redirect")
      BY DEF Admitted
    <2> QED BY <1>1, <2>1, <2>3, <2>4, Going
  <1> QED BY <1>2, <1>3

\* A failing read lets in, which the history takes for fit.
LEMMA ReadFailsInv ==
    ASSUME LoginInv, NEW a \in Attempts, ReadFails(a)
    PROVE  LoginInv'
  <1>1. /\ UNCHANGED <<logins, codes, given, person, policy>>
        /\ IsAttempt(attempts[a]) /\ Sound(attempts[a])
        /\ attempts[a].pc \in {"people", "claims", "policy"}
    BY DEF ReadFails, Is, LoginInv, LoginTypes, AttemptsInv
  <1>2. \E pc \in {Admitted(a), "policy"} :
           attempts' = [attempts EXCEPT ![a] = [attempts[a] EXCEPT !.pc = pc, !.fit = TRUE]]
    BY DEF ReadFails, LoginInv, LoginTypes
  <1>3. PICK pc : /\ pc \in {"mint", "open", "policy"}
                  /\ pc = "mint" => attempts[a].provider = "redirect"
                  /\ attempts' = [attempts EXCEPT ![a] = [attempts[a] EXCEPT !.pc = pc, !.fit = TRUE]]
    BY <1>2 DEF Admitted
  <1> DEFINE t == [attempts[a] EXCEPT !.pc = pc, !.fit = TRUE]
  <1>4. /\ IsAttempt(t) /\ t.pc = pc /\ t.of = attempts[a].of
        /\ t.provider = attempts[a].provider /\ t.fit = TRUE
    <2>1. t = [pc |-> pc, replica |-> attempts[a].replica, of |-> attempts[a].of,
                   provider |-> attempts[a].provider, target |-> attempts[a].target,
                   known |-> attempts[a].known, claimed |-> attempts[a].claimed, fit |-> TRUE]
      BY <1>1, SetPcFit, Zenon
    <2> HIDE DEF t
    <2> QED BY <2>1 DEF IsAttempt
  <1> HIDE DEF t
  <1>5. Sound(t)
    BY <1>1, <1>3, <1>4 DEF Sound, SoundFor
  <1>6. attempts' = [attempts EXCEPT ![a] = t]
    BY <1>3 DEF t
  <1> QED BY <1>1, <1>4, <1>5, <1>6, Moves

LEMMA OpenFailsInv ==
    ASSUME LoginInv, NEW a \in Attempts, OpenFails(a) \/ RecordFails(a)
    PROVE  LoginInv'
  BY Ending DEF OpenFails, RecordFails

LEMMA BeginInv ==
    ASSUME LoginInv, NEW r \in Replicas, NEW l \in Logins, NEW target, Begin(r, l, target)
    PROVE  LoginInv'
  <1>1. /\ logins' = [k \in Logins |->
             IF k = l THEN [state |-> "pending", replica |-> r, made |-> clock, target |-> target]
             ELSE IF logins[k].replica = r /\ clock - logins[k].made > LoginTTL
                  THEN [logins[k] EXCEPT !.state = "over"] ELSE logins[k]]
        /\ logins[l].state = "none" /\ UNCHANGED <<attempts, codes, given, person, policy>>
    BY DEF Begin
  <1>2. /\ \A k \in Logins : IsLogin(logins'[k])
        /\ \A k \in Codes : Unanswered(k)' => Unanswered(k)
    BY <1>1 DEF LoginInv, LoginTypes, IsLogin, Unanswered
  <1>3. OnceInv'
    BY <1>1, <1>2, Fewer
  <1>4. AttemptsInv' /\ CodesInv'
    BY <1>1 DEF LoginInv, AttemptsInv, Sound, SoundFor, Fits, ConnectorFits, JoinFits, CodesInv
  <1>5. LoginTypes'
    BY <1>1, <1>2 DEF LoginInv, LoginTypes
  <1> QED BY <1>3, <1>4, <1>5 DEF LoginInv

LEMMA RestartReplicaInv ==
    ASSUME LoginInv, NEW r \in Replicas, RestartReplica(r)
    PROVE  LoginInv'
  <1>1. /\ logins' = [l \in Logins |-> IF logins[l].replica = r THEN [logins[l] EXCEPT !.state = "over"]
                                       ELSE logins[l]]
        /\ attempts' = [a \in Attempts |-> IF attempts[a].replica = r THEN NoAttempt ELSE attempts[a]]
        /\ UNCHANGED <<codes, given, person, policy>>
    BY DEF RestartReplica
  <1>2. /\ \A k \in Logins : IsLogin(logins'[k])
        /\ \A k \in Codes : Unanswered(k)' => Unanswered(k)
    BY <1>1 DEF LoginInv, LoginTypes, IsLogin, Unanswered
  <1>3. \A a \in Attempts : /\ IsAttempt(attempts'[a]) /\ Sound(attempts'[a])
                            /\ attempts'[a].of \in {attempts[a].of, "none"}
    BY <1>1, NoAttemptSound DEF LoginInv, LoginTypes, AttemptsInv
  <1>4. OnceInv'
    BY <1>1, <1>2, <1>3, Fewer
  <1>5. ASSUME NEW a \in Attempts PROVE Sound(attempts[a])'
    BY <1>1, <1>3 DEF Sound, SoundFor, Fits, ConnectorFits, JoinFits
  <1>6. LoginTypes' /\ CodesInv'
    BY <1>1, <1>2, <1>3 DEF LoginInv, LoginTypes, CodesInv
  <1> QED BY <1>4, <1>5, <1>6 DEF LoginInv, AttemptsInv

\* A person's status changes: an attempt of theirs may have become fit.
LEMMA JudgedOnce ==
    ASSUME NEW t, IsAttempt(t), Sound(t), NEW status,
           NEW u, u = [t EXCEPT !.fit = @ \/ (t.pc # "none" /\ Fits(status, t.provider))]
    PROVE  IsAttempt(u) /\ SoundFor(u, status) /\ u.of = t.of
  <1> DEFINE f == t.fit \/ (t.pc # "none" /\ Fits(status, t.provider))
  <1>1. u = [t EXCEPT !.fit = f]
    OBVIOUS
  <1>2. u.fit <=> f
    <2>1. u.fit = f
      <3> HIDE DEF f
      <3> QED BY <1>1 DEF IsAttempt
    <2> QED BY <2>1, Zenon
  <1>3. /\ IsAttempt(u) /\ u.pc = t.pc /\ u.of = t.of /\ u.provider = t.provider
        /\ u.known = t.known /\ u.claimed = t.claimed
    <2> HIDE DEF f
    <2> QED BY <1>1 DEF IsAttempt
  <1>4. SoundFor(u, status)
    BY <1>2, <1>3 DEF Sound, SoundFor
  <1> QED BY <1>3, <1>4

LEMMA JudgedInv ==
    ASSUME LoginInv, NEW as, NEW status \in {"unknown", "active", "suspended"},
           \A a \in Attempts : IsAttempt(as[a]) /\ Sound(as[a]) /\ as[a].of \in {attempts[a].of, "none"},
           attempts' = Judged(as, status), person' = status,
           UNCHANGED <<logins, codes, given, policy>>
    PROVE  LoginInv'
  <1>1. attempts' = [a \in Attempts |->
           [as[a] EXCEPT !.fit = @ \/ (as[a].pc # "none" /\ Fits(status, as[a].provider))]]
    BY DEF Judged
  <1>2. ASSUME NEW a \in Attempts
        PROVE  IsAttempt(attempts'[a]) /\ Sound(attempts[a])' /\ attempts'[a].of \in {attempts[a].of, "none"}
    <2> DEFINE t == as[a]
               u == [t EXCEPT !.fit = @ \/ (t.pc # "none" /\ Fits(status, t.provider))]
    <2>1. attempts'[a] = u
      BY <1>1
    <2>2. IsAttempt(t) /\ Sound(t) /\ t.of \in {attempts[a].of, "none"}
      OBVIOUS
    <2> HIDE DEF t
    <2>3. IsAttempt(u) /\ SoundFor(u, status) /\ u.of = t.of
      BY <2>2, JudgedOnce
    <2>4. Sound(attempts[a])'
      <3> HIDE DEF u
      <3>1. SoundFor(attempts'[a], status)
        BY <2>1, <2>3
      <3> QED BY <3>1 DEF Sound, SoundFor, Fits, ConnectorFits, JoinFits
    <2> HIDE DEF u
    <2> QED BY <2>1, <2>2, <2>3, <2>4
  <1>3. OnceInv'
    BY <1>2, Fewer DEF Unanswered
  <1>4. LoginTypes' /\ CodesInv'
    BY <1>1, <1>2 DEF LoginInv, LoginTypes, CodesInv
  <1> QED BY <1>2, <1>3, <1>4 DEF LoginInv, AttemptsInv

LEMMA SetStatusInv ==
    ASSUME LoginInv, NEW status \in {"unknown", "active", "suspended"}, SetStatus(status)
    PROVE  LoginInv'
  BY JudgedInv DEF SetStatus, LoginInv, LoginTypes, AttemptsInv

LEMMA RecordInv ==
    ASSUME LoginInv, NEW a \in Attempts, Record(a)
    PROVE  LoginInv'
  <1> DEFINE status == IF person = "unknown" THEN "active" ELSE person
             as == [attempts EXCEPT ![a] = NoAttempt]
  <1>1. /\ person' = status /\ attempts' = Judged(as, status)
        /\ UNCHANGED <<logins, codes, given, policy>>
    BY DEF Record
  <1>2. status \in {"unknown", "active", "suspended"}
    BY DEF LoginInv, LoginTypes
  <1>3. \A b \in Attempts : IsAttempt(as[b]) /\ Sound(as[b]) /\ as[b].of \in {attempts[b].of, "none"}
    BY NoAttemptSound DEF LoginInv, LoginTypes, AttemptsInv
  <1> HIDE DEF status, as
  <1> QED BY <1>1, <1>2, <1>3, JudgedInv

\* The console vouches for the person: what was under way waits as a code.
LEMMA MintInv ==
    ASSUME LoginInv, NEW a \in Attempts, Mint(a)
    PROVE  LoginInv'
  <1> DEFINE l == attempts[a].of
             code == [there |-> TRUE, kind |-> "session", made |-> clock, fit |-> attempts[a].fit]
  <1>1. /\ attempts' = [attempts EXCEPT ![a] = NoAttempt]
        /\ codes' = [codes EXCEPT ![l] = code]
        /\ UNCHANGED <<logins, given, person, policy>>
    BY DEF Mint, Ends
  <1>2. l \in Logins /\ attempts[a].fit
    BY DEF Mint, Is, LoginInv, AttemptsInv, Sound, SoundFor, Operators
  <1>3. /\ attempts' = [b \in Attempts |-> attempts'[b]]
        /\ \A b \in Attempts : IsAttempt(attempts'[b])
        /\ AttemptsInv'
    BY <1>1, NoAttemptSound, OneAttempt
  <1>4. \A k \in Codes : codes'[k] = IF k = l THEN code ELSE codes[k]
    BY <1>1 DEF LoginInv, LoginTypes
  <1>5. code.there /\ code.kind = "session" /\ (code.fit <=> attempts[a].fit) /\ IsCode(code)
    BY DEF IsCode
  <1> HIDE DEF code
  <1>6. CodesInv'
    BY <1>2, <1>4, <1>5, LoginAssumption DEF LoginInv, CodesInv, Codes
  <1>7. \A b \in Attempts : attempts'[b].of = IF b = a THEN "none" ELSE attempts[b].of
    BY <1>1, NoAttemptSound DEF LoginInv, LoginTypes
  <1>8. OnceInv'
    <2>1. /\ given[l] = 0 /\ ~Unanswered(l)
          /\ \A b \in Attempts \ {a} : attempts[b].of # l
      BY <1>2 DEF LoginInv, OnceInv, Codes
    <2>2. \A k \in Codes : Unanswered(k)' <=> Unanswered(k)
      BY <1>1 DEF Unanswered
    <2>3. \A k \in Codes : k # "none"
      BY LoginAssumption DEF Codes, App
    <2> QED BY <1>1, <1>2, <1>4, <1>5, <1>7, <2>1, <2>2, <2>3 DEF LoginInv, OnceInv
  <1>9. LoginTypes'
    BY <1>1, <1>3, <1>4, <1>5 DEF LoginInv, LoginTypes, Codes
  <1> QED BY <1>3, <1>6, <1>8, <1>9 DEF LoginInv

LEMMA StartAppInv ==
    ASSUME LoginInv, NEW r \in Replicas, StartApp(r)
    PROVE  LoginInv'
  <1> DEFINE code == [there |-> TRUE, kind |-> "edge", made |-> clock, fit |-> TRUE]
  <1>1. /\ codes' = [codes EXCEPT ![App] = code] /\ given[App] = 0
        /\ UNCHANGED <<logins, attempts, given, person, policy>>
    BY DEF StartApp
  <1>2. \A k \in Codes : codes'[k] = IF k = App THEN code ELSE codes[k]
    BY <1>1 DEF LoginInv, LoginTypes
  <1>3. code.there /\ code.kind = "edge" /\ IsCode(code)
    BY DEF IsCode
  <1> HIDE DEF code
  <1>4. CodesInv'
    BY <1>2, <1>3 DEF LoginInv, CodesInv, Codes
  <1>5. \A b \in Attempts : attempts[b].of # App
    BY LoginAssumption DEF LoginInv, AttemptsInv, Sound, SoundFor, App
  <1>6. OnceInv'
    <2>1. \A k \in Codes : (Unanswered(k)' <=> Unanswered(k)) /\ (Unanswered(k) => k # App)
      BY <1>1, LoginAssumption DEF Unanswered
    <2> QED BY <1>1, <1>2, <1>5, <2>1 DEF LoginInv, OnceInv
  <1>7. AttemptsInv'
    BY <1>1 DEF LoginInv, AttemptsInv, Sound, SoundFor, Fits, ConnectorFits, JoinFits
  <1>8. LoginTypes'
    BY <1>1, <1>2, <1>3 DEF LoginInv, LoginTypes, Codes
  <1> QED BY <1>4, <1>6, <1>7, <1>8 DEF LoginInv

\* A code is taken, whatever it is good for.
LEMMA Taken ==
    ASSUME LoginInv, NEW l \in Codes, TakeCode(l), UNCHANGED policy
    PROVE  /\ codes' = [k \in Codes |-> codes'[k]] /\ \A k \in Codes : IsCode(codes'[k])
           /\ \A k \in Codes : codes'[k] = IF k = l THEN NoCode ELSE codes[k]
           /\ ~NoCode.there
           /\ CodesInv'
  <1>1. \A k \in Codes : codes'[k] = IF k = l THEN NoCode ELSE codes[k]
    BY DEF TakeCode, LoginInv, LoginTypes
  <1>2. IsCode(NoCode) /\ ~NoCode.there
    BY DEF NoCode, IsCode
  <1>3. CodesInv'
    BY <1>1, <1>2 DEF LoginInv, CodesInv, Codes
  <1>4. codes' = [k \in Codes |-> codes'[k]]
    BY DEF TakeCode, LoginInv, LoginTypes
  <1> QED BY <1>1, <1>2, <1>3, <1>4 DEF LoginInv, LoginTypes

LEMMA EdgeCallbackInv ==
    ASSUME LoginInv, NEW r \in Replicas, NEW l \in Codes, EdgeCallback(r, l)
    PROVE  LoginInv'
  <1>1. /\ codes[l].there /\ TakeCode(l)
        /\ given' = given \/ given' = [given EXCEPT ![l] = @ + 1]
        /\ UNCHANGED <<logins, attempts, person, policy>>
    BY DEF EdgeCallback
  <1>2. /\ codes' = [k \in Codes |-> codes'[k]] /\ \A k \in Codes : IsCode(codes'[k])
        /\ \A k \in Codes : codes'[k] = IF k = l THEN NoCode ELSE codes[k]
        /\ ~NoCode.there /\ CodesInv'
    BY <1>1, Taken
  <1>3. /\ given' \in [Codes -> Nat]
        /\ \A k \in Codes : given'[k] = given[k] \/ (k = l /\ given'[k] = given[k] + 1)
    BY <1>1 DEF LoginInv, LoginTypes
  <1>4. OnceInv'
    <2>1. /\ given[l] = 0 /\ ~Unanswered(l) /\ \A b \in Attempts : attempts[b].of # l
      BY <1>1 DEF LoginInv, OnceInv
    <2>2. \A k \in Codes : Unanswered(k)' <=> Unanswered(k)
      BY <1>1 DEF Unanswered
    <2> QED BY <1>1, <1>2, <1>3, <2>1, <2>2 DEF LoginInv, OnceInv
  <1>5. AttemptsInv'
    BY <1>1 DEF LoginInv, AttemptsInv, Sound, SoundFor, Fits, ConnectorFits, JoinFits
  <1>6. LoginTypes'
    BY <1>1, <1>2, <1>3 DEF LoginInv, LoginTypes
  <1> QED BY <1>2, <1>4, <1>5, <1>6 DEF LoginInv

LEMMA EdgeSessionInv ==
    ASSUME LoginInv, NEW a \in Attempts, NEW r \in Replicas, NEW l \in Codes, EdgeSession(a, r, l)
    PROVE  LoginInv'
  <1> DEFINE fit == codes[l].fit
             t == [NoAttempt EXCEPT !.pc = "open", !.replica = r, !.provider = "redirect", !.of = l,
                                    !.target = "workspace", !.fit = fit]
  <1>1. /\ codes[l].there /\ TakeCode(l) /\ attempts[a].pc = "none"
        /\ attempts' = IF Good(l, "session") THEN [attempts EXCEPT ![a] = t] ELSE attempts
        /\ UNCHANGED <<logins, given, person, policy>>
    BY DEF EdgeSession, Is
  <1>2. /\ codes' = [k \in Codes |-> codes'[k]] /\ \A k \in Codes : IsCode(codes'[k])
        /\ \A k \in Codes : codes'[k] = IF k = l THEN NoCode ELSE codes[k]
        /\ ~NoCode.there /\ CodesInv'
    BY <1>1, Taken
  <1>3. /\ given[l] = 0 /\ ~Unanswered(l) /\ \A b \in Attempts : attempts[b].of # l
        /\ \A k \in Codes : Unanswered(k)' <=> Unanswered(k)
    BY <1>1 DEF LoginInv, OnceInv, Unanswered
  <1>4. CASE ~Good(l, "session")
    <2>1. attempts' = attempts
      BY <1>1, <1>4
    <2>2. OnceInv'
      BY <1>1, <1>2, <1>3, <2>1, Fewer
    <2>3. AttemptsInv'
      BY <1>1, <2>1 DEF LoginInv, AttemptsInv, Sound, SoundFor, Fits, ConnectorFits, JoinFits
    <2> QED BY <1>1, <1>2, <2>1, <2>2, <2>3 DEF LoginInv, LoginTypes
  <1>5. CASE Good(l, "session")
    <2>1. fit /\ l \in Logins
      BY <1>1, <1>5 DEF Good, LoginInv, CodesInv, Codes
    <2> HIDE DEF fit
    <2>2. t = [pc |-> "open", replica |-> r, of |-> l, provider |-> "redirect",
               target |-> "workspace", known |-> FALSE, claimed |-> FALSE, fit |-> fit]
      <3>1. t \in [pc : {"open"}, replica : {r}, of : {l}, provider : {"redirect"},
                   target : {"workspace"}, known : {FALSE}, claimed : {FALSE}, fit : {fit}]
        BY DEF NoAttempt
      <3> HIDE DEF t
      <3> QED BY <3>1
    <2> HIDE DEF t
    <2>3. /\ IsAttempt(t) /\ t.pc = "open" /\ t.of = l /\ t.provider = "redirect" /\ t.fit = fit
      BY <2>2 DEF IsAttempt
    <2>4. Sound(t)
      BY <2>1, <2>3 DEF Sound, SoundFor
    <2>5. /\ attempts' = [attempts EXCEPT ![a] = t]
          /\ attempts' = [b \in Attempts |-> attempts'[b]]
          /\ \A b \in Attempts : IsAttempt(attempts'[b])
          /\ AttemptsInv'
      BY <1>1, <1>5, <2>3, <2>4, OneAttempt
    <2>6. \A b \in Attempts : attempts'[b].of = IF b = a THEN l ELSE attempts[b].of
      BY <2>3, <2>5 DEF LoginInv, LoginTypes
    <2>7. OnceInv'
      BY <1>1, <1>2, <1>3, <2>6 DEF LoginInv, OnceInv
    <2> QED BY <1>1, <1>2, <2>5, <2>7 DEF LoginInv, LoginTypes
  <1> QED BY <1>4, <1>5

LEMMA OpenOtherInv ==
    ASSUME LoginInv, NEW a \in Attempts, OpenOther(a)
    PROVE  LoginInv'
  <1> DEFINE rec == [NoAttempt EXCEPT !.pc = "record", !.replica = attempts[a].replica]
             t == IF attempts[a].provider \in Operators THEN NoAttempt ELSE rec
             l == attempts[a].of
  <1>1. /\ attempts' = [attempts EXCEPT ![a] = t]
        /\ given' = IF l \in Logins THEN [given EXCEPT ![l] = @ + 1] ELSE given
        /\ UNCHANGED <<logins, codes, person, policy>>
    BY DEF OpenOther, Given, Operators
  <1>2. IsAttempt(t) /\ Sound(t) /\ t.of = "none"
    <2>1. rec = [pc |-> "record", replica |-> attempts[a].replica, of |-> "none", provider |-> "none",
                 target |-> "console", known |-> FALSE, claimed |-> FALSE, fit |-> FALSE]
      <3>1. rec \in [pc : {"record"}, replica : {attempts[a].replica}, of : {"none"},
                     provider : {"none"}, target : {"console"}, known : {FALSE},
                     claimed : {FALSE}, fit : {FALSE}]
        BY DEF NoAttempt
      <3> HIDE DEF rec
      <3> QED BY <3>1
    <2> HIDE DEF rec
    <2>2. IsAttempt(rec) /\ rec.pc = "record" /\ rec.of = "none" /\ rec.provider = "none"
      BY <2>1 DEF IsAttempt
    <2>3. Sound(rec)
      BY <2>2 DEF Sound, SoundFor
    <2> QED BY <2>2, <2>3, NoAttemptSound
  <1> HIDE DEF t
  <1>3. /\ attempts' = [b \in Attempts |-> attempts'[b]]
        /\ \A b \in Attempts : IsAttempt(attempts'[b])
        /\ AttemptsInv'
    BY <1>1, <1>2, OneAttempt
  <1>4. \A b \in Attempts : attempts'[b].of = IF b = a THEN "none" ELSE attempts[b].of
    BY <1>1, <1>2 DEF LoginInv, LoginTypes
  <1>5. /\ given' \in [Codes -> Nat]
        /\ \A k \in Codes : given'[k] = given[k] \/ (k = l /\ k \in Logins /\ given'[k] = given[k] + 1)
    BY <1>1 DEF LoginInv, LoginTypes, Codes
  <1>6. OnceInv'
    <2>1. l \in Logins => /\ given[l] = 0 /\ ~Unanswered(l) /\ ~codes[l].there
                          /\ \A b \in Attempts \ {a} : attempts[b].of # l
      BY DEF LoginInv, OnceInv, Codes
    <2>2. \A k \in Codes : (Unanswered(k)' <=> Unanswered(k)) /\ k # "none"
      BY <1>1, LoginAssumption DEF Unanswered, Codes, App
    <2> QED BY <1>1, <1>4, <1>5, <2>1, <2>2 DEF LoginInv, OnceInv
  <1>7. CodesInv'
    BY <1>1 DEF LoginInv, CodesInv
  <1>8. LoginTypes'
    BY <1>1, <1>3, <1>5 DEF LoginInv, LoginTypes
  <1> QED BY <1>3, <1>6, <1>7, <1>8 DEF LoginInv

\* Nothing was begun, as at the start and when the session that is followed
\* is opened.
NothingYet ==
    /\ logins = [l \in Logins |-> NoLogin] /\ attempts = [b \in Attempts |-> NoAttempt]
    /\ codes = [l \in Codes |-> NoCode] /\ given = [l \in Codes |-> 0]
    /\ person \in {"unknown", "active", "suspended"} /\ policy \in Policies

LEMMA NothingBegun == NothingYet => LoginInv
  <1> SUFFICES ASSUME NothingYet PROVE LoginInv
    OBVIOUS
  <1>1. IsLogin(NoLogin) /\ IsCode(NoCode) /\ ~NoCode.there
    BY DEF IsLogin, IsCode, NoLogin, NoCode
  <1>2. LoginTypes
    BY <1>1, NoAttemptSound DEF LoginTypes, NothingYet
  <1>3. OnceInv
    <2>1. \A l \in Codes : l # "none"
      BY LoginAssumption DEF Codes, App
    <2> QED BY <1>1, <2>1, NoAttemptSound DEF OnceInv, NothingYet
  <1>4. AttemptsInv
    BY NoAttemptSound DEF AttemptsInv, NothingYet
  <1>5. CodesInv
    BY <1>1 DEF CodesInv, Codes, NothingYet
  <1> QED BY <1>2, <1>3, <1>4, <1>5 DEF LoginInv

LEMMA OpenFollowedInv ==
    ASSUME LoginInv, NEW a \in Attempts, OpenFollowed(a)
    PROVE  LoginInv'
  <1>1. policy \in Policies
    BY DEF LoginInv, LoginTypes
  <1>2. NothingYet'
    BY <1>1 DEF OpenFollowed, NothingYet, Codes
  <1>3. NothingYet' => LoginInv'
    BY NothingBegun, PTL
  <1> QED BY <1>2, <1>3

LEMMA LoginInitInv == LoginInit => LoginInv
  BY NothingBegun DEF LoginInit, NothingYet, Codes

LEMMA LoginNextInv == LoginInv /\ [LoginNext]_allVars => LoginInv'
  <1> SUFFICES ASSUME LoginInv, [LoginNext]_allVars PROVE LoginInv'
    OBVIOUS
  <1>1. CASE UNCHANGED allVars
    BY <1>1, Aside DEF allVars, loginVars
  <1>2. CASE UNCHANGED loginVars
    BY <1>2, Aside DEF loginVars
  <1>3. ASSUME NEW r \in Replicas, RestartReplica(r) \/ StartApp(r) \/ RemoveOIDC(r) \/ AddOIDC(r)
        PROVE  LoginInv'
    BY <1>3, RestartReplicaInv, StartAppInv, Aside DEF RemoveOIDC, AddOIDC
  <1>4. ASSUME NEW r \in Replicas, NEW l \in Logins, NEW target \in {"console", "workspace"},
               Begin(r, l, target)
        PROVE  LoginInv'
    BY <1>4, BeginInv
  <1>5. ASSUME NEW r \in Replicas, NEW l \in Logins \cup {App}, EdgeCallback(r, l)
        PROVE  LoginInv'
    BY <1>5, EdgeCallbackInv DEF Codes
  <1>6. ASSUME NEW r \in Replicas, NEW a \in Attempts, NEW l \in Logins, Callback(a, r, l)
        PROVE  LoginInv'
    BY <1>6, CallbackInv
  <1>7. ASSUME NEW r \in Replicas, NEW a \in Attempts, NEW target \in {"console", "workspace"},
               Password(a, r, target)
        PROVE  LoginInv'
    BY <1>7, PasswordInv
  <1>8. ASSUME NEW r \in Replicas, NEW a \in Attempts, NEW l \in Logins \cup {App}, EdgeSession(a, r, l)
        PROVE  LoginInv'
    BY <1>8, EdgeSessionInv DEF Codes
  <1>9. ASSUME NEW r \in Replicas, NEW a \in Attempts, AdminToken(a, r) \/ ListTickets(a, r)
        PROVE  LoginInv'
    BY <1>9, AdminTokenInv, ListTicketsInv
  <1>10. ASSUME NEW a \in Attempts,
                \/ Exchange(a) \/ Granted(a) \/ ReadPeople(a) \/ ReadClaims(a) \/ ReadPolicy(a)
                \/ ReadFails(a) \/ Mint(a) \/ DeleteTicket(a)
                \/ OpenOther(a) \/ OpenFails(a) \/ OpenFollowed(a) \/ Record(a) \/ RecordFails(a)
         PROVE  LoginInv'
    BY <1>10, ExchangeInv, GrantedInv, ReadPeopleInv, ReadClaimsInv, ReadPolicyInv, ReadFailsInv,
       MintInv, DeleteTicketInv, OpenOtherInv, OpenFailsInv, OpenFollowedInv, RecordInv
  <1>11. CASE MintTicket
    BY <1>11, Aside DEF MintTicket
  <1>12. ASSUME NEW status \in {"unknown", "active", "suspended"}, SetStatus(status)
         PROVE  LoginInv'
    BY <1>12, SetStatusInv
  <1>13. CASE Passes
    BY <1>13, Aside DEF Passes
  <1> QED BY <1>1, <1>2, <1>3, <1>4, <1>5, <1>6, <1>7, <1>8, <1>9, <1>10, <1>11, <1>12, <1>13
          DEF LoginNext

LEMMA SessionNextInv == SessionInv /\ [LoginNext]_allVars => SessionInv'
  <1> SUFFICES ASSUME SessionInv, [LoginNext]_allVars PROVE SessionInv'
    OBVIOUS
  <1>1. CASE UNCHANGED vars
    BY <1>1, Stays DEF vars
  <1>2. ASSUME NEW r \in Replicas, Starting(r) \/ RestartReplica(r)
        PROVE  SessionInv'
    BY <1>2, CountSessionsInv, ImportInv, CleanInv, RestartInv DEF Starting, RestartReplica
  <1>3. ASSUME NEW a \in Attempts, OpenFollowed(a)
        PROVE  SessionInv'
    <2>1. Create(attempts[a].replica)
      BY <1>3 DEF OpenFollowed
    <2> QED BY <2>1, CreateInv
  <1>4. ASSUME NEW q \in Requests,
               \/ Serving(q)
               \/ \E r \in Replicas, leaving \in BOOLEAN : Hit(q, r, leaving) \/ Miss(q, r, leaving)
        PROVE  SessionInv'
    BY <1>4, GetSessionInv, ExpireInv, DropInv, KeepInv, TouchInv, LeaveInv, DeleteSessionInv,
       HitInv, MissInv DEF Serving
  <1>5. CASE PurgeSessions
    BY <1>5, PurgeSessionsInv
  <1>6. CASE Passes
    BY <1>6, TickInv DEF Passes
  <1>7. ASSUME NEW a \in Attempts,
               \/ Exchange(a) \/ Granted(a) \/ ReadPeople(a) \/ ReadClaims(a) \/ ReadPolicy(a)
               \/ Mint(a) \/ OpenOther(a) \/ Record(a)
               \/ \E r \in Replicas : \E l : Callback(a, r, l) \/ EdgeSession(a, r, l)
               \/ \E r \in Replicas : \E target : Password(a, r, target)
               \/ \E r \in Replicas : AdminToken(a, r) \/ ListTickets(a, r)
        PROVE  UNCHANGED vars
    BY <1>7 DEF Exchange, Granted, ReadPeople, ReadClaims, ReadPolicy, unread, Mint, OpenOther,
       Record, Callback, EdgeSession, Password, AdminToken, ListTickets
  <1>8. ASSUME NEW a \in Attempts, ReadFails(a) \/ DeleteTicket(a) \/ OpenFails(a) \/ RecordFails(a)
        PROVE  SessionInv'
    BY <1>8, Stays DEF ReadFails, DeleteTicket, OpenFails, RecordFails
  <1>9. ASSUME NEW r \in Replicas,
               \/ StartApp(r) \/ RemoveOIDC(r) \/ AddOIDC(r)
               \/ \E l, target : Begin(r, l, target)
               \/ \E l : EdgeCallback(r, l)
        PROVE  UNCHANGED vars
    BY <1>9 DEF StartApp, RemoveOIDC, AddOIDC, Begin, EdgeCallback
  <1>10. ASSUME MintTicket \/ \E status : SetStatus(status)
         PROVE  UNCHANGED vars
    BY <1>10 DEF MintTicket, SetStatus
  <1>11. UNCHANGED allVars => UNCHANGED vars
    BY DEF allVars
  <1> HIDE DEF SessionInv
  <1> QED BY <1>1, <1>2, <1>3, <1>4, <1>5, <1>6, <1>7, <1>8, <1>9, <1>10, <1>11 DEF LoginNext

\* After a sign-out nobody is let in beyond the window, whatever the replicas
\* keep, read late and write out of order.
THEOREM SignOutHolds == LoginSpec => []SignOutWithinWindow
  <1>1. LoginInit => SessionInv
    BY InitInv DEF LoginInit
  <1>2. SessionInv => SignOutWithinWindow
    BY TimesAssumption DEF SessionInv, SessionTypes, Dates, AfterSignOut, SignOutWithinWindow
  <1> QED BY <1>1, <1>2, SessionNextInv, PTL DEF LoginSpec

\* A login or a code opens something once at most.
THEOREM OnceHolds == LoginSpec => []OnceOnly
  <1>1. LoginInv => OnceOnly
    BY DEF LoginInv, OnceInv, OnceOnly, Codes
  <1> QED BY <1>1, LoginInitInv, LoginNextInv, PTL DEF LoginSpec

\* Who is about to get a session was fit to, since they came.
THEOREM FitHolds == LoginSpec => []FitToEnter
  <1>1. LoginInv => FitToEnter
    BY DEF LoginInv, AttemptsInv, Sound, SoundFor, Operators, FitToEnter, Is
  <1> QED BY <1>1, LoginInitInv, LoginNextInv, PTL DEF LoginSpec
============================================================================
