------------------------------- MODULE SignIn ------------------------------
(***************************************************************************)
(* One session of the dashboard: its row in the control-plane store        *)
(* (pkg/store/postgres.go), the copy each replica of the server keeps for  *)
(* a while (pkg/api/sessions.go), sign-in, sign-out and the one-time       *)
(* import of the sessions an older install mirrored in a Secret.           *)
(*                                                                         *)
(* A request takes the time once, when it arrives, and judges everything   *)
(* by it: the store is read, the copy replaced and the row touched later,  *)
(* between the steps of other requests and of other replicas.              *)
(***************************************************************************)
EXTENDS Naturals

CONSTANTS
    Replicas,
    Requests,     \* requests under way at once
    Revalidate,   \* cacheRevalidate
    TouchEvery,
    Idle,         \* sessionIdle
    Absolute,     \* sessionAbsolute
    MaxTime,      \* bound: the clock
    Budget        \* bound: restarts and failures

ASSUME TimesAssumption ==
    /\ Revalidate \in Nat \ {0}
    /\ TouchEvery \in Nat /\ Idle \in Nat /\ Absolute \in Nat
    /\ MaxTime \in Nat /\ Budget \in Nat

VARIABLES
    clock,
    row,        \* the session's row, or None
    mirror,     \* the session in Secret shpyrd-sessions, or None
    cache,      \* sessionStore.cache of each replica, for this session
    loader,     \* where load() of each replica is
    requests,   \* the requests that carry the session's cookie
    opened,     \* the browser has the cookie
    signedOut,  \* when a sign-out deleted the row, MaxTime + 1 before
    lastUse,    \* the latest arrival of an accepted request
    imports,    \* sessions the mirror put in the store
    budget

vars == <<clock, row, mirror, cache, loader, requests, opened, signedOut, lastUse,
          imports, budget>>

None == [created |-> 0, seen |-> 0, there |-> FALSE]
Row(created, seen) == [created |-> created, seen |-> seen, there |-> TRUE]
NoEntry == [row |-> None, checkedAt |-> 0, touchedAt |-> 0]
NoRequest == [pc |-> "none", replica |-> "none", now |-> 0, leaving |-> FALSE,
              created |-> 0]

Expired(s, now) == now - s.created > Absolute \/ now - s.seen > Idle

(***************************************************************************)
(* Either a new install, or one whose sessions are still in the Secret.    *)
(***************************************************************************)
Init ==
    /\ clock = 0
    /\ row = None
    /\ mirror \in {None, Row(0, 0)}
    /\ cache = [r \in Replicas |-> NoEntry]
    /\ loader = [r \in Replicas |-> IF mirror.there THEN "count" ELSE "up"]
    /\ requests = [q \in Requests |-> NoRequest]
    /\ opened = mirror.there
    /\ signedOut = MaxTime + 1
    /\ lastUse = 0
    /\ imports = 0
    /\ budget = Budget

Spend ==
    /\ budget > 0
    /\ budget' = budget - 1

At(q, pc) == requests[q].pc = pc
Goto(q, pc) == requests' = [requests EXCEPT ![q].pc = pc]
Done(q) == requests' = [requests EXCEPT ![q] = NoRequest]
----------------------------------------------------------------------------
(***************************************************************************)
(* load(): a start imports the mirror when the store has no session.  The  *)
(* sessions of other people make the count positive.                       *)
(***************************************************************************)
Load(r, pc) ==
    /\ loader' = [loader EXCEPT ![r] = pc]
    /\ UNCHANGED <<clock, cache, requests, opened, signedOut, lastUse>>

CountSessions(r) ==
    /\ loader[r] = "count"
    /\ \/ ~row.there /\ mirror.there /\ Load(r, "import")
       \/ Load(r, "up")
    /\ UNCHANGED <<row, mirror, imports, budget>>

\* Import(r) judges and writes what CountSessions(r) and the read of the
\* Secret saw: the Secret may be gone meanwhile, the copy read is not.
Import(r) ==
    /\ loader[r] = "import"
    /\ IF Expired(Row(0, 0), clock)
       THEN UNCHANGED <<row, imports>>
       ELSE /\ row' = Row(0, 0)
            /\ imports' = imports + 1
    /\ Load(r, "clean")
    /\ UNCHANGED <<mirror, budget>>

Clean(r) ==
    /\ loader[r] = "clean"
    /\ \/ mirror' = None /\ UNCHANGED budget
       \/ Spend /\ UNCHANGED mirror          \* the error is ignored
    /\ Load(r, "up")
    /\ UNCHANGED <<row, imports>>

\* The replica's process ends, with its requests and its copy, and another
\* one starts.
Restart(r) ==
    /\ Spend
    /\ loader[r] = "up"
    /\ loader' = [loader EXCEPT ![r] = "count"]
    /\ cache' = [cache EXCEPT ![r] = NoEntry]
    /\ requests' = [q \in Requests |->
                      IF requests[q].replica = r THEN NoRequest ELSE requests[q]]
    /\ UNCHANGED <<clock, row, mirror, opened, signedOut, lastUse, imports>>
----------------------------------------------------------------------------
(***************************************************************************)
(* Sign-in: create() stores the session and keeps a copy before the browser*)
(* gets the cookie, so nothing comes between.                              *)
(***************************************************************************)
Create(r) ==
    /\ ~opened
    /\ loader[r] = "up"
    /\ opened' = TRUE
    /\ row' = Row(clock, clock)
    /\ cache' = [cache EXCEPT ![r] =
                   [row |-> Row(clock, clock), checkedAt |-> clock, touchedAt |-> clock]]
    /\ lastUse' = clock
    /\ UNCHANGED <<clock, mirror, loader, requests, signedOut, imports, budget>>

\* The housekeeping of anybody's sign-in, begun at most one tick ago.
PurgeSessions ==
    /\ row.there
    /\ \E now \in {clock, clock - 1} : Expired(row, now)
    /\ row' = None
    /\ UNCHANGED <<clock, mirror, cache, loader, requests, opened, signedOut, lastUse,
                   imports, budget>>
----------------------------------------------------------------------------
(***************************************************************************)
(* A request: get(), and authLogout when it is one to sign out.            *)
(***************************************************************************)
Later(a, b) == IF a > b THEN a ELSE b

\* The request is let in: a sign-out goes on to delete the session.
Accept(q, request, touch) ==
    /\ lastUse' = Later(lastUse, request.now)
    /\ requests' = [requests EXCEPT ![q] =
         CASE touch -> [request EXCEPT !.pc = "touch"]
           [] ~touch /\ request.leaving -> [request EXCEPT !.pc = "leave"]
           [] OTHER -> NoRequest]

\* A request arrives, and the time is taken.
Arrival(q, r) ==
    /\ opened
    /\ At(q, "none")
    /\ loader[r] = "up"
    /\ UNCHANGED <<clock, row, mirror, loader, opened, signedOut, imports, budget>>
Arriving(r, leaving) == [pc |-> "ask", replica |-> r, now |-> clock, leaving |-> leaving,
                         created |-> 0]

Fresh(c) == c.row.there /\ clock - c.checkedAt < Revalidate

\* The copy answers, under the lock.
Hit(q, r, leaving) ==
    LET touch == clock - cache[r].touchedAt >= TouchEvery
    IN  /\ Arrival(q, r)
        /\ Fresh(cache[r])
        /\ \/ /\ Expired(cache[r].row, clock)
              /\ cache' = [cache EXCEPT ![r] = NoEntry]
              /\ UNCHANGED <<requests, lastUse>>
           \/ /\ ~Expired(cache[r].row, clock)
              /\ cache' = [cache EXCEPT ![r].row.seen = clock,
                                        ![r].touchedAt = IF touch THEN clock ELSE @]
              /\ Accept(q, Arriving(r, leaving), touch)

\* The store has to be asked.
Miss(q, r, leaving) ==
    /\ Arrival(q, r)
    /\ ~Fresh(cache[r])
    /\ requests' = [requests EXCEPT ![q] = Arriving(r, leaving)]
    /\ UNCHANGED <<cache, lastUse>>

\* The store answers, or it does not within five seconds.
GetSession(q) ==
    /\ At(q, "ask")
    /\ \/ /\ row.there
          /\ requests' = [requests EXCEPT
                 ![q].pc = IF Expired(row, requests[q].now) THEN "expire" ELSE "keep",
                 ![q].created = row.created]
          /\ UNCHANGED budget
       \/ ~row.there /\ Goto(q, "drop") /\ UNCHANGED budget
       \/ Spend /\ Goto(q, "drop")
    /\ UNCHANGED <<clock, row, mirror, cache, loader, opened, signedOut, lastUse, imports>>

Expire(q) ==
    /\ At(q, "expire")
    /\ Goto(q, "drop")
    /\ \/ row' = None /\ UNCHANGED budget
       \/ Spend /\ UNCHANGED row              \* the error is ignored
    /\ UNCHANGED <<clock, mirror, cache, loader, opened, signedOut, lastUse, imports>>

Drop(q) ==
    /\ At(q, "drop")
    /\ cache' = [cache EXCEPT ![requests[q].replica] = NoEntry]
    /\ Done(q)
    /\ UNCHANGED <<clock, row, mirror, loader, opened, signedOut, lastUse, imports, budget>>

\* Mutant: the copy is dated after the store was read, not before.
KeepDatedLate(q) ==
    LET now == requests[q].now
    IN  /\ At(q, "keep")
        /\ cache' = [cache EXCEPT ![requests[q].replica] =
                       [row |-> Row(requests[q].created, now),
                        checkedAt |-> clock, touchedAt |-> now]]
        /\ Accept(q, requests[q], TRUE)
        /\ UNCHANGED <<clock, row, mirror, loader, opened, signedOut, imports, budget>>

\* What was read is kept as of the request's arrival, before it was read.
Keep(q) ==
    LET now == requests[q].now
    IN  /\ At(q, "keep")
        /\ cache' = [cache EXCEPT ![requests[q].replica] =
                       [row |-> Row(requests[q].created, now),
                        checkedAt |-> now, touchedAt |-> now]]
        /\ Accept(q, requests[q], TRUE)
        /\ UNCHANGED <<clock, row, mirror, loader, opened, signedOut, imports, budget>>

\* TouchSession only moves the row forward: touches arrive in any order.
Touched(at) ==
    IF row.there THEN [row EXCEPT !.seen = Later(@, at)] ELSE row

Touch(q) ==
    /\ At(q, "touch")
    /\ IF requests[q].leaving THEN Goto(q, "leave") ELSE Done(q)
    /\ \/ row' = Touched(requests[q].now) /\ UNCHANGED budget
       \/ Spend /\ UNCHANGED row
    /\ UNCHANGED <<clock, mirror, cache, loader, opened, signedOut, lastUse, imports>>

\* delete(): the copy goes first, then the row.
Leave(q) ==
    /\ At(q, "leave")
    /\ cache' = [cache EXCEPT ![requests[q].replica] = NoEntry]
    /\ Goto(q, "delete")
    /\ UNCHANGED <<clock, row, mirror, loader, opened, signedOut, lastUse, imports, budget>>

DeleteSession(q) ==
    /\ At(q, "delete")
    /\ Done(q)
    /\ \/ /\ row' = None
          /\ signedOut' = IF signedOut > clock THEN clock ELSE signedOut
          /\ UNCHANGED budget
       \/ Spend /\ UNCHANGED <<row, signedOut>>   \* the error is only logged
    /\ UNCHANGED <<clock, mirror, cache, loader, opened, lastUse, imports>>

Tick ==
    /\ clock < MaxTime
    /\ clock' = clock + 1
    /\ UNCHANGED <<row, mirror, cache, loader, requests, opened, signedOut, lastUse, imports, budget>>
----------------------------------------------------------------------------
Starting(r) == CountSessions(r) \/ Import(r) \/ Clean(r)
Serving(q) == GetSession(q) \/ Expire(q) \/ Drop(q) \/ Keep(q)
              \/ Touch(q) \/ Leave(q) \/ DeleteSession(q)
----------------------------------------------------------------------------
(***************************************************************************)
(* "An entry is re-checked against the store every cacheRevalidate so a    *)
(* sign-out on another replica takes effect within that window"            *)
(* (sessions.go:24-26): whatever requests, on any replica, read the store  *)
(* before the sign-out and go on after it, none that arrives a window      *)
(* after it is let in.  The mirror is imported once at most: a second      *)
(* import brings the session back.                                         *)
(***************************************************************************)
SignOutWithinWindow ==
    imports <= 1 => lastUse < signedOut + Revalidate

============================================================================
