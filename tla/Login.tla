------------------------------- MODULE Login -------------------------------
(***************************************************************************)
(* How sessions begin: the ways to sign in of pkg/api/auth.go, realms.go   *)
(* and ticket.go, admission (admitSignIn), and the one-time codes that     *)
(* carry a sign-in or a session to another host (pkg/edge).  One person    *)
(* signs in, at the console or on behalf of a workspace with a host of its *)
(* own; SignIn follows one of the sessions that are opened, from then on.  *)
(***************************************************************************)
EXTENDS SignIn, FiniteSets

CONSTANTS
    Logins,      \* authorization requests: the state of each is its name
    Attempts,    \* requests under way that may open a session
    LoginTTL,
    CodeTTL,
    TicketTTL,
    Policies,    \* what the workspace may ask of those who join
    MaxChanges,  \* bound: changes of the person's status and of the provider
    MaxBegun,    \* bound: sign-ins begun, each with its code, and tickets at once
    LastLogin    \* bound: the time at which the session begins at the latest

App == "app"     \* the code that carries a session to an app's host

\* The state of an authorization request is drawn at random, and joining is
\* open, for a company, or for those who are listed (store.JoinPolicy).
ASSUME LoginAssumption ==
    /\ LoginTTL \in Nat /\ CodeTTL \in Nat /\ TicketTTL \in Nat
    /\ App \notin Logins /\ "none" \notin Logins
    /\ \A p \in Policies : p.join \in {"open", "company", "listed"}

VARIABLES
    logins,      \* relyingParty.pending, and where the target of each is
    attempts,
    codes,       \* edge_codes in the store
    ticket,      \* the Secret of a CLI login ticket
    providers,   \* the replicas where the login provider is registered
    tokens,      \* passwordFailures of each replica: failures still allowed
    person,      \* the status of the person in the store
    policy,
    changes,
    given        \* history: how often each login or code opened something

loginVars == <<logins, attempts, codes, ticket, providers, tokens, person, policy, changes, given>>
allVars == <<vars, loginVars>>

NoLogin == [state |-> "none", replica |-> "none", made |-> 0, target |-> "console"]
NoCode == [there |-> FALSE, kind |-> "none", made |-> 0, fit |-> FALSE]
NoTicket == [there |-> FALSE, made |-> 0]
NoAttempt == [pc |-> "none", replica |-> "none", of |-> "none", provider |-> "none",
              target |-> "console", known |-> FALSE, claimed |-> FALSE, fit |-> FALSE]

LoginInit ==
    /\ Init
    /\ logins = [l \in Logins |-> NoLogin]
    /\ attempts = [a \in Attempts |-> NoAttempt]
    /\ codes = [l \in Logins \cup {App} |-> NoCode]
    /\ ticket = NoTicket
    /\ providers = Replicas
    /\ tokens = [r \in Replicas |-> 1]
    /\ person \in {"unknown", "active", "suspended"}
    /\ policy \in Policies
    /\ opened => person = "active" /\ policy = CHOOSE p \in Policies : TRUE
    /\ changes = 0
    /\ given = [l \in Logins \cup {App} |-> 0]

Is(a, pc) == attempts[a].pc = pc
On(a, pc) == attempts' = [attempts EXCEPT ![a].pc = pc]
Ends(a) == attempts' = [attempts EXCEPT ![a] = NoAttempt]

\* The session that is followed has not begun, and replica r serves.
Here(r) == ~opened /\ loader[r] = "up"

Begun == Cardinality({l \in Logins : logins[l].state # "none"})
         + (IF codes[App].there \/ given[App] > 0 THEN 1 ELSE 0)
         + (IF ticket.there THEN 1 ELSE 0)
         + Cardinality({a \in Attempts : attempts[a].provider \in {"password", "token"}})

\* The people whom the policy admits, whoever of them asks through which
\* provider.
Fits(status, provider) ==
    /\ status # "suspended"
    /\ policy.claimed => policy.connector \in {"any", provider}
    /\ \/ status = "active"
       \/ policy.join = "open"
       \/ policy.join = "company" /\ policy.claimed
       \/ policy.join = "listed" /\ policy.listed

Arrives(a, r, provider, of, target, pc) ==
    attempts' = [attempts EXCEPT ![a] =
        [NoAttempt EXCEPT !.pc = pc, !.replica = r, !.provider = provider, !.of = of,
                          !.target = target, !.fit = Fits(person, provider)]]

\* The person's status becomes another: who fits now has fitted once.
Judged(as, status) ==
    [a \in Attempts |-> [as[a] EXCEPT !.fit = @ \/ (as[a].pc # "none" /\ Fits(status, as[a].provider))]]
----------------------------------------------------------------------------
(***************************************************************************)
(* By redirect.                                                            *)
(***************************************************************************)

\* authLogin and begin: the request waits in this replica's memory, and the
\* older ones that expired go.
Begin(r, l, target) ==
    /\ Here(r) /\ r \in providers
    /\ logins[l].state = "none" /\ Begun < MaxBegun
    /\ logins' = [k \in Logins |->
         IF k = l THEN [state |-> "pending", replica |-> r, made |-> clock, target |-> target]
         ELSE IF logins[k].replica = r /\ clock - logins[k].made > LoginTTL
              THEN [logins[k] EXCEPT !.state = "over"] ELSE logins[k]]
    /\ UNCHANGED <<vars, attempts, codes, ticket, providers, tokens, person, policy, changes, given>>

Waiting(r, l) ==
    /\ logins[l].state = "pending" /\ logins[l].replica = r
    /\ r \in providers
    /\ clock - logins[l].made <= LoginTTL

\* Mutant: the request goes when the callback was answered, not before.
CallbackKeeps(a, r, l) ==
    /\ Here(r) /\ Is(a, "none")
    /\ logins[l].state # "none"
    /\ Waiting(r, l) /\ Arrives(a, r, "redirect", l, logins[l].target, "exchange")
    /\ UNCHANGED <<vars, logins, codes, ticket, providers, tokens, person, policy, changes, given>>

\* authCallback and complete: the browser comes back, any number of times and
\* at any replica.  Whatever follows, the request is spent.
Callback(a, r, l) ==
    /\ Here(r) /\ Is(a, "none")
    /\ logins[l].state # "none"
    /\ IF Waiting(r, l)
       THEN Arrives(a, r, "redirect", l, logins[l].target, "exchange")
       ELSE UNCHANGED attempts
    /\ logins' = [logins EXCEPT ![l] = IF @.replica = r THEN [@ EXCEPT !.state = "over"] ELSE @]
    /\ UNCHANGED <<vars, codes, ticket, providers, tokens, person, policy, changes, given>>

\* Mutant: for a workspace the console only vouches who it is.
ExchangeVouches(a) ==
    /\ Is(a, "exchange")
    /\ (On(a, IF attempts[a].target = "console" THEN "people" ELSE "mint") \/ Ends(a))
    /\ UNCHANGED <<vars, logins, codes, ticket, providers, tokens, person, policy, changes, given>>

\* The token exchange and the checks of the id_token; for a workspace,
\* handoffTarget, which may find it suspended.
Exchange(a) ==
    /\ Is(a, "exchange")
    /\ (On(a, "people") \/ Ends(a))
    /\ UNCHANGED <<vars, logins, codes, ticket, providers, tokens, person, policy, changes, given>>
----------------------------------------------------------------------------
(***************************************************************************)
(* By password: authPassword and relyingParty.password.                    *)
(***************************************************************************)
Password(a, r, target) ==
    /\ Here(r) /\ r \in providers /\ Is(a, "none") /\ Begun < MaxBegun
    /\ tokens[r] > 0                       \* passwordFailures.exhausted
    /\ Arrives(a, r, "password", "none", target, "grant")
    /\ UNCHANGED <<vars, logins, codes, ticket, providers, tokens, person, policy, changes, given>>

\* Wrong passwords spend what the account is allowed; an issuer that does
\* not answer spends nothing.
Granted(a) ==
    /\ Is(a, "grant")
    /\ \/ On(a, "people") /\ UNCHANGED tokens
       \/ Ends(a) /\ UNCHANGED tokens
       \/ /\ Ends(a)
          /\ tokens' = [tokens EXCEPT ![attempts[a].replica] = IF @ > 0 THEN @ - 1 ELSE @]
    /\ UNCHANGED <<vars, logins, codes, ticket, providers, person, policy, changes, given>>
----------------------------------------------------------------------------
(***************************************************************************)
(* Admission: admitSignIn reads the store up to four times, and lets in    *)
(* when a read fails.                                                      *)
(***************************************************************************)
Admitted(a) ==
    IF attempts[a].provider = "redirect" /\ attempts[a].target # "console" THEN "mint" ELSE "open"

unread == <<vars, logins, codes, ticket, providers, tokens, person, policy, changes, given>>

ReadPeople(a) ==
    /\ Is(a, "people")
    /\ IF person = "suspended" THEN Ends(a)
       ELSE attempts' = [attempts EXCEPT ![a].pc = "claims", ![a].known = person # "unknown"]
    /\ UNCHANGED unread

\* A failing list of claims is an empty one.
ReadClaims(a) ==
    /\ Is(a, "claims")
    /\ IF policy.claimed /\ policy.connector \notin {"any", attempts[a].provider} THEN Ends(a)
       ELSE attempts' = [attempts EXCEPT ![a].claimed = policy.claimed,
                           ![a].pc = IF attempts[a].known THEN Admitted(a) ELSE "policy"]
    /\ UNCHANGED unread

\* The join policy, and for people who have to be listed the cached snapshot.
ReadPolicy(a) ==
    /\ Is(a, "policy")
    /\ IF \/ policy.join = "company" /\ ~attempts[a].claimed
          \/ policy.join = "listed" /\ ~policy.listed
       THEN Ends(a) ELSE On(a, Admitted(a))
    /\ UNCHANGED unread

\* "The store is down: sign-in must not depend on it."
ReadFails(a) ==
    /\ ~opened /\ Spend
    /\ \/ Is(a, "people") /\ attempts' = [attempts EXCEPT ![a].pc = Admitted(a), ![a].fit = TRUE]
       \/ /\ Is(a, "claims")
          /\ attempts' = [attempts EXCEPT ![a].fit = TRUE,
                            ![a].pc = IF attempts[a].known THEN Admitted(a) ELSE "policy"]
       \/ Is(a, "policy") /\ attempts' = [attempts EXCEPT ![a].pc = Admitted(a), ![a].fit = TRUE]
    /\ UNCHANGED <<clock, row, mirror, cache, loader, requests, opened, signedOut, lastUse, imports>>
    /\ UNCHANGED <<logins, codes, ticket, providers, tokens, person, policy, changes, given>>
----------------------------------------------------------------------------
(***************************************************************************)
(* One-time codes: minted for a host and a kind, taken by any attempt.     *)
(***************************************************************************)

\* handoff, after admission: the code travels to the workspace's host.
Mint(a) ==
    /\ Is(a, "mint")
    /\ Ends(a)
    /\ codes' = [codes EXCEPT ![attempts[a].of] =
                   [there |-> TRUE, kind |-> "session", made |-> clock, fit |-> attempts[a].fit]]
    /\ UNCHANGED <<vars, logins, ticket, providers, tokens, person, policy, changes, given>>

\* edgeStart and previewApp, by a browser whose session is another one.
StartApp(r) ==
    /\ Here(r)
    /\ ~codes[App].there /\ given[App] = 0 /\ Begun < MaxBegun
    /\ codes' = [codes EXCEPT ![App] = [there |-> TRUE, kind |-> "edge", made |-> clock, fit |-> TRUE]]
    /\ UNCHANGED <<vars, logins, attempts, ticket, providers, tokens, person, policy, changes, given>>

\* Taking a code deletes it, whatever it is then found to be good for.
TakeCode(l) == codes' = [codes EXCEPT ![l] = NoCode]

Good(l, kind) == codes[l].kind = kind /\ clock - codes[l].made <= CodeTTL

\* edgeSession at the workspace's host.
EdgeSession(a, r, l) ==
    /\ Here(r) /\ Is(a, "none")
    /\ codes[l].there
    /\ TakeCode(l)
    /\ IF Good(l, "session")
       THEN attempts' = [attempts EXCEPT ![a] =
              [NoAttempt EXCEPT !.pc = "open", !.replica = r, !.provider = "redirect", !.of = l,
                                !.target = "workspace", !.fit = codes[l].fit]]
       ELSE UNCHANGED attempts
    /\ UNCHANGED <<vars, logins, ticket, providers, tokens, person, policy, changes, given>>

\* edgeCallback at an app's host: the cookie names the session of the code.
EdgeCallback(r, l) ==
    /\ Here(r)
    /\ codes[l].there
    /\ TakeCode(l)
    /\ given' = IF Good(l, "edge") THEN [given EXCEPT ![l] = @ + 1] ELSE given
    /\ UNCHANGED <<vars, logins, attempts, ticket, providers, tokens, person, policy, changes>>
----------------------------------------------------------------------------
(***************************************************************************)
(* Operators: the admin token (authToken) and a ticket of the CLI.         *)
(***************************************************************************)
AdminToken(a, r) ==
    /\ Here(r) /\ Is(a, "none") /\ Begun < MaxBegun
    /\ Arrives(a, r, "token", "none", "console", "open")
    /\ UNCHANGED unread

MintTicket ==
    /\ ~opened /\ ~ticket.there /\ Begun < MaxBegun
    /\ ticket' = [there |-> TRUE, made |-> clock]
    /\ UNCHANGED <<vars, logins, attempts, codes, providers, tokens, person, policy, changes, given>>

\* RedeemLoginTicket: the Secrets are listed, and then the one that matches,
\* or has expired, is deleted; an error of the delete is ignored.
ListTickets(a, r) ==
    /\ Here(r) /\ Is(a, "none")
    /\ ticket.there
    /\ Arrives(a, r, "kubeconfig", "none", "console",
               IF clock - ticket.made <= TicketTTL THEN "redeem" ELSE "remove")
    /\ UNCHANGED unread

DeleteTicket(a) ==
    /\ ~opened
    /\ \/ Is(a, "redeem") /\ On(a, "open")
       \/ Is(a, "remove") /\ Ends(a)
    /\ \/ ticket' = NoTicket /\ UNCHANGED budget
       \/ Spend /\ UNCHANGED ticket
    /\ UNCHANGED <<clock, row, mirror, cache, loader, requests, opened, signedOut, lastUse, imports>>
    /\ UNCHANGED <<logins, codes, providers, tokens, person, policy, changes, given>>
----------------------------------------------------------------------------
(***************************************************************************)
(* openSession, and authTicket's own: the session is stored, the cookie is *)
(* set, and then the person is recorded, unless they are an operator.      *)
(***************************************************************************)
Given(a) ==
    IF attempts[a].of \in Logins THEN [given EXCEPT ![attempts[a].of] = @ + 1] ELSE given

\* A session that is not followed, or none because it could not be stored.
OpenOther(a) ==
    /\ Is(a, "open")
    /\ attempts' = [attempts EXCEPT ![a] = IF attempts[a].provider \in {"token", "kubeconfig"}
                                           THEN NoAttempt
                                           ELSE [NoAttempt EXCEPT !.pc = "record", !.replica = attempts[a].replica]]
    /\ given' = Given(a)
    /\ UNCHANGED <<vars, logins, codes, ticket, providers, tokens, person, policy, changes>>

OpenFails(a) ==
    /\ Is(a, "open") /\ ~opened /\ Spend
    /\ Ends(a)
    /\ UNCHANGED <<clock, row, mirror, cache, loader, requests, opened, signedOut, lastUse, imports>>
    /\ UNCHANGED <<logins, codes, ticket, providers, tokens, person, policy, changes, given>>

\* The session that is followed: what else was under way is left out of the
\* model from here on.
OpenFollowed(a) ==
    /\ Is(a, "open")
    /\ Create(attempts[a].replica)
    /\ logins' = [l \in Logins |-> NoLogin]
    /\ attempts' = [b \in Attempts |-> NoAttempt]
    /\ codes' = [l \in Logins \cup {App} |-> NoCode]
    /\ ticket' = NoTicket
    /\ providers' = Replicas
    /\ tokens' = [r \in Replicas |-> 1]
    /\ person' = "active" /\ changes' = 0
    /\ policy' = CHOOSE p \in Policies : TRUE
    /\ given' = [l \in Logins \cup {App} |-> 0]

\* recordSignIn: a failure is only logged.
Record(a) ==
    /\ Is(a, "record")
    /\ LET status == IF person = "unknown" THEN "active" ELSE person
       IN /\ person' = status
          /\ attempts' = Judged([attempts EXCEPT ![a] = NoAttempt], status)
    /\ UNCHANGED <<vars, logins, codes, ticket, providers, tokens, policy, changes, given>>

RecordFails(a) ==
    /\ Is(a, "record") /\ ~opened /\ Spend
    /\ Ends(a)
    /\ UNCHANGED <<clock, row, mirror, cache, loader, requests, opened, signedOut, lastUse, imports>>
    /\ UNCHANGED <<logins, codes, ticket, providers, tokens, person, policy, changes, given>>
----------------------------------------------------------------------------
(***************************************************************************)
(* Around the sign-ins.                                                    *)
(***************************************************************************)

\* An administrator suspends, restores or forgets the person.
SetStatus(status) ==
    /\ ~opened /\ changes < MaxChanges
    /\ person # "unknown" /\ status # person
    /\ person' = status
    /\ attempts' = Judged(attempts, status)
    /\ changes' = changes + 1
    /\ UNCHANGED <<vars, logins, codes, ticket, providers, tokens, policy, given>>

\* RemoveOIDC and AddOIDC: a connector is removed from a replica, or added.
RemoveOIDC(r) ==
    /\ Here(r) /\ r \in providers /\ changes < MaxChanges
    /\ providers' = providers \ {r}
    /\ changes' = changes + 1
    /\ UNCHANGED <<vars, logins, attempts, codes, ticket, tokens, person, policy, given>>

AddOIDC(r) ==
    /\ Here(r) /\ r \notin providers
    /\ providers' = providers \cup {r}
    /\ UNCHANGED <<vars, logins, attempts, codes, ticket, tokens, person, policy, changes, given>>

\* What waits in a replica's memory ends with it; what is in the store stays.
RestartReplica(r) ==
    /\ Restart(r)
    /\ logins' = [l \in Logins |-> IF logins[l].replica = r THEN [logins[l] EXCEPT !.state = "over"]
                                   ELSE logins[l]]
    /\ attempts' = [a \in Attempts |-> IF attempts[a].replica = r THEN NoAttempt ELSE attempts[a]]
    /\ tokens' = [tokens EXCEPT ![r] = 1]
    /\ UNCHANGED <<codes, ticket, providers, person, policy, changes, given>>

\* With time an account may fail again (rateLimiter).
Passes ==
    /\ Tick
    /\ opened \/ clock < LastLogin
    /\ tokens' = [r \in Replicas |-> 1]
    /\ UNCHANGED <<logins, attempts, codes, ticket, providers, person, policy, changes, given>>

LoginNext ==
    \/ \E r \in Replicas :
         \/ Starting(r) /\ UNCHANGED loginVars
         \/ RestartReplica(r) \/ StartApp(r) \/ RemoveOIDC(r) \/ AddOIDC(r)
         \/ \E l \in Logins, target \in {"console", "workspace"} : Begin(r, l, target)
         \/ \E l \in Logins \cup {App} : EdgeCallback(r, l)
         \/ \E a \in Attempts :
              \/ \E l \in Logins : Callback(a, r, l)
              \/ \E target \in {"console", "workspace"} : Password(a, r, target)
              \/ \E l \in Logins \cup {App} : EdgeSession(a, r, l)
              \/ AdminToken(a, r) \/ ListTickets(a, r)
    \/ \E a \in Attempts :
         \/ Exchange(a) \/ Granted(a) \/ ReadPeople(a) \/ ReadClaims(a) \/ ReadPolicy(a)
         \/ ReadFails(a) \/ Mint(a) \/ DeleteTicket(a)
         \/ OpenOther(a) \/ OpenFails(a) \/ OpenFollowed(a) \/ Record(a) \/ RecordFails(a)
    \/ MintTicket
    \/ \E status \in {"unknown", "active", "suspended"} : SetStatus(status)
    \/ \E q \in Requests : 
         \/ Serving(q) /\ UNCHANGED loginVars
         \/ \E r \in Replicas, leaving \in BOOLEAN :
              (Hit(q, r, leaving) \/ Miss(q, r, leaving)) /\ UNCHANGED loginVars
    \/ PurgeSessions /\ UNCHANGED loginVars
    \/ Passes

LoginSpec == LoginInit /\ [][LoginNext]_allVars
----------------------------------------------------------------------------
(***************************************************************************)
(* A sign-in that was begun opens at most one session, and a code at most  *)
(* one session or one app's cookie, however often and wherever the browser *)
(* comes back with it ("any attempt burns the code", edge.go; complete).   *)
(***************************************************************************)
OnceOnly == \A l \in Logins \cup {App} : given[l] <= 1

(***************************************************************************)
(* Whoever is about to get a session was, at some moment since they came   *)
(* with their credentials, somebody the workspace admits: not suspended,   *)
(* through the connector their company asks for, and known or free to join *)
(* (admitSignIn), also when the console vouches for them to a workspace    *)
(* and the session is opened later and by another replica.  Only a failing *)
(* store lets others in.                                                   *)
(***************************************************************************)
FitToEnter ==
    \A a \in Attempts :
        Is(a, "open") /\ attempts[a].provider \notin {"token", "kubeconfig"} => attempts[a].fit
============================================================================
