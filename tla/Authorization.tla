--------------------------- MODULE Authorization ---------------------------
(* MCP Authorizations: the consent of a User in the web app, the exchange of *)
(* the code for the first refresh credential, its rotation and the           *)
(* revocation of the family (apps/api/src/oauth.ts,                          *)
(* apps/api/src/mcp-authorization.ts, packages/db/src/mcp-authorization.ts). *)
(* Neon holds the authorizations and the hashes of the credentials; the      *)
(* OAuth provider of the Worker keeps its own grants in KV. An authorization *)
(* is named after the tab it was approved in.                                *)
EXTENDS Integers, FiniteSets, FiniteSetsExt

CONSTANTS
    Tabs,        \* browser tabs in which a decision is submitted
    Requests,    \* token requests under way at a time
    MaxTokens,   \* bound on the refresh tokens the provider mints
    HandoffTtl,  \* lifetime of a consent handoff
    Freshness,   \* age of the User's verification a consent may have
    Session,     \* absolute lifetime of an authorization
    Idle,        \* lifetime of an unused refresh credential
    Overlap,     \* TRUE: decisions of two tabs may overlap
    Replay,      \* TRUE: any credential may be presented, more than once
    Lossy,       \* TRUE: the reply to a committed request may be lost
    MaxTime      \* bound on the clock

AuthorizationAssumption ==
    /\ IsFiniteSet(Tabs) /\ IsFiniteSet(Requests)
    /\ {MaxTokens, HandoffTtl, Freshness, Session, Idle, MaxTime} \subseteq Nat \ {0}
    /\ Overlap \in BOOLEAN /\ Replay \in BOOLEAN /\ Lossy \in BOOLEAN

Tokens == 1..MaxTokens

VARIABLES
    clock,       \* the time
    handoff,     \* the sealed authorization request in KV
    tab,         \* the decision submitted in each tab
    grant,       \* the provider's grants in KV
    auth,        \* the MCP Authorizations in Neon
    credential,  \* the refresh credentials in Neon
    request,     \* the token requests
    minted,      \* number of refresh tokens minted
    held         \* the tokens clients have received

vars == <<clock, handoff, tab, grant, auth, credential, request, minted, held>>
consent == <<handoff, tab>>
ledger == <<auth, credential>>

NoToken == 0

NoTab == [phase |-> "idle", decision |-> "none", verified |-> 0, now |-> 0]
NoGrant == [code |-> "none", current |-> NoToken, previous |-> NoToken]
NoAuth == [state |-> "none", family |-> "active", expires |-> 0, selected |-> FALSE]
NoCredential == [of |-> "none", parent |-> NoToken, issued |-> 0, expires |-> 0,
                 consumed |-> FALSE]
NoRequest == [phase |-> "idle", of |-> "none", token |-> NoToken, issued |-> NoToken, at |-> 0]

Init ==
    /\ clock = 1
    /\ handoff = [state |-> "none", expires |-> 0]
    /\ tab = [d \in Tabs |-> NoTab]
    /\ grant = [a \in Tabs |-> NoGrant]
    /\ auth = [a \in Tabs |-> NoAuth]
    /\ credential = [t \in Tokens |-> NoCredential]
    /\ request = [r \in Requests |-> NoRequest]
    /\ minted = 0
    /\ held = {}

Tick ==
    /\ clock < MaxTime
    /\ clock' = clock + 1
    /\ UNCHANGED <<handoff, tab, grant, auth, credential, request, minted, held>>

-----------------------------------------------------------------------------
(* Consent.                                                                  *)

Sealed == [state |-> "sealed", expires |-> clock + HandoffTtl]

(* The request of a client that is known, with nothing missing in it, is     *)
(* sealed and handed to the web app.                                         *)
SealAuthorizationRequest ==
    /\ handoff.state = "none"
    /\ handoff' = Sealed
    /\ UNCHANGED <<clock, tab, grant, auth, credential, request, minted, held>>

OpenAuthorizationRequest == handoff.state = "sealed" /\ clock < handoff.expires

Deciding(d) == tab[d].phase \in {"inspected", "opened", "reopened", "consumed", "completed"}

Moves(d, phase) == tab' = [tab EXCEPT ![d].phase = phase]

(* The consent page shows the request; the User decides after a verification *)
(* of their identity.                                                        *)
Inspect(d) ==
    /\ tab[d].phase = "idle"
    /\ OpenAuthorizationRequest
    /\ Overlap \/ \A e \in Tabs : ~ Deciding(e)
    /\ tab' = [tab EXCEPT ![d] = [NoTab EXCEPT !.phase = "inspected", !.verified = clock]]
    /\ UNCHANGED <<clock, handoff, grant, ledger, request, minted, held>>

(* An approval needs a recent verification, a denial an identity only.       *)
DecisionBegins(d, decision) ==
    /\ tab[d].phase = "inspected"
    /\ tab' = [tab EXCEPT ![d].decision = decision,
                          ![d].phase =
                              IF /\ OpenAuthorizationRequest
                                 /\ decision = "deny" \/ clock - tab[d].verified < Freshness
                              THEN "opened" ELSE "refused"]
    /\ UNCHANGED <<clock, handoff, grant, ledger, request, minted, held>>

(* The handoff is read once more to be consumed.                             *)
Reopen(d) ==
    /\ tab[d].phase = "opened"
    /\ Moves(d, IF OpenAuthorizationRequest THEN "reopened" ELSE "refused")
    /\ UNCHANGED <<clock, handoff, grant, ledger, request, minted, held>>

(* Its key is deleted: KV does not tell whether it still existed.            *)
Consume(d) ==
    /\ tab[d].phase = "reopened"
    /\ handoff' = [handoff EXCEPT !.state = "consumed"]
    /\ Moves(d, "consumed")
    /\ UNCHANGED <<clock, grant, ledger, request, minted, held>>

Deny(d) ==
    /\ tab[d].phase = "consumed" /\ tab[d].decision = "deny"
    /\ Moves(d, "denied")
    /\ UNCHANGED <<clock, handoff, grant, ledger, request, minted, held>>

(* The provider keeps a grant and a code for it.                             *)
CompleteAuthorization(d) ==
    /\ tab[d].phase = "consumed" /\ tab[d].decision = "approve"
    /\ tab' = [tab EXCEPT ![d].phase = "completed", ![d].now = clock]
    /\ grant' = [grant EXCEPT ![d].code = "ready"]
    /\ UNCHANGED <<clock, handoff, ledger, request, minted, held>>

AuthorizationRow(d) ==
    [state |-> "active", family |-> "active", expires |-> tab[d].now + Session, selected |-> TRUE]

(* The authorization is stored with the time at which the identifiers were   *)
(* generated; the verification must be younger than that by Freshness.       *)
Create(d) ==
    /\ tab[d].phase = "completed"
    /\ tab[d].now - tab[d].verified < Freshness
    /\ Moves(d, "approved")
    /\ auth' = [auth EXCEPT ![d] = AuthorizationRow(d)]
    /\ UNCHANGED <<clock, handoff, grant, credential, request, minted, held>>

(* A step fails, a Connection selected is gone, or the invocation ends: the  *)
(* code is never handed to the client.                                       *)
DecisionFails(d) ==
    /\ Deciding(d)
    /\ Moves(d, "failed")
    /\ UNCHANGED <<clock, handoff, grant, ledger, request, minted, held>>

-----------------------------------------------------------------------------
(* What holds of an authorization for its tokens to count.                   *)

IsActive(a, t) ==
    auth[a].state = "active" /\ auth[a].family = "active" /\ t < auth[a].expires /\ auth[a].selected

(* The User revokes the authorization; the Connections it selects are        *)
(* deleted. Rows locked by a rotation are waited for.                        *)
Locked(a) == \E r \in Requests : request[r].of = a /\ request[r].phase \in {"locked", "issued"}

Revoked(a) == [auth[a] EXCEPT !.state = "revoked", !.family = "revoked"]

Revoke(a) ==
    /\ auth[a].state = "active"
    /\ ~ Locked(a)
    /\ auth' = [auth EXCEPT ![a] = Revoked(a)]
    /\ UNCHANGED <<clock, handoff, tab, grant, credential, request, minted, held>>

(* What the settings tell of an authorization. A family that was revoked by  *)
(* a reuse is not told from one that goes on.                                *)
Summary(a) == [expired |-> auth[a].expires <= clock, revoked |-> auth[a].state = "revoked"]

DeleteConnections(a) ==
    /\ auth[a].selected
    /\ auth' = [auth EXCEPT ![a].selected = FALSE]
    /\ UNCHANGED <<clock, handoff, tab, grant, credential, request, minted, held>>

-----------------------------------------------------------------------------
(* The first credential.                                                     *)

Free(r) == request[r].phase \in {"idle", "invalid", "reuse"}

Ends(r, phase) == request' = [request EXCEPT ![r] = [NoRequest EXCEPT !.phase = phase]]

(* The provider exchanges the code. A code may be accepted twice when two    *)
(* exchanges read the grant before either has changed it.                    *)
ExchangeCode(r, a) ==
    /\ Free(r)
    /\ tab[a].phase = "approved"
    /\ \/ grant[a].code = "ready"
       \/ Replay /\ \E s \in Requests : request[s].of = a /\ request[s].phase = "exchanged"
    /\ minted < MaxTokens
    /\ IsActive(a, clock)
    /\ minted' = minted + 1
    /\ grant' = [grant EXCEPT ![a] = [code |-> "used", current |-> minted + 1, previous |-> NoToken]]
    /\ request' = [request EXCEPT ![r] =
           [phase |-> "exchanged", of |-> a, token |-> NoToken, issued |-> minted + 1,
            at |-> clock]]
    /\ UNCHANGED <<clock, consent, ledger, held>>

CredentialsOf(a) == {t \in Tokens : credential[t].of = a}

(* Mutant: a credential is given its time whatever is left of the session.   *)
IdleExpiresAt(a, at) == at + Idle

InactiveExpiresAt(a, at) == Min({at + Idle, auth[a].expires})

Issued(a, parent, at) ==
    [of |-> a, parent |-> parent, issued |-> at, expires |-> InactiveExpiresAt(a, at),
     consumed |-> FALSE]

Registers(a) == IsActive(a, clock) /\ CredentialsOf(a) = {}

RegisterRefreshCredential(r) ==
    LET a == request[r].of IN
    /\ request[r].phase = "exchanged"
    /\ IF Registers(a)
       THEN /\ credential' = [credential EXCEPT ![request[r].issued] = Issued(a, NoToken, clock)]
            /\ request' = [request EXCEPT ![r].phase = "committed"]
       ELSE Ends(r, "invalid") /\ UNCHANGED credential
    /\ UNCHANGED <<clock, consent, grant, auth, minted, held>>

-----------------------------------------------------------------------------
(* Rotation: one transaction that locks the credential and its               *)
(* authorization, with the provider's exchange inside. Its time is that of   *)
(* the arrival of the request, before it waits for the lock.                 *)

Present(r, t) ==
    /\ Free(r)
    /\ t \in held
    /\ Replay \/ (t = Max(held) /\ \A s \in Requests : Free(s))
    /\ request' = [request EXCEPT ![r] =
           [phase |-> "asked", of |-> credential[t].of, token |-> t, issued |-> NoToken,
            at |-> clock]]
    /\ UNCHANGED <<clock, consent, grant, ledger, minted, held>>

(* Mutant: the rows are read without being locked.                           *)
Readable(a) == TRUE

Lockable(a) == ~ Locked(a)

(* A credential consumed before revokes its family.                          *)
RefuseReuse(r, a) ==
    /\ auth' = [auth EXCEPT ![a].family = "revoked"]
    /\ Ends(r, "reuse")

LockRefreshCredential(r) ==
    LET a == request[r].of
        c == credential[request[r].token] IN
    /\ request[r].phase = "asked"
    /\ Lockable(a)
    /\ CASE c.consumed -> RefuseReuse(r, a)
         [] ~ c.consumed /\ IsActive(a, request[r].at) /\ request[r].at < c.expires ->
               request' = [request EXCEPT ![r].phase = "locked"] /\ auth' = auth
         [] OTHER -> Ends(r, "invalid") /\ auth' = auth
    /\ UNCHANGED <<clock, consent, grant, credential, minted, held>>

(* The provider accepts its current token and the one before it.             *)
Accepted(a, t) == t \in {grant[a].current, grant[a].previous} \ {NoToken}

IssueTokens(r) ==
    LET a == request[r].of IN
    /\ request[r].phase = "locked"
    /\ Accepted(a, request[r].token)
    /\ IsActive(a, clock)
    /\ minted < MaxTokens
    /\ minted' = minted + 1
    /\ grant' = [grant EXCEPT ![a].current = minted + 1, ![a].previous = request[r].token]
    /\ request' = [request EXCEPT ![r].phase = "issued", ![r].issued = minted + 1]
    /\ UNCHANGED <<clock, consent, ledger, held>>

Consumes(r) ==
    credential' = [credential EXCEPT
        ![request[r].token].consumed = TRUE,
        ![request[r].issued] = Issued(request[r].of, request[r].token, request[r].at)]

CommitRotation(r) ==
    /\ request[r].phase = "issued"
    /\ Consumes(r)
    /\ request' = [request EXCEPT ![r].phase = "committed"]
    /\ UNCHANGED <<clock, consent, grant, auth, minted, held>>

(* The provider does not exchange the token: the transaction rolls back.     *)
ProviderRefuses(r) ==
    /\ request[r].phase = "locked"
    /\ \/ ~ Accepted(request[r].of, request[r].token)
       \/ ~ IsActive(request[r].of, clock)
       \/ minted = MaxTokens
    /\ Ends(r, "idle")
    /\ UNCHANGED <<clock, consent, grant, ledger, minted, held>>

(* The provider or the database fails: the transaction rolls back and the    *)
(* client is told to try again. What the provider wrote to KV stays.         *)
Unavailable(r) ==
    /\ request[r].phase \in {"exchanged", "asked", "locked", "issued"}
    /\ Ends(r, "idle")
    /\ UNCHANGED <<clock, consent, grant, ledger, minted, held>>

Reply(r) ==
    /\ request[r].phase = "committed"
    /\ held' = held \cup {request[r].issued}
    /\ Ends(r, "idle")
    /\ UNCHANGED <<clock, consent, grant, ledger, minted>>

LoseReply(r) ==
    /\ Lossy
    /\ request[r].phase = "committed"
    /\ Ends(r, "idle")
    /\ UNCHANGED <<clock, consent, grant, ledger, minted, held>>

Finish(r) ==
    \/ RegisterRefreshCredential(r)
    \/ IssueTokens(r) \/ ProviderRefuses(r) \/ CommitRotation(r)
    \/ Reply(r)

Next ==
    \/ Tick
    \/ SealAuthorizationRequest
    \/ \E d \in Tabs :
          \/ Inspect(d)
          \/ \E decision \in {"approve", "deny"} : DecisionBegins(d, decision)
          \/ Reopen(d) \/ Consume(d) \/ Deny(d)
          \/ CompleteAuthorization(d) \/ Create(d) \/ DecisionFails(d)
          \/ Revoke(d) \/ DeleteConnections(d)
    \/ \E r \in Requests :
          \/ \E a \in Tabs : ExchangeCode(r, a)
          \/ \E t \in Tokens : Present(r, t)
          \/ LockRefreshCredential(r) \/ Unavailable(r) \/ LoseReply(r)
          \/ Finish(r)

Spec == Init /\ [][Next]_vars

-----------------------------------------------------------------------------
(* What consent, the credentials of a family and their revocation promise.   *)

AuthorizationState(a) ==
    /\ auth[a].state \in {"none", "active", "revoked"}
    /\ auth[a].family \in {"active", "revoked"}

(* A credential is younger than the one it was rotated from.                 *)
CredentialRow(t) ==
    credential[t].of \in Tabs \cup {"none"} /\ credential[t].parent < t

(* Types of the consent, the authorizations and the credentials.             *)
TypeOK ==
    /\ clock \in 1..MaxTime
    /\ handoff.state \in {"none", "sealed", "consumed"}
    /\ \A d \in Tabs : tab[d].verified \in 0..MaxTime /\ tab[d].now \in 0..MaxTime
    /\ \A a \in Tabs : AuthorizationState(a)
    /\ \A t \in Tokens : CredentialRow(t)
    /\ minted \in 0..MaxTokens
    /\ held \subseteq 1..minted

Children(t) == {u \in Tokens : credential[u].parent = t}

(* However many requests present it at once, a credential has one            *)
(* descendant, and a family one credential that is not consumed.             *)
OneDescendant ==
    /\ \A t \in Tokens : Cardinality(Children(t)) <= 1
    /\ \A a \in Tabs : Cardinality({t \in CredentialsOf(a) : ~ credential[t].consumed}) <= 1

(* Once a credential that was consumed has been presented, or the User has   *)
(* revoked the authorization, nothing descends in that family any more: no   *)
(* step commits a rotation of it.                                            *)
RevokedIsFinal ==
    [][\A a \in Tabs :
          auth[a].family = "revoked" =>
             /\ auth'[a].family = "revoked"
             /\ CredentialsOf(a)' = CredentialsOf(a)]_vars

(* A request that presents a consumed credential ends as a reuse only with   *)
(* the family revoked, whoever else presents its descendants meanwhile.      *)
ReuseRevokes ==
    [][\A r \in Requests :
          request[r].phase = "asked" /\ request'[r].phase = "reuse" =>
             auth'[request[r].of].family = "revoked"]_vars

(* No credential outlives the session its authorization was given, nor is    *)
(* one rotated after it had been idle for too long.                          *)
SessionBound ==
    /\ \A t \in Tokens :
          credential[t].of # "none" =>
             /\ credential[t].expires <= auth[credential[t].of].expires
             /\ credential[t].issued < credential[t].expires
    /\ \A a \in Tabs : auth[a].state # "none" => auth[a].expires <= tab[a].now + Session

(* What the settings show as expired or revoked can no longer be used: no    *)
(* rotation holds its rows once it is revoked, and no credential of it has   *)
(* time left once it has expired.                                            *)
ShownEnded ==
    \A a \in Tabs :
        /\ Summary(a).revoked => ~ Locked(a) /\ ~ IsActive(a, clock)
        /\ auth[a].state # "none" /\ Summary(a).expired =>
              \A t \in CredentialsOf(a) : credential[t].expires <= clock

(* Decisions that do not overlap make one authorization, or none, of a       *)
(* handoff, and none of one that was denied; the User had just been verified.*)
OneConsent ==
    /\ Cardinality({a \in Tabs : auth[a].state # "none"}) <= 1
    /\ \A a, d \in Tabs : auth[a].state # "none" => tab[d].phase # "denied"
    /\ \A a \in Tabs : auth[a].state # "none" => tab[a].now - tab[a].verified < Freshness

(* A client that presents its newest credential, one request at a time, and  *)
(* receives every reply never meets a reuse, and its newest credential stays *)
(* acceptable to Neon and to the provider, however many attempts failed.     *)
HolderKeepsAccess ==
    /\ \A r \in Requests : request[r].phase # "reuse"
    /\ \A r \in Requests, t \in held :
          request[r].phase = "asked" /\ request[r].token = t =>
             ~ credential[t].consumed /\ Accepted(credential[t].of, t)

(* A request that holds its rows goes on, and one that waits for them gets   *)
(* its turn.                                                                 *)
Fairness ==
    /\ \A r \in Requests :
          /\ WF_vars(Finish(r))
          /\ SF_vars(LockRefreshCredential(r))

FairSpec == Spec /\ Fairness

(* Every token request comes to its end, also when several wait for the rows *)
(* of one family and the provider refuses.                                   *)
RequestEnds == \A r \in Requests : request[r].phase = "asked" ~> Free(r)
=============================================================================
