------------------------------ MODULE SendOnce ------------------------------
(***************************************************************************)
(* What the Send Operation service promises its callers, with no database, *)
(* clock or provider in sight.  Every call names an idempotency key and    *)
(* carries an exact request; the first call admitted under a key owns it,  *)
(* only the owner ever reaches the provider and it does so at most once,   *)
(* and every later call under the key is answered from the owner alone.    *)
(***************************************************************************)
CONSTANTS Requests, Keys, KeyOf, PrintOf, None

VARIABLES owner,      \* owner[k]: the call that owns key k, or None
          attempted,  \* the calls that reached the provider
          reply       \* reply[r]: what call r was told, "none" before that

vars == <<owner, attempted, reply>>

Init == /\ owner = [k \in Keys |-> None]
        /\ attempted = {}
        /\ reply = [r \in Requests |-> "none"]

Answer(r, what) == reply[r] = "none" /\ reply' = [reply EXCEPT ![r] = what]

\* The call becomes the owner of its key: it will be told so if it lives.
Admit(r) == /\ owner[KeyOf[r]] = None
            /\ owner' = [owner EXCEPT ![KeyOf[r]] = r]
            /\ \/ Answer(r, "created")
               \/ reply[r] = "none" /\ UNCHANGED reply
            /\ UNCHANGED attempted

\* The one provider attempt of a key.
Attempt(r) == /\ owner[KeyOf[r]] = r
              /\ reply[r] = "created"
              /\ r \notin attempted
              /\ attempted' = attempted \cup {r}
              /\ UNCHANGED <<owner, reply>>

\* An exact repetition is answered with the owner's receipt.
Replay(r) == /\ owner[KeyOf[r]] \in Requests \ {r}
             /\ PrintOf[owner[KeyOf[r]]] = PrintOf[r]
             /\ Answer(r, "replayed")
             /\ UNCHANGED <<owner, attempted>>

\* The key was spent on another request.
Conflict(r) == /\ owner[KeyOf[r]] \in Requests \ {r}
               /\ PrintOf[owner[KeyOf[r]]] # PrintOf[r]
               /\ Answer(r, "conflict")
               /\ UNCHANGED <<owner, attempted>>

\* Authorization, eligibility, quota or an internal error: nothing happens.
Refuse(r) == /\ \E what \in {"refused", "error"} : Answer(r, what)
             /\ UNCHANGED <<owner, attempted>>

Next == \E r \in Requests :
          Admit(r) \/ Attempt(r) \/ Replay(r) \/ Conflict(r) \/ Refuse(r)

Spec == Init /\ [][Next]_vars
=============================================================================
