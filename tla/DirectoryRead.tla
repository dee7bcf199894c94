---------------------------- MODULE DirectoryRead ----------------------------
(***************************************************************************)
(* One read of a provider Directory: pages of a list that may change while *)
(* it is read, within three attempts and a time budget that retries and    *)
(* pages share (readDirectory).  The answer is a complete observation, a   *)
(* partial one, or a failure.                                              *)
(***************************************************************************)
EXTENDS Naturals, Sequences, FiniteSets, SequencesExt

CONSTANTS
  Entries,      \* what may be in the provider's list
  Unsupported,  \* entries whose identifier has a form that is not supported
  Limit,        \* entries on a page
  Attempts,     \* attempts of one read: three
  Changes       \* bound: changes of the list during the read

DirectoryReadAssumption ==
  /\ IsFiniteSet(Entries) /\ Unsupported \subseteq Entries
  /\ Limit \in Nat \ {0} /\ Attempts \in Nat \ {0} /\ Changes \in Nat

VARIABLES
  list,      \* the provider's list, in its order
  read,      \* attempts made, page wanted, entries kept, total declared
  answer,    \* none, complete, partial or failed
  refused,   \* history: the provider refused the session's credential
  changes,   \* changes so far
  seen       \* history: every entry the list held at some time

vars == <<list, read, answer, refused, changes, seen>>

Untried == [attempts |-> 0, page |-> 1, kept |-> <<>>, total |-> 0]

Lists == {l \in UNION {[1..n -> Entries] : n \in 0..Cardinality(Entries)} : IsInjective(l)}

Init ==
  /\ list \in Lists
  /\ read = Untried
  /\ answer = "none"
  /\ refused = FALSE
  /\ changes = 0
  /\ seen = Range(list)

Least(a, b) == IF a < b THEN a ELSE b
Pages(total) == IF total = 0 THEN 1 ELSE (total + Limit - 1) \div Limit
Shown(page) == SubSeq(list, (page - 1) * Limit + 1, Least(page * Limit, Len(list)))
Supported(items) == SelectSeq(items, LAMBDA e : e \notin Unsupported)

(* How the read answers when it cannot go on: with what it has once a page  *)
(* was validated, and as a failure before.                                  *)
Stops == IF read.page > 1 THEN "partial" ELSE "failed"

Change ==
  /\ answer = "none" /\ changes < Changes
  /\ \/ \E i \in 1..Len(list) : list' = RemoveAt(list, i)
     \/ \E i \in 1..(Len(list) + 1), e \in Entries \ Range(list) : list' = InsertAt(list, i, e)
  /\ seen' = seen \union Range(list')
  /\ changes' = changes + 1
  /\ UNCHANGED <<read, answer, refused>>

Attempting == answer = "none" /\ read.attempts < Attempts
Attempted == [read EXCEPT !.attempts = @ + 1]

(* Mutant: an entry may be listed twice. *)
ValidAgain(items) ==
  /\ read.page <= Pages(Len(list))
  /\ items # <<>> => Supported(items) # <<>>
  /\ read.page > 1 => read.total = Len(list)

(* A page that is in range, has at least one supported entry unless it is   *)
(* empty, declares the total the first one declared, and repeats nothing.   *)
Valid(items) ==
  /\ read.page <= Pages(Len(list))
  /\ items # <<>> => Supported(items) # <<>>
  /\ read.page > 1 => read.total = Len(list)
  /\ Range(Supported(items)) \intersect Range(read.kept) = {}

(* Mutant: the last page makes the observation complete. *)
EndsUncounted(kept) == "complete"

(* Complete only when as many entries were kept as the provider declared.   *)
Ends(kept) == IF Len(kept) = Len(list) THEN "complete" ELSE "partial"

Respond ==
  /\ Attempting
  /\ LET items == Shown(read.page) kept == read.kept \o Supported(items) IN
     IF ~Valid(items)
       THEN answer' = Stops /\ read' = Attempted
       ELSE /\ read' = [Attempted EXCEPT !.page = @ + 1, !.kept = kept, !.total = Len(list)]
            /\ answer' = IF read.page >= Pages(Len(list)) THEN Ends(kept) ELSE "none"
  /\ UNCHANGED <<list, refused, changes, seen>>

(* The entries kept would make the answer too big: it is a partial one,     *)
(* with those that fit, although no page may have come before.              *)
Overflows ==
  /\ Attempting /\ Valid(Shown(read.page))
  /\ \E n \in 0..Len(Supported(Shown(read.page))) :
       read' = [Attempted EXCEPT !.page = @ + 1, !.total = Len(list),
                                 !.kept = @ \o SubSeq(Supported(Shown(read.page)), 1, n)]
  /\ answer' = "partial"
  /\ UNCHANGED <<list, refused, changes, seen>>

(* Throttled, unavailable or timed out: tried again while attempts and the  *)
(* budget last.                                                             *)
Transient ==
  /\ Attempting
  /\ read' = Attempted
  /\ answer' \in (IF read.attempts + 1 < Attempts THEN {"none"} ELSE {}) \union {Stops}
  /\ UNCHANGED <<list, refused, changes, seen>>

(* An answer that must not be tried again, or that is malformed or too big. *)
Rejected ==
  /\ Attempting
  /\ read' = Attempted
  /\ answer' = Stops
  /\ UNCHANGED <<list, refused, changes, seen>>

(* Mutant: a refused credential is a failure like any other. *)
RefusedLikeOthers ==
  /\ Attempting
  /\ read' = Attempted
  /\ refused' = TRUE
  /\ answer' = Stops
  /\ UNCHANGED <<list, changes, seen>>

(* A refused credential fails the read, whatever was read before.           *)
Refused ==
  /\ Attempting
  /\ read' = Attempted
  /\ refused' = TRUE
  /\ answer' = "failed"
  /\ UNCHANGED <<list, changes, seen>>

(* The attempts, or the budget, are used up. *)
OutOfAttempts ==
  /\ answer = "none"
  /\ answer' = Stops
  /\ UNCHANGED <<list, read, refused, changes, seen>>

Next == Change \/ Respond \/ Overflows \/ Transient \/ Rejected \/ Refused \/ OutOfAttempts

Spec == Init /\ [][Next]_vars

(* Every attempt is bounded by a timeout, and so is their number.           *)
Fairness ==
  WF_vars(Respond \/ Transient \/ Rejected \/ Refused) /\ WF_vars(OutOfAttempts /\ read.attempts = Attempts)

FairSpec == Spec /\ Fairness

-----------------------------------------------------------------------------
(* What the answer of a Directory read says about the provider's list. *)

TypeOK ==
  /\ list \in Lists /\ seen \subseteq Entries
  /\ read.attempts \in 0..Attempts /\ read.page \in 1..(Attempts + 1)
  /\ read.kept \in Seq(Entries) /\ read.total \in 0..Cardinality(Entries)
  /\ answer \in {"none", "complete", "partial", "failed"}
  /\ refused \in BOOLEAN /\ changes \in 0..Changes

(* A complete answer about a list that stood still is the list: nothing     *)
(* was dropped for its form, its page or the budget (whatsapp-provider-     *)
(* seam.md: complete "only after every provider-declared page ... passes    *)
(* validation").                                                            *)
CompleteIsTheList ==
  answer = "complete" /\ changes = 0 => Range(read.kept) = Range(list)

(* An answer never lists an entry twice, nor one the provider never had,    *)
(* however the list moved under the pages.                                  *)
EachOnce == IsInjective(read.kept) /\ Range(read.kept) \subseteq seen

(* A credential that was refused never yields an observation, not even of   *)
(* the pages that were read before.                                         *)
RefusedYieldsNothing == refused => answer = "failed"

(* Every read comes to an answer. *)
Answers == <>(answer # "none")
=============================================================================
