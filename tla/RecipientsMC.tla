----------------------------- MODULE RecipientsMC -----------------------------
(***************************************************************************)
(* The rule about one recipient, and the Directory the recipients come     *)
(* from.  One run explores several cases; `part` is the one that moves,    *)
(* and the others stand in an initial state:                               *)
(*   observed  two changes of the rule, a failure, and a message           *)
(*   retries   two changes by two requests, until bindings expire        *)
(*   restored  two changes and a restore of the database                   *)
(*   purge     a change, messages and a restore, at half milliseconds      *)
(*   contacts, groups, senders: the Directory of one entry, read by two    *)
(*             reconciliations, changed by webhooks, by senders            *)
(*   pages     one read of a list of four entries that changes meanwhile   *)
(***************************************************************************)
EXTENDS RecipientExclusion, TLC

CONSTANTS k1, k2, s1, s2, msg, r1, r2, e1, e2, e3, e4

VARIABLES
  part,
  truth, row, proj, run, mail, connected, fails, drops, moment, newest,
  list, read, answer, refused, changes, seen

directoryVars == <<truth, row, proj, run, mail, connected, fails, drops, moment, newest>>
readVars == <<list, read, answer, refused, changes, seen>>

-----------------------------------------------------------------------------
Retries == INSTANCE RecipientExclusion WITH
  Keys <- {k1, k2}, Slots <- {s1, s2}, Messages <- {msg}, PerMs <- 2, Retention <- 2, MaxTime <- 5,
  MaxTransitions <- 2, MaxFaults <- 0, MaxRestores <- 0

Restored == INSTANCE RecipientExclusion WITH
  Keys <- {k1, k2}, Slots <- {s1}, Messages <- {msg}, PerMs <- 2, Retention <- 9, MaxTime <- 4,
  MaxTransitions <- 2, MaxFaults <- 0, MaxRestores <- 1

Purge == INSTANCE RecipientExclusion WITH
  Keys <- {k1}, Slots <- {s1}, Messages <- {msg}, PerMs <- 2, Retention <- 9, MaxTime <- 4,
  MaxTransitions <- 1, MaxFaults <- 1, MaxRestores <- 1

Contacts == INSTANCE Directory WITH
  Kind <- "contacts", Keys <- {k1}, Runs <- {r1, r2}, NoRun <- None, Old <- 5, Lease <- 1,
  Every <- 1, Due <- 2, MaxSeq <- 2, Failures <- 1, Drops <- 0, Prompt <- FALSE, Torn <- FALSE,
  Senders <- FALSE, Chatter <- FALSE

Groups == INSTANCE Directory WITH
  Kind <- "groups", Keys <- {k1}, Runs <- {r1, r2}, NoRun <- None, Old <- 5, Lease <- 1,
  Every <- 1, Due <- 2, MaxSeq <- 2, Failures <- 1, Drops <- 0, Prompt <- FALSE, Torn <- FALSE,
  Senders <- FALSE, Chatter <- TRUE

Strangers == INSTANCE Directory WITH
  Kind <- "contacts", Keys <- {k1}, Runs <- {r1}, NoRun <- None, Old <- 5, Lease <- 1,
  Every <- 1, Due <- 2, MaxSeq <- 1, Failures <- 0, Drops <- 1, Prompt <- FALSE, Torn <- FALSE,
  Senders <- TRUE, Chatter <- FALSE

Read == INSTANCE DirectoryRead WITH
  Entries <- {e1, e2, e3, e4}, Unsupported <- {e1}, Limit <- 2, Attempts <- 3, Changes <- 2

ASSUME Contacts!DirectoryAssumption /\ Groups!DirectoryAssumption /\ Strangers!DirectoryAssumption
ASSUME Read!DirectoryReadAssumption

-----------------------------------------------------------------------------
RunInit ==
  /\ part \in {"observed", "retries", "restored", "purge", "contacts", "groups", "senders", "pages"}
  /\ CASE part = "retries" -> Retries!Init
       [] part = "restored" -> Restored!Init
       [] part = "purge" -> Purge!Init
       [] part = "observed" -> Init
       [] OTHER -> Init /\ directory
  /\ IF part = "senders" THEN Strangers!Init ELSE Contacts!Init
  /\ Read!Init
  /\ part = "pages" \/ list = <<>>

RunNext ==
  \/ /\ \/ part = "observed" /\ Next
        \/ part = "retries" /\ Retries!Next /\ UNCHANGED messages
        \/ part = "restored" /\ Restored!Next /\ UNCHANGED messages
        \/ part = "purge" /\ Purge!Next
     /\ UNCHANGED <<part, directoryVars, readVars>>
  \/ /\ \/ part = "contacts" /\ Contacts!Next
        \/ part = "groups" /\ Groups!Next
        \/ part = "senders" /\ Strangers!Next
     /\ UNCHANGED <<part, vars, readVars>>
  \/ part = "pages" /\ Read!Next /\ UNCHANGED <<part, vars, directoryVars>>

RunSpec == RunInit /\ [][RunNext]_<<part, vars, directoryVars, readVars>>

Symmetry == Permutations({k1, k2}) \cup Permutations({s1, s2})

-----------------------------------------------------------------------------
\* What was acknowledged is in force after a restore, and what an acknowledged purge covered
\* stays unreadable; within its retention a key that is retried is answered as before
\* (whatsapp-recipient-exclusion.ts, replay_whatsapp_recipient_exclusion).
RulesSurvive ==
  /\ [](part = "restored" => Restored!AcknowledgedInForce)
  /\ [](part = "purge" => Purge!PurgeCoversRestore)
  /\ Retries!SameAnswer

\* The Directory shows every entry as the provider once had it and never goes back, in
\* whatever order items and snapshots arrive; a message of a stranger takes no entry over;
\* and a read that says complete read the whole list (whatsapp-directory.ts,
\* contact-directory.ts, group-directory.ts).
DirectoryFollows ==
  /\ [](part \in {"contacts", "groups"} => Contacts!Truthful)
  /\ [](part = "groups" => Groups!NewestWins)
  /\ [](Read!CompleteIsTheList /\ Read!EachOnce /\ Read!RefusedYieldsNothing)
  /\ Contacts!NoRegress
  /\ Strangers!SendersOnlyInsert
=============================================================================
