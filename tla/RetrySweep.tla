----------------------------- MODULE RetrySweep -----------------------------
(***************************************************************************)
(* DeliveryService.retry_pending(): the cron job lists the failed messages *)
(* a retry may help, least recently attempted first and at most Limit of   *)
(* them, and retries each.  Delivery says what an attempt does to a row;   *)
(* this module says which rows get one.  A user may retry a message at any *)
(* time (sending a quote again), in the middle of a sweep too.             *)
(***************************************************************************)
EXTENDS Integers, Sequences, SequencesExt

CONSTANTS Listable, Limit, MaxTries

ASSUME SweepAssumption == Limit \in Nat \ {0} /\ MaxTries \in Nat \ {0}

VARIABLES
  failed,    \* rows failed as transient or unavailable, by last_attempted_at
  attempts,  \* attempt_count
  resolved,  \* rows sent, or failed for good
  todo,      \* what is left of the list the sweep in progress made
  tried      \* the rows this sweep has attempted

sweepVars == <<failed, attempts, resolved, todo, tried>>

SweepTypeOK ==
  /\ failed \in Seq(Listable) /\ IsInjective(failed)
  /\ attempts \in [Listable -> 0..MaxTries]
  /\ resolved \subseteq Listable \ ToSet(failed)
  /\ todo \in Seq(Listable)
  /\ tried \subseteq Listable

SweepInit ==
  /\ failed = <<>>
  /\ attempts = [m \in Listable |-> 0]
  /\ resolved = {}
  /\ todo = <<>>
  /\ tried = {}

\* The first attempt of send() fails and may be retried.
FirstFailure(m) ==
  /\ attempts[m] = 0
  /\ failed' = Append(failed, m)
  /\ attempts' = [attempts EXCEPT ![m] = 1]
  /\ UNCHANGED <<resolved, todo, tried>>

\* list_retryable_communications(limit).
ListedNow == SubSeq(failed, 1, IF Len(failed) < Limit THEN Len(failed) ELSE Limit)

StartSweep ==
  /\ todo = <<>>
  /\ failed # <<>>
  /\ todo' = ListedNow
  /\ tried' = {}
  /\ UNCHANGED <<failed, attempts, resolved>>

\* Mutant: no bound on attempts.
RetriesForever(m) == m \in ToSet(failed)

\* retry(): the row as it is now may have one more attempt.
MayRetry(m) == m \in ToSet(failed) /\ attempts[m] < MaxTries

\* Another failure moves the row behind all others; any other answer resolves it.
SweepTry(m) ==
  /\ attempts' = [attempts EXCEPT ![m] = @ + 1]
  /\ \E i \in DOMAIN failed :
       /\ failed[i] = m
       /\ \/ /\ failed' = Append(RemoveAt(failed, i), m)
             /\ UNCHANGED resolved
          \/ /\ failed' = RemoveAt(failed, i)
             /\ resolved' = resolved \cup {m}

TryHead ==
  /\ todo # <<>>
  /\ MayRetry(Head(todo))
  /\ SweepTry(Head(todo))
  /\ tried' = tried \cup {Head(todo)}

\* Mutant: the list is made again after each attempt.
SweepRelists == TryHead /\ todo' = ListedNow'

SweepAttempt == TryHead /\ todo' = Tail(todo)

\* The row returned unchanged: exhausted, or resolved since the list was made.
SkipTo(rest) ==
  /\ todo # <<>>
  /\ ~MayRetry(Head(todo))
  /\ todo' = rest
  /\ UNCHANGED <<failed, attempts, resolved, tried>>

\* Mutant: such a row ends the sweep.
SweepBreaks == SkipTo(<<>>)

SweepSkip == SkipTo(Tail(todo))

UserRetry(m) ==
  /\ MayRetry(m)
  /\ SweepTry(m)
  /\ UNCHANGED <<todo, tried>>

SweepNext ==
  \/ \E m \in Listable : FirstFailure(m) \/ UserRetry(m)
  \/ StartSweep
  \/ SweepAttempt
  \/ SweepSkip

SweepSpec == SweepInit /\ [][SweepNext]_sweepVars

\* The job runs on a schedule and a sweep that runs gets to its end.
SweepFairness == WF_sweepVars(StartSweep) /\ WF_sweepVars(SweepAttempt \/ SweepSkip)

-----------------------------------------------------------------------------
\* One sweep attempts a row at most once, however the order changes under it.
OncePerSweep == IsInjective(todo) /\ tried \cap ToSet(todo) = {}

\* The rows are what they should be, and a sweep does its work once.
SweepIsSound == SweepTypeOK /\ OncePerSweep

\* Every failed row is retried until it is resolved or out of attempts.  It
\* holds while the rows on the list fit in one sweep; exhausted rows stay at
\* the head of the list for ever, and Limit of them starve all others.
EveryRowIsRetried ==
  \A m \in Listable : MayRetry(m) ~> ~MayRetry(m)
=============================================================================
