------------------------------- MODULE Diary -------------------------------
(***************************************************************************)
(* What a workspace has to remember: a site visit, a task, the follow-up   *)
(* of stale enquiries and the reminders of a trial (app/appointments,      *)
(* app/tasks, app/notifications, app/billing/trial_reminders.py and the    *)
(* two jobs that call them).                                               *)
(*                                                                         *)
(* Requests and runs of the job interleave at their commits.  A row is     *)
(* read once per request, and an UPDATE writes the columns that differ     *)
(* from what was read.                                                     *)
(***************************************************************************)
EXTENDS Naturals, FiniteSets

CONSTANTS
  Actors,      \* requests of the staff and runs of the job
  Projects,    \* enquiries the workspace has had
  Owners,      \* its verified, active owners
  FirstOwner,  \* the earliest of them
  Staff,       \* its other users
  MaxTaskSets, \* bound: times the task is given a status
  MaxStops     \* bound: actors that die

ASSUME DiaryAssumption ==
  /\ FirstOwner \in Owners /\ Owners \cap Staff = {}
  /\ IsFiniteSet(Actors) /\ IsFiniteSet(Owners)
  /\ MaxTaskSets \in Nat /\ MaxStops \in Nat

VARIABLES
  visit,     \* the site visit: its status and its entries in the activity log
  task,      \* the task: its columns, its entries, and times it was set
  projects,  \* status, assignee and age of every project
  notes,     \* rows of notifications: project, recipient
  trial,     \* the app-run trial at the current time, until it is subscribed
  mail,      \* communications of the reminders, by kind and owner
  doing,     \* what each actor is in the middle of
  blots      \* rows two actors changed at once, and what deaths cut short

diaryVars == <<visit, task, projects, notes, trial, mail, doing, blots>>

Free  == [op |-> "free"]
Team  == Owners \cup Staff
Ends  == {"completed", "cancelled"}
Kinds == {"ending", "ended"}
Unset == "unset"

DiaryInit ==
  /\ visit = [status |-> Unset, scheduled |-> 0, completed |-> 0, cancelled |-> 0]
  /\ task = [status |-> "open", completed |-> FALSE, logged |-> 0, sets |-> 0]
  /\ projects = [p \in Projects |-> [status |-> "enquiry", assignee |-> Unset, stale |-> FALSE]]
  /\ notes = {} /\ trial = "running"
  /\ mail = [k \in Kinds |-> [o \in Owners |-> Unset]]
  /\ doing = [a \in Actors |-> Free]
  /\ blots = [visit |-> FALSE, task |-> FALSE, unlogged |-> 0, stops |-> 0]

DiaryTypeOK ==
  /\ visit \in [status : {Unset, "scheduled"} \cup Ends, scheduled : 0 .. 1,
                completed : 0 .. Cardinality(Actors), cancelled : 0 .. Cardinality(Actors)]
  /\ task \in [status : {"open", "done", "cancelled"}, completed : BOOLEAN,
               logged : 0 .. MaxTaskSets, sets : 0 .. MaxTaskSets]
  /\ projects \in [Projects -> [status : {"enquiry", "moved"}, assignee : Team \cup {Unset}, stale : BOOLEAN]]
  /\ \A n \in notes : n.project \in Projects
  /\ trial \in {"running", "ending", "expired", "subscribed"}
  /\ mail \in [Kinds -> [Owners -> {Unset, "pending", "sent", "failed", "unsendable"}]]
  /\ \A a \in Actors : doing[a].op \in {"free", "visit", "task", "log", "follow", "remind"}

On(a, op)     == doing[a].op = op
Turn(a, what) == doing' = [doing EXCEPT ![a] = what]

-----------------------------------------------------------------------------
(* appointments/service.py                                                 *)

\* create(): the row and its entry, in one commit.
ScheduleVisit(a) ==
  /\ On(a, "free") /\ visit.status = Unset
  /\ visit' = [visit EXCEPT !.status = "scheduled", !.scheduled = @ + 1]
  /\ UNCHANGED <<task, projects, notes, trial, mail, doing, blots>>

\* Mutant: a visit that is over may be ended again.
ReadAnyVisit(a, target) ==
  /\ On(a, "free") /\ visit.status \notin {Unset, target}
  /\ Turn(a, [op |-> "visit", target |-> target, seen |-> visit.status])
  /\ UNCHANGED <<visit, task, projects, notes, trial, mail, blots>>

\* transition_status(): repeating how a visit ended changes nothing, ending it otherwise
\* is an error.
ReadVisit(a, target) ==
  /\ On(a, "free") /\ visit.status = "scheduled"
  /\ Turn(a, [op |-> "visit", target |-> target, seen |-> visit.status])
  /\ UNCHANGED <<visit, task, projects, notes, trial, mail, blots>>

\* Mutant: no entry.
EndVisitQuietly(a) ==
  /\ On(a, "visit")
  /\ visit' = [visit EXCEPT !.status = doing[a].target]
  /\ blots' = [blots EXCEPT !.visit = @ \/ visit.status # doing[a].seen]
  /\ Turn(a, Free)
  /\ UNCHANGED <<task, projects, notes, trial, mail>>

\* The status and its entry, in one commit; the status was read before.
EndVisit(a) ==
  LET target == doing[a].target IN
  /\ On(a, "visit")
  /\ visit' = [visit EXCEPT !.status = target,
                            !.completed = @ + IF target = "completed" THEN 1 ELSE 0,
                            !.cancelled = @ + IF target = "cancelled" THEN 1 ELSE 0]
  /\ blots' = [blots EXCEPT !.visit = @ \/ visit.status # doing[a].seen]
  /\ Turn(a, Free)
  /\ UNCHANGED <<task, projects, notes, trial, mail>>

-----------------------------------------------------------------------------
(* tasks/service.py: set_status(), and crud.update_task_status()           *)

ReadTask(a, status) ==
  /\ On(a, "free") /\ task.sets < MaxTaskSets
  /\ task' = [task EXCEPT !.sets = @ + 1]
  /\ Turn(a, [op |-> "task", target |-> status, seen |-> task.status, stamped |-> task.completed])
  /\ UNCHANGED <<visit, projects, notes, trial, mail, blots>>

\* Mutant: the completion time of a task that is reopened or abandoned stays.
WriteTaskKeepingTime(a) ==
  LET done == doing[a].target = "done" IN
  /\ On(a, "task")
  /\ task' = [task EXCEPT !.status = IF doing[a].target = doing[a].seen THEN @ ELSE doing[a].target,
                          !.completed = @ \/ done]
  /\ blots' = [blots EXCEPT !.task = @ \/ task.status # doing[a].seen \/ task.completed # doing[a].stamped]
  /\ Turn(a, IF done THEN [op |-> "log"] ELSE Free)
  /\ UNCHANGED <<visit, projects, notes, trial, mail>>

\* Every column that differs from the row as it was read; "done" always has a new time.
WriteTask(a) ==
  LET done == doing[a].target = "done" IN
  /\ On(a, "task")
  /\ task' = [task EXCEPT !.status = IF doing[a].target = doing[a].seen THEN @ ELSE doing[a].target,
                          !.completed = IF done THEN TRUE ELSE IF doing[a].stamped THEN FALSE ELSE @]
  /\ blots' = [blots EXCEPT !.task = @ \/ task.status # doing[a].seen \/ task.completed # doing[a].stamped]
  /\ Turn(a, IF done THEN [op |-> "log"] ELSE Free)
  /\ UNCHANGED <<visit, projects, notes, trial, mail>>

\* In a transaction of its own.
LogTask(a) ==
  /\ On(a, "log")
  /\ task' = [task EXCEPT !.logged = @ + 1]
  /\ Turn(a, Free)
  /\ UNCHANGED <<visit, projects, notes, trial, mail, blots>>

-----------------------------------------------------------------------------
(* The projects, and the clock.                                            *)

AssignProject(p, who) ==
  /\ projects[p].assignee # who
  /\ projects' = [projects EXCEPT ![p].assignee = who]
  /\ UNCHANGED <<visit, task, notes, trial, mail, doing, blots>>

ProgressProject(p) ==
  /\ projects[p].status = "enquiry"
  /\ projects' = [projects EXCEPT ![p].status = "moved"]
  /\ UNCHANGED <<visit, task, notes, trial, mail, doing, blots>>

\* A week passes.
TurnStale(p) ==
  /\ ~ projects[p].stale
  /\ projects' = [projects EXCEPT ![p].stale = TRUE]
  /\ UNCHANGED <<visit, task, notes, trial, mail, doing, blots>>

\* trial_status() at the current time, and a subscription.
TrialMoves ==
  /\ \/ trial = "running" /\ trial' = "ending"
     \/ trial = "ending" /\ trial' = "expired"
     \/ trial # "subscribed" /\ trial' = "subscribed"
  /\ UNCHANGED <<visit, task, projects, notes, mail, doing, blots>>

-----------------------------------------------------------------------------
(* notifications/follow_up_service.py                                      *)

Due == {p \in Projects : projects[p].status = "enquiry" /\ projects[p].stale}

\* run(): the enquiries there are, and their age at `now'.
FollowStart(a) ==
  /\ On(a, "free")
  /\ Turn(a, [op |-> "follow", due |-> Due, left |-> Due, writing |-> {},
              read |-> [p \in Projects |-> {projects[p].assignee}]])
  /\ UNCHANGED <<visit, task, projects, notes, trial, mail, blots>>

\* _resolve_recipient(): the assignee, as listed or, once the run has committed, as of now;
\* else the earliest owner.
Recipient(a, p) ==
  LET who == IF doing[a].read[p] = {} THEN projects[p].assignee
             ELSE CHOOSE u \in doing[a].read[p] : TRUE
  IN  IF who # Unset THEN who ELSE FirstOwner

Noted(p) == \E n \in notes : n.project = p

\* One enquiry: skipped if it has its note, else its note is prepared.
FollowOne(a, p) ==
  /\ On(a, "follow") /\ doing[a].writing = {} /\ p \in doing[a].left
  /\ Turn(a, [doing[a] EXCEPT !.left = IF Noted(p) THEN @ \ {p} ELSE @,
                              !.writing = IF Noted(p) THEN {} ELSE {[project |-> p, to |-> Recipient(a, p)]}])
  /\ UNCHANGED <<visit, task, projects, notes, trial, mail, blots>>

\* Expires every row the run has read.
Written(a) ==
  Turn(a, [doing[a] EXCEPT !.left = @ \ {n.project : n \in doing[a].writing}, !.writing = {},
                           !.read = [p \in Projects |-> {}]])

\* Mutant: no unique dedupe_key behind the look-up.
FollowWriteTwice(a) ==
  /\ On(a, "follow") /\ doing[a].writing # {}
  /\ notes' = notes \cup doing[a].writing
  /\ Written(a)
  /\ UNCHANGED <<visit, task, projects, trial, mail, blots>>

\* The insert, or the IntegrityError of another run's note and the next enquiry.
FollowWrite(a) ==
  /\ On(a, "follow") /\ doing[a].writing # {}
  /\ notes' = notes \cup {n \in doing[a].writing : ~ Noted(n.project)}
  /\ Written(a)
  /\ UNCHANGED <<visit, task, projects, trial, mail, blots>>

-----------------------------------------------------------------------------
(* billing/trial_reminders.py                                              *)

\* Mutant: a worker without e-mail records its attempts.
RemindAnyway(a) ==
  \E able \in BOOLEAN :
    /\ On(a, "follow") /\ doing[a].left = {}
    /\ Turn(a, IF trial \in {"running", "subscribed"} THEN Free
               ELSE [op |-> "remind", kind |-> IF trial = "expired" THEN "ended" ELSE "ending",
                     left |-> Owners, to |-> {}, able |-> able])
    /\ UNCHANGED <<visit, task, projects, notes, trial, mail, blots>>

\* run(), which the follow-up job calls last: nothing where e-mail is not configured, nothing
\* for a trial that is running or subscribed; the state is read once for all owners.
Remind(a) ==
  \E able \in BOOLEAN :
    /\ On(a, "follow") /\ doing[a].left = {}
    /\ Turn(a, IF ~ able \/ trial \in {"running", "subscribed"} THEN Free
               ELSE [op |-> "remind", kind |-> IF trial = "expired" THEN "ended" ELSE "ending",
                     left |-> Owners, to |-> {}, able |-> able])
    /\ UNCHANGED <<visit, task, projects, notes, trial, mail, blots>>

Write(k, o, status) == mail' = [mail EXCEPT ![k][o] = status]

\* What is recorded is not sent again; a failure may be one that is retried.
RemindOne(a, o) ==
  LET d == doing[a] IN
  /\ On(a, "remind") /\ d.to = {} /\ o \in d.left
  /\ \/ /\ mail[d.kind][o] = Unset
        /\ Write(d.kind, o, "pending")
        /\ Turn(a, [d EXCEPT !.to = {o}])
     \/ /\ mail[d.kind][o] = "failed"
        /\ Turn(a, [d EXCEPT !.to = {o}]) /\ UNCHANGED mail
     \/ /\ mail[d.kind][o] # Unset
        /\ Turn(a, [d EXCEPT !.left = @ \ {o}]) /\ UNCHANGED mail
  /\ UNCHANGED <<visit, task, projects, notes, trial, blots>>

\* The provider's answer.
RemindSettle(a) ==
  LET d == doing[a] IN
  /\ On(a, "remind") /\ d.to # {}
  /\ \E o \in d.to, status \in {"sent", "failed"} :
       Write(d.kind, o, IF d.able THEN status ELSE "unsendable")
  /\ Turn(a, [d EXCEPT !.left = @ \ d.to, !.to = {}])
  /\ UNCHANGED <<visit, task, projects, notes, trial, blots>>

RemindEnd(a) ==
  /\ On(a, "remind") /\ doing[a].left = {}
  /\ Turn(a, Free)
  /\ UNCHANGED <<visit, task, projects, notes, trial, mail, blots>>

-----------------------------------------------------------------------------
Stop(a) ==
  /\ ~ On(a, "free") /\ blots.stops < MaxStops
  /\ blots' = [blots EXCEPT !.stops = @ + 1, !.unlogged = @ + IF On(a, "log") THEN 1 ELSE 0]
  /\ Turn(a, Free)
  /\ UNCHANGED <<visit, task, projects, notes, trial, mail>>

VisitsNext ==
  \E a \in Actors :
    \/ ScheduleVisit(a) \/ EndVisit(a) \/ \E end \in Ends : ReadVisit(a, end)
    \/ WriteTask(a) \/ LogTask(a) \/ \E s \in {"open", "done", "cancelled"} : ReadTask(a, s)
    \/ Stop(a)

\* A run of the job.
JobNext ==
  \E a \in Actors :
    \/ FollowStart(a) \/ FollowWrite(a) \/ Remind(a) \/ RemindSettle(a) \/ RemindEnd(a)
    \/ \E p \in Projects : FollowOne(a, p)
    \/ \E o \in Owners : RemindOne(a, o)
    \/ Stop(a)

ProjectsMove ==
  \E p \in Projects : ProgressProject(p) \/ TurnStale(p) \/ \E who \in Staff : AssignProject(p, who)

DiaryNext == VisitsNext \/ JobNext \/ ProjectsMove \/ TrialMoves

DiarySpec == DiaryInit /\ [][DiaryNext]_diaryVars

-----------------------------------------------------------------------------
(* How a visit ended is in the activity log, once, and the log does not    *)
(* say it ended otherwise too; only two requests that overlap leave more.  *)
VisitIsLogged ==
  /\ visit.status \in Ends => visit[visit.status] >= 1
  /\ visit.status # Unset => visit.scheduled = 1
  /\ ~ blots.visit => visit.completed + visit.cancelled = IF visit.status \in Ends THEN 1 ELSE 0

(* tasks/service.py: a task has a completion time exactly when it is done, *)
(* and its completion is logged, unless two requests overlapped or one     *)
(* died before its entry.                                                  *)
TaskTimeIsTrue ==
  /\ ~ blots.task => task.completed = (task.status = "done")
  /\ task.status = "done" =>
       \/ task.logged + blots.unlogged > 0
       \/ \E a \in Actors : On(a, "log")

(* A project is followed up once, whatever runs overlap, with somebody of  *)
(* the workspace, after it was stale; and a run that is past a due enquiry *)
(* leaves it with its note, also when another run's note was in the way.   *)
FollowedUpOnce ==
  /\ \A m, n \in notes : m.project = n.project => m = n
  /\ \A n \in notes : projects[n.project].stale /\ n.to \in Team
  /\ \A a \in Actors : On(a, "follow") => \A p \in doing[a].due \ doing[a].left : Noted(p)

(* A reminder is recorded only by a run that could send it, about a trial  *)
(* that had come that far; one that is under way has a run, or had one     *)
(* that died.                                                              *)
RemindersAreDue ==
  /\ \A k \in Kinds, o \in Owners : mail[k][o] # "unsendable"
  /\ \A o \in Owners :
       /\ mail["ending"][o] # Unset => trial # "running"
       /\ mail["ended"][o] # Unset => trial \in {"expired", "subscribed"}
  /\ Cardinality({m \in Kinds \X Owners : mail[m[1]][m[2]] = "pending"})
       <= blots.stops + Cardinality({a \in Actors : On(a, "remind") /\ doing[a].to # {}})

DiaryIsSound == VisitIsLogged /\ TaskTimeIsTrue /\ FollowedUpOnce /\ RemindersAreDue
=============================================================================
