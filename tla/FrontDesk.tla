----------------------------- MODULE FrontDesk -----------------------------
(***************************************************************************)
(* One workspace and one customer of it: the documents and the logo on the *)
(* upload volume, the customer's portal link and messages, the workspace's *)
(* export and its purge (app/documents, tenants/router.py, app/portal,     *)
(* app/messages, app/privacy).                                             *)
(*                                                                         *)
(* A file and the row that names it change in separate steps, nothing      *)
(* locks either, and a request may die between any two.  An action is the  *)
(* stretch of a request between two of its commits or file operations.     *)
(***************************************************************************)
EXTENDS Naturals, FiniteSets

CONSTANTS
  Requests,     \* request threads
  Files,        \* names a request may give a file (fresh UUIDs)
  MaxMessages,  \* bound: messages the customer posts
  MaxDeaths     \* bound: requests that die

ASSUME DeskAssumption ==
  /\ IsFiniteSet(Requests) /\ "none" \notin Files
  /\ MaxMessages \in Nat /\ MaxDeaths \in Nat

VARIABLES
  files,   \* names on the volume
  docs,    \* rows of documents, by file
  logo,    \* tenants.logo_storage_filename
  link,    \* the portal link: no link, active, expired or revoked
  thread,  \* the customer's messages: posted, in the activity log, notified of
  purge,   \* the workspace: kept, eligible for its purge, or purged
  export,  \* asked for, marked downloaded, copies handed out
  hand,    \* what each request has read and has still to do
  toll     \* what deaths and overlaps have left behind

deskVars == <<files, docs, logo, link, thread, purge, export, hand, toll>>

None == "none"
Idle == [op |-> "idle"]

DeskInit ==
  /\ files = {} /\ docs = {} /\ logo = None /\ link = None
  /\ thread = [posted |-> 0, logged |-> 0, told |-> 0]
  /\ purge = "kept" /\ export = [asked |-> FALSE, marked |-> FALSE, copies |-> 0]
  /\ hand = [r \in Requests |-> Idle]
  /\ toll = [stray |-> {}, lost |-> {}, late |-> {}, untold |-> 0, deaths |-> 0]

DeskTypeOK ==
  /\ files \subseteq Files /\ docs \subseteq Files /\ logo \in Files \cup {None}
  /\ link \in {None, "active", "expired", "revoked"}
  /\ thread \in [posted : 0 .. MaxMessages, logged : 0 .. MaxMessages, told : 0 .. MaxMessages]
  /\ purge \in {"kept", "eligible", "purged"}
  /\ export \in [asked : BOOLEAN, marked : BOOLEAN, copies : 0 .. Cardinality(Requests)]
  /\ \A r \in Requests : hand[r].op \in
       {"idle", "upload", "delete", "logo", "swap", "clear", "purge", "post", "export"}

Holds(r, op)  == hand[r].op = op
Take(r, what) == hand' = [hand EXCEPT ![r] = what]

\* The files a request in flight has written, or read the names of.
NamedBy(r) ==
  CASE hand[r].op \in {"upload", "logo", "delete"} -> {hand[r].file}
    [] Holds(r, "swap")  -> {hand[r].file, hand[r].previous} \ {None}
    [] Holds(r, "clear") -> {hand[r].previous} \ {None}
    [] Holds(r, "purge") -> hand[r].left \cup hand[r].gone
    [] OTHER             -> {}

Fresh == Files \ (files \cup docs \cup UNION {NamedBy(r) : r \in Requests})

\* A signed-in user; a purge deactivates every one of them.
SignedIn(r) == Holds(r, "idle") /\ purge # "purged"

-----------------------------------------------------------------------------
(* documents/service.py                                                    *)

\* upload_document(): the bytes, and then the row unless they are too many.
UploadFile(r, f) ==
  /\ SignedIn(r) /\ f \in Fresh
  /\ files' = files \cup {f}
  /\ Take(r, [op |-> "upload", file |-> f])
  /\ UNCHANGED <<docs, logo, link, thread, purge, export, toll>>

UploadTooLarge(r) ==
  /\ Holds(r, "upload")
  /\ files' = files \ {hand[r].file}
  /\ Take(r, Idle)
  /\ UNCHANGED <<docs, logo, link, thread, purge, export, toll>>

\* `late': beside a purge, or after it.
UploadRow(r) ==
  /\ Holds(r, "upload")
  /\ docs' = docs \cup {hand[r].file}
  /\ toll' = [toll EXCEPT !.late = IF purge = "purged" \/ \E s \in Requests : Holds(s, "purge")
                                   THEN @ \cup {hand[r].file} ELSE @]
  /\ Take(r, Idle)
  /\ UNCHANGED <<files, logo, link, thread, purge, export>>

\* delete_document(): the row is read, the bytes go, the row goes.
DeleteRead(r, f) ==
  /\ SignedIn(r) /\ f \in docs
  /\ Take(r, [op |-> "delete", file |-> f, gone |-> {}])
  /\ UNCHANGED <<files, docs, logo, link, thread, purge, export, toll>>

DeleteFile(r) ==
  /\ Holds(r, "delete") /\ hand[r].gone = {}
  /\ files' = files \ {hand[r].file}
  /\ Take(r, [hand[r] EXCEPT !.gone = {hand[r].file}])
  /\ UNCHANGED <<docs, logo, link, thread, purge, export, toll>>

\* unlink() fails: 409, and the row stays.
DeleteRefused(r) ==
  /\ Holds(r, "delete") /\ hand[r].gone = {}
  /\ Take(r, Idle)
  /\ UNCHANGED <<files, docs, logo, link, thread, purge, export, toll>>

\* Mutant: the row goes, with the bytes or without.
DeleteRowFirst(r) ==
  /\ Holds(r, "delete")
  /\ docs' = docs \ {hand[r].file}
  /\ Take(r, Idle)
  /\ UNCHANGED <<files, logo, link, thread, purge, export, toll>>

DeleteRow(r) ==
  /\ Holds(r, "delete") /\ hand[r].gone # {}
  /\ docs' = docs \ {hand[r].file}
  /\ Take(r, Idle)
  /\ UNCHANGED <<files, logo, link, thread, purge, export, toll>>

-----------------------------------------------------------------------------
(* tenants/router.py: upload_my_logo(), delete_my_logo()                   *)

LogoFile(r, f) ==
  /\ SignedIn(r) /\ f \in Fresh
  /\ files' = files \cup {f}
  /\ Take(r, [op |-> "logo", file |-> f])
  /\ UNCHANGED <<docs, logo, link, thread, purge, export, toll>>

\* Mutant: the old file goes before the row names the new one.
LogoReadAndRemove(r) ==
  /\ Holds(r, "logo")
  /\ files' = files \ {logo}
  /\ Take(r, [op |-> "swap", file |-> hand[r].file, previous |-> logo])
  /\ UNCHANGED <<docs, logo, link, thread, purge, export, toll>>

LogoRead(r) ==
  /\ Holds(r, "logo")
  /\ Take(r, [op |-> "swap", file |-> hand[r].file, previous |-> logo])
  /\ UNCHANGED <<files, docs, logo, link, thread, purge, export, toll>>

LogoClear(r) ==
  /\ SignedIn(r)
  /\ Take(r, [op |-> "swap", file |-> None, previous |-> logo])
  /\ UNCHANGED <<files, docs, logo, link, thread, purge, export, toll>>

\* set_logo_file(): written if it differs from the row as it was loaded. A logo another
\* request has set since is overwritten, and nobody will delete its file.
LogoSet(r) ==
  LET new == hand[r].file
      old == hand[r].previous IN
  /\ Holds(r, "swap")
  /\ logo' = IF new = old THEN logo ELSE new
  /\ toll' = [toll EXCEPT !.stray = IF new # old /\ logo # old THEN @ \cup ({logo} \ {None}) ELSE @]
  /\ Take(r, [op |-> "clear", previous |-> old])
  /\ UNCHANGED <<files, docs, link, thread, purge, export>>

\* delete_logo()
LogoRemove(r) ==
  /\ Holds(r, "clear")
  /\ files' = files \ {hand[r].previous}
  /\ Take(r, Idle)
  /\ UNCHANGED <<docs, logo, link, thread, purge, export, toll>>

-----------------------------------------------------------------------------
(* portal/service.py                                                       *)

LinkCreate(r) ==
  /\ SignedIn(r) /\ link = None
  /\ link' = "active"
  /\ UNCHANGED <<files, docs, logo, thread, purge, export, hand, toll>>

\* Never stored: derive_status() compares the clock.
LinkExpires ==
  /\ link = "active" /\ link' = "expired"
  /\ UNCHANGED <<files, docs, logo, thread, purge, export, hand, toll>>

LinkRevoke(r) ==
  /\ SignedIn(r) /\ link # None
  /\ link' = "revoked"
  /\ UNCHANGED <<files, docs, logo, thread, purge, export, hand, toll>>

\* Mutant: a link somebody revoked still lets its customer write.
PostCheckAny(r) ==
  /\ Holds(r, "idle") /\ link # None /\ thread.posted < MaxMessages
  /\ Take(r, [op |-> "post", step |-> "checked"])
  /\ UNCHANGED <<files, docs, logo, link, thread, purge, export, toll>>

\* post_customer_message(): the status is read once, then three commits follow.
PostCheck(r) ==
  /\ Holds(r, "idle") /\ link = "active" /\ thread.posted < MaxMessages
  /\ Take(r, [op |-> "post", step |-> "checked"])
  /\ UNCHANGED <<files, docs, logo, link, thread, purge, export, toll>>

PostMessage(r) ==
  /\ Holds(r, "post") /\ hand[r].step = "checked" /\ thread.posted < MaxMessages
  /\ thread' = [thread EXCEPT !.posted = @ + 1]
  /\ Take(r, [hand[r] EXCEPT !.step = "posted"])
  /\ UNCHANGED <<files, docs, logo, link, purge, export, toll>>

PostLog(r) ==
  /\ Holds(r, "post") /\ hand[r].step = "posted"
  /\ thread' = [thread EXCEPT !.logged = @ + 1]
  /\ Take(r, [hand[r] EXCEPT !.step = "logged"])
  /\ UNCHANGED <<files, docs, logo, link, purge, export, toll>>

\* Mutant: nobody is notified of a message that has been logged.
PostTellNobody(r) ==
  /\ Holds(r, "post") /\ hand[r].step = "logged"
  /\ Take(r, Idle)
  /\ UNCHANGED <<files, docs, logo, link, thread, purge, export, toll>>

PostTell(r) ==
  /\ Holds(r, "post") /\ hand[r].step = "logged"
  /\ thread' = [thread EXCEPT !.told = @ + 1]
  /\ Take(r, Idle)
  /\ UNCHANGED <<files, docs, logo, link, purge, export, toll>>

-----------------------------------------------------------------------------
(* privacy/router.py                                                       *)

ExportAsk(r) ==
  /\ SignedIn(r) /\ ~ export.asked
  /\ export' = [export EXCEPT !.asked = TRUE]
  /\ UNCHANGED <<files, docs, logo, link, thread, purge, hand, toll>>

ExportRead(r) ==
  /\ SignedIn(r) /\ export.asked /\ ~ export.marked
  /\ Take(r, [op |-> "export"])
  /\ UNCHANGED <<files, docs, logo, link, thread, purge, export, toll>>

ExportSend(r) ==
  /\ Holds(r, "export")
  /\ export' = [export EXCEPT !.marked = TRUE, !.copies = @ + 1]
  /\ Take(r, Idle)
  /\ UNCHANGED <<files, docs, logo, link, thread, purge, toll>>

\* The recovery period ends.
PurgeDue ==
  /\ purge = "kept" /\ purge' = "eligible"
  /\ UNCHANGED <<files, docs, logo, link, thread, export, hand, toll>>

\* purge_workspace(): the documents there are, their files one by one, then one commit.
PurgeRead(r) ==
  /\ Holds(r, "idle") /\ purge = "eligible"
  /\ Take(r, [op |-> "purge", left |-> docs, gone |-> {}])
  /\ UNCHANGED <<files, docs, logo, link, thread, purge, export, toll>>

PurgeFile(r) ==
  /\ Holds(r, "purge")
  /\ \E f \in hand[r].left :
       /\ files' = files \ {f}
       /\ Take(r, [hand[r] EXCEPT !.left = @ \ {f}, !.gone = @ \cup {f}])
  /\ UNCHANGED <<docs, logo, link, thread, purge, export, toll>>

\* unlink() fails: 409, nothing is committed, and the files removed so far stay removed.
PurgeRefused(r) ==
  /\ Holds(r, "purge") /\ hand[r].left # {}
  /\ toll' = [toll EXCEPT !.lost = @ \cup (hand[r].gone \cap docs)]
  /\ Take(r, Idle)
  /\ UNCHANGED <<files, docs, logo, link, thread, purge, export>>

\* Mutant: the rows of documents are not deleted.
PurgeCommitNoRows(r) ==
  /\ Holds(r, "purge") /\ hand[r].left = {}
  /\ purge' = "purged"
  /\ Take(r, Idle)
  /\ UNCHANGED <<files, docs, logo, link, thread, export, toll>>

PurgeCommit(r) ==
  /\ Holds(r, "purge") /\ hand[r].left = {}
  /\ docs' = docs \ hand[r].gone
  /\ purge' = "purged"
  /\ Take(r, Idle)
  /\ UNCHANGED <<files, logo, link, thread, export, toll>>

-----------------------------------------------------------------------------
\* What a request that dies has put on the volume without a row, and removed under one.
Strays(r) ==
  IF hand[r].op \in {"upload", "logo", "swap"} THEN {hand[r].file} \ {None}
  ELSE IF Holds(r, "clear") THEN {hand[r].previous} \ {None, logo} ELSE {}

Removed(r) == IF hand[r].op \in {"delete", "purge"} THEN hand[r].gone \cap docs ELSE {}

Die(r) ==
  /\ ~ Holds(r, "idle") /\ toll.deaths < MaxDeaths
  /\ toll' = [toll EXCEPT !.deaths = @ + 1, !.stray = @ \cup Strays(r), !.lost = @ \cup Removed(r),
                          !.untold = @ + IF Holds(r, "post") /\ hand[r].step # "checked" THEN 1 ELSE 0]
  /\ Take(r, Idle)
  /\ UNCHANGED <<files, docs, logo, link, thread, purge, export>>

Purge(r) == PurgeRead(r) \/ PurgeFile(r) \/ PurgeRefused(r) \/ PurgeCommit(r)

\* The documents, up to the purge.
DocumentsNext ==
  \/ \E r \in Requests :
       \/ \E f \in Files : UploadFile(r, f) \/ DeleteRead(r, f)
       \/ UploadTooLarge(r) \/ UploadRow(r) \/ DeleteFile(r) \/ DeleteRefused(r) \/ DeleteRow(r)
       \/ Purge(r) \/ Die(r)
  \/ PurgeDue

LogoNext ==
  \E r \in Requests :
    \/ \E f \in Files : LogoFile(r, f)
    \/ LogoRead(r) \/ LogoClear(r) \/ LogoSet(r) \/ LogoRemove(r)
    \/ Die(r)

\* What the customer, and the owner's export, come across.
PortalNext ==
  \/ \E r \in Requests :
       \/ LinkCreate(r) \/ LinkRevoke(r)
       \/ PostCheck(r) \/ PostMessage(r) \/ PostLog(r) \/ PostTell(r)
       \/ ExportAsk(r) \/ ExportRead(r) \/ ExportSend(r)
       \/ Purge(r) \/ Die(r)
  \/ LinkExpires \/ PurgeDue

DeskNext == DocumentsNext \/ LogoNext \/ PortalNext

DeskSpec == DeskInit /\ [][DeskNext]_deskVars

-----------------------------------------------------------------------------
(* The logo a workspace shows is always on the volume: replacing it,       *)
(* removing it, two owners doing so at once and a death on the way never   *)
(* leave the row naming a file that is gone.                               *)
LogoIsThere == logo # None => logo \in files

(* A document's row has its bytes, except while the request that removed   *)
(* them has still to remove the row, and except for what a death or a      *)
(* failed purge took.                                                      *)
DocumentsHaveBytes ==
  docs \subseteq files \cup toll.lost \cup UNION {Removed(r) : r \in Requests}

(* Nothing stays on the volume unnamed: a file is a document, the logo, or *)
(* in the hands of a request, unless a death or an overwritten logo left   *)
(* it behind.                                                              *)
NothingIsStray ==
  files \subseteq docs \cup {logo} \cup toll.stray \cup UNION {NamedBy(r) : r \in Requests}

(* A purged workspace keeps no document but one whose upload overlapped    *)
(* the purge.                                                              *)
PurgeIsComplete == purge = "purged" => docs \subseteq toll.late

(* The staff are notified of every message a customer has posted, but for  *)
(* the ones whose request is still at it or has died.                      *)
MessagesAreTold ==
  thread.posted = thread.told + toll.untold
    + Cardinality({r \in Requests : Holds(r, "post") /\ hand[r].step # "checked"})

DeskIsSound ==
  LogoIsThere /\ DocumentsHaveBytes /\ NothingIsStray /\ PurgeIsComplete /\ MessagesAreTold

(* A link that is no longer active lets no new message begin: what a       *)
(* customer posts after the revocation was checked before it.              *)
RevokedMeansRevoked ==
  [][\A r \in Requests : link # "active" /\ link' # "active" =>
       ~ (Holds(r, "idle") /\ hand'[r].op = "post")]_deskVars
=============================================================================
