----------------------------- MODULE MailLedger -----------------------------
(***************************************************************************)
(* What the outbound e-mail service promises about each message, whatever  *)
(* sessions, retries, webhooks and crashes do: the message has one entry;  *)
(* it leaves the platform only under an entry that is open; an entry that  *)
(* is blocked never leaves; an entry is handed over only if the message    *)
(* did leave, and then for good.  Delivery implements this specification.  *)
(*                                                                         *)
(* An entry is open before it may be blocked: send() commits its row as    *)
(* queued and marks it suppressed in the next commit, although the         *)
(* module's docstring (communications/service.py:14-16) has suppression    *)
(* come before any queued row.  The ledger promises what the code does: a  *)
(* message that is withheld has not left, even if its entry was open.      *)
(***************************************************************************)
CONSTANT Messages

VARIABLES
  phase,  \* the ledger entry of each message
  gone    \* the messages that have left the platform

vars == <<phase, gone>>

Init ==
  /\ phase = [m \in Messages |-> "absent"]
  /\ gone = {}

Move(m, from, to) ==
  /\ phase[m] \in from
  /\ phase' = [phase EXCEPT ![m] = to]
  /\ UNCHANGED gone

Open(m) == Move(m, {"absent"}, "pending")

\* Withheld: the entry was open until now, and stays open if the sender dies first.
Block(m) == m \notin gone /\ Move(m, {"pending"}, "blocked")

Fail(m) == Move(m, {"pending"}, "failed")

Settle(m) == m \in gone /\ Move(m, {"pending", "failed"}, "handed")

Leave(m) ==
  /\ phase[m] \in {"pending", "failed"}
  /\ gone' = gone \cup {m}
  /\ UNCHANGED phase

Next == \E m \in Messages : Open(m) \/ Block(m) \/ Fail(m) \/ Settle(m) \/ Leave(m)

Spec == Init /\ [][Next]_vars
=============================================================================
