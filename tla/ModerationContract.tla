------------------------- MODULE ModerationContract -------------------------
(***************************************************************************)
(* What the moderation service promises the rest of the system, with       *)
(* callers, locks, timeouts and lost replies left out.  A row moves from   *)
(* unsaved to pending to a verdict (which a later answer may replace) and  *)
(* may be deleted at any time, never to come back.  A verdict is always    *)
(* one of the AI's answers about that very content, every answer is        *)
(* written at most once, and the user is told of an answer at most once    *)
(* and only after it was written.                                          *)
(***************************************************************************)
EXTENDS Naturals, Sequences

CONSTANT Contents          \* content ids

VARIABLES
  rows,                    \* the contents table: status and moderation_id
  answers,                 \* history: the AI's answers, in order
  written,                 \* history: the answers (indices) put in a row
  notifications            \* the notification.send stream

vars == <<rows, answers, written, notifications>>

Decided  == {"approved", "rejected"}
Stored   == {"pending"} \cup Decided
Statuses == Stored \cup {"unsaved", "deleted"}

Answer == [content : Contents, approved : BOOLEAN]

\* HandleModerationResult derives status and notification type alike from
\* IsApproved.
Verdict(i) == IF answers[i].approved THEN "approved" ELSE "rejected"

Init ==
  /\ rows = [c \in Contents |-> [status |-> "unsaved", moderationID |-> 0]]
  /\ answers = << >>
  /\ written = {}
  /\ notifications = << >>

Submit(c) ==
  /\ rows[c].status = "unsaved"
  /\ rows' = [rows EXCEPT ![c].status = "pending"]
  /\ UNCHANGED <<answers, written, notifications>>

Remove(c) ==
  /\ rows[c].status \in Stored
  /\ rows' = [rows EXCEPT ![c].status = "deleted"]
  /\ UNCHANGED <<answers, written, notifications>>

Judge(c) ==
  /\ rows[c].status # "unsaved"
  /\ \E b \in BOOLEAN :
       answers' = Append(answers, [content |-> c, approved |-> b])
  /\ UNCHANGED <<rows, written, notifications>>

Write(i) ==
  LET c == answers[i].content IN
  /\ i \in DOMAIN answers \ written
  /\ rows[c].status \in Stored
  /\ rows' = [rows EXCEPT ![c] = [status |-> Verdict(i), moderationID |-> i]]
  /\ written' = written \cup {i}
  /\ UNCHANGED <<answers, notifications>>

Announced == {notifications[n].of : n \in DOMAIN notifications}

Announce(i) ==
  /\ i \in written \ Announced
  /\ notifications' = Append(notifications,
        [content |-> answers[i].content, type |-> Verdict(i), of |-> i])
  /\ UNCHANGED <<rows, answers, written>>

Next ==
  \/ \E c \in Contents : Submit(c) \/ Remove(c) \/ Judge(c)
  \/ \E i \in DOMAIN answers : Write(i) \/ Announce(i)

Spec == Init /\ [][Next]_vars
=============================================================================
