------------------------------- MODULE Notices -------------------------------
(***************************************************************************)
(* How the user hears of an operation's outcome: a toast that goes by      *)
(* itself (BackgroundTracker), and an entry of the activity log with its   *)
(* badge for unread errors (ActivityLog).  The loop draws after each event *)
(* and only the first toast, so a toast may be gone before it was drawn.   *)
(*                                                                         *)
(* The tracker's operations are left out: nothing starts one.  So is the   *)
(* popup's scrolling.                                                      *)
(***************************************************************************)
EXTENDS Naturals, Sequences

CONSTANTS MaxEntries,    \* MAX_ENTRIES
          ShortTime,     \* TOAST_TTL_SUCCESS, TOAST_TTL_INFO, in ticks
          LongTime,      \* TOAST_TTL_ERROR
          MaxOutcomes,   \* bound: outcomes
          MaxToasts      \* bound: toasts at a time

ASSUME NoticesAssumption ==
  /\ {MaxEntries, ShortTime, LongTime} \subseteq Nat \ {0}
  /\ {MaxOutcomes, MaxToasts} \subseteq Nat

VARIABLES
  toasts,    \* BackgroundTracker.toasts
  entries,   \* ActivityLog.entries, newest first
  logShown,  \* show_activity_log
  outcomes,  \* number of outcomes so far
  told       \* history: outcomes drawn as a toast, or in the log when it opened

noticesVars == <<toasts, entries, logShown, outcomes, told>>

NoticesInit ==
  /\ toasts = <<>> /\ entries = <<>> /\ logShown = FALSE
  /\ outcomes = 0 /\ told = {}

Time(level) == IF level = "error" THEN LongTime ELSE ShortTime

(* add_toast: a success removes the errors; `of` is an outcome, or 0. *)
WithToast(level, of) ==
  LET NotError(t) == t.level # "error"
      kept == IF level = "success" THEN SelectSeq(toasts, NotError) ELSE toasts
  IN Append(kept, [level |-> level, of |-> of, left |-> Time(level)])

(* expire_toasts *)
Older(t)  == [t EXCEPT !.left = @ - 1]
Remaining ==
  LET Lasts(t) == t.left > 1
      rest == SelectSeq(toasts, Lasts)
  IN [i \in DOMAIN rest |-> Older(rest[i])]

(* ActivityLog::push *)
Logged(e) ==
  LET all == <<e>> \o entries
  IN SubSeq(all, 1, IF Len(all) > MaxEntries THEN MaxEntries ELSE Len(all))

(* render: the first toast.                                                *)
Drawn == told' = told \cup (IF toasts' = <<>> THEN {} ELSE {toasts'[1].of})

(* generate_toast: the entry, and the toast. *)
Outcome(ok) ==
  /\ outcomes < MaxOutcomes /\ Len(toasts) < MaxToasts
  /\ outcomes' = outcomes + 1
  /\ entries' = Logged([of |-> outcomes', ok |-> ok, read |-> FALSE])
  /\ toasts' = WithToast(IF ok THEN "success" ELSE "error", outcomes')
  /\ Drawn
  /\ UNCHANGED logShown

(* Progress, "Switch in progress", what a module shows, the log's export.  *)
Inform(level) ==
  /\ Len(toasts) < MaxToasts
  /\ toasts' = WithToast(level, 0)
  /\ Drawn
  /\ UNCHANGED <<entries, logShown, outcomes>>

(* on_tick *)
ExpireToasts ==
  /\ toasts # <<>>
  /\ toasts' = Remaining
  /\ Drawn
  /\ UNCHANGED <<entries, logShown, outcomes>>

(* '!': the entries are read when the log opens, not when it closes. *)
AllRead == [i \in DOMAIN entries |-> [entries[i] EXCEPT !.read = TRUE]]
OpenLog ==
  /\ ~logShown
  /\ logShown' = TRUE
  /\ entries' = AllRead
  /\ told' = told \cup {entries[i].of : i \in DOMAIN entries}
  /\ UNCHANGED <<toasts, outcomes>>

(* Mutant: what came while the log was open counts as read. *)
CloseLogAsRead ==
  /\ logShown
  /\ logShown' = FALSE
  /\ entries' = AllRead
  /\ UNCHANGED <<toasts, outcomes, told>>

CloseLog ==
  /\ logShown
  /\ logShown' = FALSE
  /\ UNCHANGED <<toasts, entries, outcomes, told>>

NoticesNext ==
  \/ \E ok \in BOOLEAN : Outcome(ok)
  \/ \E level \in {"info", "error"} : Inform(level)
  \/ ExpireToasts \/ OpenLog \/ CloseLog

NoticesSpec == NoticesInit /\ [][NoticesNext]_noticesVars

-----------------------------------------------------------------------------
(* Whatever becomes of its toast -- queued behind others, expired, removed *)
(* by a later success -- the user hears of an outcome: it was drawn, or    *)
(* the log was opened on it, or the log still holds it as unread.  Only    *)
(* MaxEntries newer ones may push it out (add_toast, ActivityLog::push).   *)
OutcomeReachesUser ==
  \A o \in 1..outcomes :
    \/ o \in told
    \/ \E i \in DOMAIN entries : entries[i].of = o /\ ~entries[i].read
    \/ outcomes - o >= MaxEntries

(* docs/plans/2026-03-18-async-event-architecture-design.md: completion    *)
(* and failure are "shown as a toast" and removed by their time.           *)
OutcomeIsDrawn ==
  \A o \in 1..outcomes : o \in told \/ \E i \in DOMAIN toasts : toasts[i].of = o
=============================================================================
