------------------------------- MODULE TenantQuota -------------------------------
(***************************************************************************)
(* What the execution gate promises an account: a run is let in only while *)
(* fewer than maxConcurrentChats others are under way and fewer than       *)
(* maxChatsPerHour count for the hour, among them those let in that have   *)
(* yet to start.  There are no drains, leases, reservations, passes or     *)
(* crashes; what a crash may do is forget that a run was about to start,   *)
(* but never that one did.                                                 *)
(***************************************************************************)
EXTENDS Integers, FiniteSets

CONSTANTS Runs,
          TenantLimit,  \* maxConcurrentChats
          HourLimit     \* maxChatsPerHour

VARIABLES busy,    \* runs under way, from their admission on
          due,     \* those of them that have been admitted and not started
          recent   \* runs that have started within the last hour

quota == <<busy, due, recent>>

QuotaInit == busy = {} /\ due = {} /\ recent = {}

\* the only way in; a run that is tried again counts against the hour with its last start
Admit(r) ==
    /\ Cardinality(busy \ {r}) < TenantLimit
    /\ Cardinality(recent \cup due) < HourLimit
    /\ busy' = busy \cup {r} /\ due' = due \cup {r}
    /\ UNCHANGED recent

Start(r) ==
    /\ r \in due
    /\ due' = due \ {r} /\ recent' = recent \cup {r}
    /\ UNCHANGED busy

\* runs end, are cancelled, or lose the server they were due on
Leave ==
    /\ busy' \subseteq busy /\ due' \subseteq due
    /\ UNCHANGED recent

HourPasses ==
    /\ recent' \subseteq recent
    /\ UNCHANGED <<busy, due>>

QuotaNext == (\E r \in Runs : Admit(r) \/ Start(r)) \/ Leave \/ HourPasses

QuotaSpec == QuotaInit /\ [][QuotaNext]_quota
================================================================================
