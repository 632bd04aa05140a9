------------------------------ MODULE Durable -------------------------------
(***************************************************************************)
(* What the coordinator promises about the training session it keeps: a    *)
(* change that was announced as saved is never lost, the file never gets   *)
(* older, a stop loses nothing, and a crash at most what was announced to  *)
(* nobody.  SessionStore, with its delays, locks and awaits, implements    *)
(* it.                                                                     *)
(***************************************************************************)
EXTENDS Naturals

VARIABLES
    now,            \* the latest change of the session
    saved,          \* the change the file has
    told,           \* the latest change that was announced as saved
    crashes

dvars == <<now, saved, told, crashes>>

Init == now = 0 /\ saved = 0 /\ told = 0 /\ crashes = 0

Change ==
    /\ now' = now + 1
    /\ UNCHANGED <<saved, told, crashes>>

\* A write ends, a command hears of it, or both.
Keep ==
    /\ saved' \in saved..now
    /\ told' \in told..saved'
    /\ UNCHANGED <<now, crashes>>

\* The session is the one of the file; a write that the crash hits counts.
Crash ==
    /\ crashes' = crashes + 1
    /\ saved' \in saved..now
    /\ now' = saved'
    /\ UNCHANGED told

Next == Change \/ Keep \/ Crash

Spec == Init /\ [][Next]_dvars

\* Nothing that was announced is lost, also over a crash.
ToldIsSaved == told <= saved /\ saved <= now
=============================================================================
