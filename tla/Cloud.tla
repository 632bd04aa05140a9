------------------------------- MODULE Cloud --------------------------------
(***************************************************************************)
(* The optional cloud link: the client with its rotating refresh tokens    *)
(* (api.py), the coordinator that polls through it (coordinator.py), the   *)
(* setup that gives it the stored login (__init__.py), and the flow that   *)
(* links, relinks and reconfigures a board by device code                  *)
(* (config_flow.py).                                                       *)
(*                                                                         *)
(* A number names a pair of an access and a refresh token.  The servers,   *)
(* the user and Home Assistant are the environment.  The servers replace a *)
(* pair at each refresh and accept nothing of the old one again.  Home     *)
(* Assistant keeps the entry in memory, writes it some time later, cancels *)
(* what an entry awaits when it unloads it, and may run a poll that a user *)
(* asks for next to the one that is due.                                   *)
(***************************************************************************)
EXTENDS Integers, FiniteSets

CONSTANTS
    Interval,       \* the pause between polls for the approval, in seconds
    Lifetime,       \* of a device code
    SlowDown,       \* what a slow_down adds to the pause
    MinBackoff, MaxBackoff,
    MaxAges,        \* bound: access tokens that expire or are rejected
    MaxFaults,      \* bound: outages, lost answers, reloads, crashes
    MaxCodes        \* bound: device codes the user requests

ASSUME CloudAssumption ==
    /\ Interval \in Nat \ {0} /\ Lifetime \in Nat /\ SlowDown \in Nat
    /\ MinBackoff \in Nat /\ MaxBackoff \in Nat
    /\ MaxAges \in Nat /\ MaxFaults \in Nat /\ MaxCodes \in Nat

VARIABLES
    issued,         \* the pairs issued so far
    usable,         \* the refresh tokens the server accepts
    good,           \* the access tokens the server accepts
    aged,           \* the access tokens whose expires_at has nearly come
    forbidden,      \* the account may not read the board
    entry, file,    \* the login of the config entry, in memory and on disk
    reload,         \* a relink has scheduled the reload of the entry
    held,           \* _token of the entry's client and of the flow's
    lock,           \* who holds _refresh_lock of each client
    request,        \* what each caller of _get awaits
    available,      \* last_update_success
    reauth,         \* the user is asked to link again
    flow,           \* the config flow: its step and its token
    device,         \* the device code and wait_for_device_token
    sent, used,     \* refresh tokens sent, and those the server replaced
    failed,         \* refresh tokens whose use left the entry with no new pair
    ages, faults, codes

server == <<issued, usable, good, aged, forbidden>>
stored == <<entry, file, reload>>
client == <<held, lock, request>>
view == <<available, reauth>>
linking == <<flow, device>>
history == <<sent, used, failed>>
bounds == <<ages, faults, codes>>
vars == <<server, stored, client, view, linking, history, bounds>>

None == 0
Free == "free"
Clients == {"entry", "flow"}

\* The poll that is due, a poll that the user asks for, and get_boards.
Callers == {"due", "asked", "flow"}
Owner(r) == IF r = "flow" THEN "flow" ELSE "entry"

\* at: idle; before the lock; with the auth server before and after it has
\* decided; with the API.  token: what is rejected or sent.  again: the retry.
Idle == [at |-> "idle", path |-> "none", again |-> FALSE, token |-> None]

\* _get begins.
Asks(path) == [at |-> "wait", path |-> path, again |-> FALSE, token |-> None]

\* Before and after a flow, and before and after its wait for the approval.
NoFlow == [step |-> "none", token |-> None]
NoDevice == [code |-> "none", clock |-> 0, interval |-> Interval, told |-> Interval]

Move(r, to) == request' = [request EXCEPT ![r] = to]
Fault == faults < MaxFaults /\ faults' = faults + 1 /\ UNCHANGED <<ages, codes>>

-----------------------------------------------------------------------------
(* The environment: tokens age, are rejected or revoked; the disk.         *)

Expire(t) ==
    /\ t # None /\ t \notin aged /\ ages < MaxAges
    /\ ages' = ages + 1
    /\ aged' = aged \cup {t}
    /\ UNCHANGED <<issued, usable, good, forbidden, stored, client, view, linking,
                   history, faults, codes>>

Reject(t) ==
    /\ t \in good /\ ages < MaxAges
    /\ ages' = ages + 1
    /\ good' = good \ {t}
    /\ UNCHANGED <<issued, usable, aged, forbidden, stored, client, view, linking,
                   history, faults, codes>>

\* The user withdraws the login.
Revoke(t) ==
    /\ Fault
    /\ usable' = usable \ {t} /\ good' = good \ {t}
    /\ t \in usable
    /\ UNCHANGED <<issued, aged, forbidden, stored, client, view, linking, history>>

Forbid ==
    /\ Fault
    /\ ~forbidden /\ forbidden' = TRUE
    /\ UNCHANGED <<issued, usable, good, aged, stored, client, view, linking, history>>

\* Home Assistant's delayed write of its entries.
SaveEntry ==
    /\ file # entry
    /\ file' = entry
    /\ UNCHANGED <<server, entry, reload, client, view, linking, history, bounds>>

Servers ==
    \/ \E t \in {held["entry"], held["flow"]} : Expire(t) \/ Reject(t) \/ Revoke(t)
    \/ Forbid
    \/ SaveEntry

-----------------------------------------------------------------------------
(* What follows when _get ends.                                            *)

\* _async_update_data: a refused login asks the user; an outage matters for
\* the board only; a board in a match asks for that, and then for its state.
PollEnds(r, result) ==
    /\ \/ /\ result = "auth"
          /\ Move(r, Idle)
          /\ reauth' = TRUE /\ available' = FALSE
       \/ /\ result = "outage"
          /\ Move(r, Idle)
          /\ available' = (request[r].path # "board")
          /\ UNCHANGED reauth
       \/ /\ result = "answer"
          /\ \E next \in CASE request[r].path = "board" -> {"match", "end"}
                           [] request[r].path = "match" -> {"state"}
                           [] request[r].path = "state" -> {"end"} :
               IF next = "end"
               THEN Move(r, Idle) /\ available' = TRUE
               ELSE Move(r, Asks(next)) /\ UNCHANGED available
          /\ UNCHANGED reauth
    /\ UNCHANGED <<stored, flow>>

\* async_step_boards: an error restarts the link, an outage keeps the token;
\* another account or none of its boards aborts; else the entry gets the
\* newest token and its reload is scheduled.  A flow for a new entry would give
\* it the token in the same way and is not told apart.
BoardsEnd(result) ==
    /\ Move("flow", Idle)
    /\ \/ /\ result = "auth"
          /\ flow' = [flow EXCEPT !.step = "retry"]
          /\ UNCHANGED <<stored, reauth>>
       \/ /\ result = "outage"
          /\ flow' = [flow EXCEPT !.step = "boards"]
          /\ UNCHANGED <<stored, reauth>>
       \/ /\ result = "answer"
          /\ flow' = NoFlow
          /\ \/ UNCHANGED <<stored, reauth>>
             \/ /\ entry' = flow.token /\ reload' = TRUE /\ reauth' = FALSE
                /\ UNCHANGED file
    /\ UNCHANGED available

Ends(r, result) ==
    \/ r # "flow" /\ PollEnds(r, result)
    \/ r = "flow" /\ BoardsEnd(result)

-----------------------------------------------------------------------------
(* _get of AutodartsCloudClient.                                           *)

\* Bound: no poll runs while the flow waits for its code's approval, which
\* neither reads nor changes what polls do.
Waiting == flow.step \in {"sleep", "ask"}
Quiet == \A r \in Callers : request[r] = Idle

\* The coordinator polls, due or asked for; setup polls first.
Poll(r) ==
    /\ r # "flow" /\ held["entry"] # None
    /\ ~Waiting
    /\ request[r] = Idle
    /\ Move(r, Asks("board"))
    /\ UNCHANGED <<server, stored, held, lock, view, linking, history, bounds>>

\* Mutant: requests do not wait for each other.
Waits_Unlocked(r) == request[r].at = "wait"

\* async with self._refresh_lock
Waits(r) == request[r].at = "wait" /\ lock[Owner(r)] = Free

\* No refresh: another request has renewed the rejected token, or nothing is
\* rejected and the token is fresh enough.
Keeps(q, t, old) == IF q.again THEN t # q.token ELSE t \notin old

\* _ensure_token up to its request to the auth server.
Ensure(r) ==
    LET t == held[Owner(r)] IN
    /\ Waits(r)
    /\ \/ /\ Keeps(request[r], t, aged)
          /\ Move(r, [request[r] EXCEPT !.at = "fetch", !.token = t])
          /\ UNCHANGED <<lock, sent>>
       \/ /\ ~Keeps(request[r], t, aged)
          /\ Move(r, [request[r] EXCEPT !.at = "refresh", !.token = t])
          /\ lock' = [lock EXCEPT ![Owner(r)] = r]
          /\ sent' = sent \cup {t}
    /\ UNCHANGED <<server, stored, held, view, linking, used, failed, bounds>>

\* The auth server replaces the pair, or refuses.
Serve(r) ==
    LET t == request[r].token IN
    /\ request[r].at = "refresh"
    /\ IF t \in usable
       THEN /\ issued' = issued + 1
            /\ usable' = (usable \ {t}) \cup {issued'}
            /\ good' = (good \ {t}) \cup {issued'}
            /\ used' = used \cup {t}
            /\ Move(r, [request[r] EXCEPT !.at = "granted", !.token = issued'])
       ELSE /\ Move(r, [request[r] EXCEPT !.at = "refused"])
            /\ UNCHANGED <<issued, usable, good, used>>
    /\ UNCHANGED <<aged, forbidden, stored, held, lock, view, linking, sent, failed, bounds>>

Release(r) == lock' = [lock EXCEPT ![Owner(r)] = Free]

\* Mutant: the new pair is kept in the client only.
Persist_Never(r, t) == UNCHANGED <<stored, flow>>

\* persist_token of the entry, and _update_token of the flow.
Persist(r, t) ==
    IF r = "flow"
    THEN flow' = [flow EXCEPT !.token = t] /\ UNCHANGED stored
    ELSE entry' = t /\ UNCHANGED <<file, reload, flow>>

\* _ensure_token gets the new pair and stores it before anything else.
Granted(r) ==
    LET t == request[r].token IN
    /\ request[r].at = "granted"
    /\ held' = [held EXCEPT ![Owner(r)] = t]
    /\ aged' = aged \ {held[Owner(r)]}
    /\ Persist(r, t)
    /\ Release(r)
    /\ Move(r, [request[r] EXCEPT !.at = "fetch"])
    /\ UNCHANGED <<issued, usable, good, forbidden, view, device, history, bounds>>

Refused(r) ==
    /\ request[r].at = "refused"
    /\ Release(r)
    /\ failed' = failed \cup {request[r].token}
    /\ Ends(r, "auth")
    /\ UNCHANGED <<server, held, device, sent, used, bounds>>

\* The token that was sent in vain when the answer of r is lost.
Vain(r) == IF request[r].at \in {"refresh", "granted", "refused"} THEN {held[Owner(r)]} ELSE {}

\* Mutants: an outage counts as a refusal; the lock stays taken.
RefreshFails_Auth(r) ==
    /\ Fault
    /\ Vain(r) # {}
    /\ Release(r)
    /\ failed' = failed \cup Vain(r)
    /\ Ends(r, "auth")
    /\ UNCHANGED <<server, held, device, sent, used>>
RefreshFails_Locked(r) ==
    /\ Fault
    /\ Vain(r) # {}
    /\ failed' = failed \cup Vain(r)
    /\ Ends(r, "outage")
    /\ UNCHANGED <<server, held, lock, device, sent, used>>

\* An outage of the auth server, or a lost answer.
RefreshFails(r) ==
    /\ Fault
    /\ Vain(r) # {}
    /\ Release(r)
    /\ failed' = failed \cup Vain(r)
    /\ Ends(r, "outage")
    /\ UNCHANGED <<server, held, device, sent, used>>

\* _fetch: the answer, 403, or 401, after which _get refreshes once.
Fetch(r) ==
    /\ request[r].at = "fetch"
    /\ \/ request[r].token \in good /\ ~forbidden /\ Ends(r, "answer")
       \/ request[r].token \in good /\ forbidden /\ Ends(r, "auth")
       \/ request[r].token \notin good /\ request[r].again /\ Ends(r, "auth")
       \/ /\ request[r].token \notin good /\ ~request[r].again
          /\ Move(r, [request[r] EXCEPT !.at = "wait", !.again = TRUE])
          /\ UNCHANGED <<stored, view, flow>>
    /\ UNCHANGED <<server, held, lock, device, history, bounds>>

FetchFails(r) ==
    /\ Fault
    /\ request[r].at = "fetch"
    /\ Ends(r, "outage")
    /\ UNCHANGED <<server, held, lock, device, history>>

Get(r) ==
    \/ Poll(r) \/ Ensure(r)
    \/ Serve(r) \/ Granted(r) \/ Refused(r) \/ RefreshFails(r)
    \/ Fetch(r) \/ FetchFails(r)

-----------------------------------------------------------------------------
(* The entry is loaded and unloaded.                                       *)

\* async_setup_entry with the stored login; without one, only a relink helps.
Setup(token) ==
    /\ held' = [held EXCEPT !["entry"] = token]
    /\ lock' = [lock EXCEPT !["entry"] = Free]
    /\ request' = [r \in Callers |-> IF r = "flow" THEN request[r] ELSE Idle]
    /\ available' = FALSE
    /\ failed' = failed \cup Vain("due") \cup Vain("asked")

\* The reload a relink has scheduled: the old client may still get an answer
\* before it.
Reload ==
    /\ reload
    /\ reload' = FALSE
    /\ Setup(entry)
    /\ UNCHANGED <<server, entry, file, reauth, linking, sent, used, bounds>>

\* The user or a new address of the board reloads the entry.
ReloadAnyway ==
    /\ Fault
    /\ reload' = FALSE
    /\ Setup(entry)
    /\ UNCHANGED <<server, entry, file, reauth, linking, sent, used>>

\* Home Assistant crashes: the entry is what was last written.
Crash ==
    /\ Fault
    /\ entry' = file /\ reload' = FALSE
    /\ held' = [entry |-> file, flow |-> None]
    /\ lock' = [c \in Clients |-> Free]
    /\ request' = [r \in Callers |-> Idle]
    /\ available' = FALSE /\ reauth' = (file = None)
    /\ flow' = NoFlow /\ device' = NoDevice
    /\ failed' = failed \cup (UNION {Vain(r) : r \in Callers})
                        \cup (IF file = entry THEN {} ELSE {file})
    /\ UNCHANGED <<server, file, sent, used>>

-----------------------------------------------------------------------------
(* The flow: a device code, its approval, the boards.                      *)

Step(s) == flow' = [flow EXCEPT !.step = s]

Open ==
    /\ flow.step = "none"
    /\ Step("form")
    /\ UNCHANGED <<server, stored, client, view, device, history, bounds>>

\* The user closes the flow, whose task is cancelled.
Close ==
    /\ flow.step # "none"
    /\ flow' = NoFlow /\ device' = NoDevice
    /\ lock' = [lock EXCEPT !["flow"] = Free]
    /\ Move("flow", Idle)
    /\ UNCHANGED <<server, stored, held, view, history, bounds>>

\* _async_setup_form: a new device code.
RequestCode ==
    /\ flow.step = "form" /\ Quiet
    /\ codes < MaxCodes /\ codes' = codes + 1
    /\ Step("sleep")
    /\ device' = [NoDevice EXCEPT !.code = "open"]
    /\ UNCHANGED <<server, stored, client, view, history, ages, faults>>

\* async_step_auth_retry, once the user wants to restart.
Retry ==
    /\ flow.step = "retry"
    /\ Step("form")
    /\ UNCHANGED <<server, stored, client, view, device, history, bounds>>

\* The user approves or denies.
Decide ==
    /\ device.code = "open" /\ flow.step \in {"sleep", "ask"}
    /\ \E code \in {"approved", "denied"} : device' = [device EXCEPT !.code = code]
    /\ UNCHANGED <<server, stored, client, view, flow, history, bounds>>

\* wait_for_device_token sleeps, and gives up when the code has expired.
Sleep ==
    /\ flow.step = "sleep"
    /\ IF device.clock + device.interval < Lifetime
       THEN Step("ask") /\ device' = [device EXCEPT !.clock = @ + device.interval]
       ELSE Step("retry") /\ device' = NoDevice
    /\ UNCHANGED <<server, stored, client, view, history, bounds>>

\* The auth server: not decided yet, perhaps asked too often; denied; or
\* spent; it then answers with an error.
AskPending ==
    /\ flow.step = "ask" /\ device.code = "open"
    /\ Step("sleep")
    /\ \/ UNCHANGED device
       \/ device' = [device EXCEPT !.interval = @ + SlowDown, !.told = @ + SlowDown]
    /\ UNCHANGED <<server, stored, client, view, history, bounds>>

AskRefused ==
    /\ flow.step = "ask" /\ device.code \in {"denied", "spent"}
    /\ Step("retry") /\ device' = NoDevice
    /\ UNCHANGED <<server, stored, client, view, history, bounds>>

Issue ==
    /\ issued' = issued + 1
    /\ usable' = usable \cup {issued'} /\ good' = good \cup {issued'}
    /\ UNCHANGED <<aged, forbidden>>

AskApproved ==
    /\ flow.step = "ask" /\ device.code = "approved"
    /\ Issue
    /\ flow' = [step |-> "boards", token |-> issued']
    /\ device' = NoDevice
    /\ UNCHANGED <<stored, client, view, history, bounds>>

\* Mutant: the pause ends at MaxBackoff whatever the server asked for.
Backoff_Capped(i) == IF 2 * i > MaxBackoff THEN MaxBackoff ELSE 2 * i

Larger(a, b) == IF a > b THEN a ELSE b
Smaller(a, b) == IF a < b THEN a ELSE b

\* The pause after an outage.
Backoff(i) == Smaller(Larger(2 * i, MinBackoff), Larger(i, MaxBackoff))

\* A temporary outage keeps the code; an answer that is lost has spent it,
\* and one that is malformed ends the wait.
AskFails ==
    /\ Fault
    /\ flow.step = "ask"
    /\ \/ /\ Step("sleep") /\ device' = [device EXCEPT !.interval = Backoff(@)]
          /\ UNCHANGED server
       \/ /\ device.code = "approved" /\ Issue
          /\ \/ /\ Step("sleep")
                /\ device' = [device EXCEPT !.interval = Backoff(@), !.code = "spent"]
             \/ Step("retry") /\ device' = NoDevice
    /\ UNCHANGED <<stored, client, view, history>>

\* async_step_boards, at once or when the user submits its form.
ListBoards ==
    /\ flow.step = "boards"
    /\ Step("listing")
    /\ held' = [held EXCEPT !["flow"] = flow.token]
    /\ Move("flow", Asks("boards"))
    /\ UNCHANGED <<server, stored, lock, view, device, history, bounds>>

Flow ==
    \/ Open \/ Close \/ RequestCode \/ Retry \/ Decide
    \/ Sleep \/ AskPending \/ AskRefused \/ AskApproved \/ AskFails
    \/ ListBoards

-----------------------------------------------------------------------------
\* An entry without a login (migrated from version 1), or with one.
Init ==
    /\ issued \in {0, 1}
    /\ usable = 1..issued /\ good = 1..issued /\ aged = {} /\ forbidden = FALSE
    /\ entry = issued /\ file = issued /\ reload = FALSE
    /\ held = [entry |-> issued, flow |-> None]
    /\ lock = [c \in Clients |-> Free]
    /\ request = [r \in Callers |-> Idle]
    /\ available = FALSE /\ reauth = (issued = 0)
    /\ flow = NoFlow
    /\ device = NoDevice
    /\ sent = {} /\ used = {} /\ failed = {}
    /\ ages = 0 /\ faults = 0 /\ codes = 0

Next ==
    \/ Servers
    \/ \E r \in Callers : Get(r)
    \/ Reload \/ ReloadAnyway \/ Crash
    \/ Flow

\* Polls are due again and again, requests are answered or time out, a
\* scheduled reload runs.  The user owes nothing.
Fairness ==
    /\ WF_vars(Poll("due")) /\ WF_vars(Reload)
    /\ WF_vars(Sleep \/ AskPending \/ AskRefused \/ AskApproved)
    /\ \A r \in Callers : WF_vars(Ensure(r) \/ Serve(r) \/ Granted(r) \/ Refused(r) \/ Fetch(r))

Spec == Init /\ [][Next]_vars /\ Fairness

-----------------------------------------------------------------------------
(* Properties.                                                             *)

\* A refresh token is sent again only when its first use brought nothing: no
\* order of polls, retries, flows and reloads uses one twice.
SentOnce ==
    [][ \A r \in Callers :
          request'[r].at = "refresh" /\ request[r].at # "refresh"
          => request'[r].token \notin sent \/ request'[r].token \in failed ]_vars

\* The stored login is not one the server has replaced, unless the answer is
\* under way, was lost, or came too late to be written before a crash.
StoredIsNewest ==
    /\ entry \in used =>
         \/ entry \in failed
         \/ \E r \in Callers \ {"flow"} : request[r].at = "granted"
    /\ file \in used => file \in failed \/ file # entry
                        \/ \E r \in Callers \ {"flow"} : request[r].at = "granted"

\* The user is asked to link again only when the link is broken: the login is
\* used up or revoked, the board is forbidden, or a new access token was
\* rejected as well.  Outages and requests that race never cause it.
RelinkIsNeeded ==
    [][ ~reauth /\ reauth' =>
          \/ held["entry"] \notin usable
          \/ entry' = None
          \/ forbidden
          \/ \E r \in Callers :
               request[r].at = "fetch" /\ request[r].again /\ request[r].token \notin good ]_vars

\* The approval is never asked for more often than the server allows, also
\* after outages, which alone never make the pause longer than MaxBackoff.
PollsAsTold ==
    LET slowed == device.told - Interval IN
    device.interval \in device.told..(Larger(MaxBackoff, Interval) + slowed)

\* Once the servers answer again, the cloud's data come back, or the user is
\* asked to link again.
Recovers == <>[](available \/ reauth)
=============================================================================
