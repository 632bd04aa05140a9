---------------------------- MODULE CloudProofs -----------------------------
(***************************************************************************)
(* The logins of Cloud, for every number of faults, of expired and         *)
(* rejected tokens and of device codes, and for every pause and backoff:   *)
(* no refresh token is used twice unless its first use brought nothing,    *)
(* the stored login is the newest one, and a relink is asked for only when *)
(* the link is broken.                                                     *)
(*                                                                         *)
(* None of this is inductive by itself.  Accounted says of a login in use  *)
(* that it was sent only if its answer was lost or is under way; it stays  *)
(* true because one request at a time holds the lock of a client (Locked), *)
(* because what it is granted is nobody's login yet (Granting), and        *)
(* because the flow's login is not the entry's before it is handed over    *)
(* (Linking).                                                              *)
(***************************************************************************)
EXTENDS Cloud, TLAPS

Places == {"idle", "wait", "refresh", "granted", "refused", "fetch"}
Paths == {"none", "board", "match", "state", "boards"}
Steps == {"none", "form", "retry", "sleep", "ask", "boards", "listing"}

Sending(r) == request[r].at \in {"refresh", "granted", "refused"}

\* The flow has a login that the entry may get.
Live == flow.step \in {"boards", "listing"}

Requests == [at : Places, path : Paths, again : BOOLEAN, token : 0..issued]

Types ==
    /\ issued \in Nat /\ usable \subseteq 1..issued
    /\ entry \in 0..issued /\ file \in 0..issued
    /\ held \in [Clients -> 0..issued]
    /\ lock \in [Clients -> Callers \cup {Free}]
    /\ request \in [Callers -> Requests]
    /\ flow \in [step : Steps, token : 0..issued]
    /\ reauth \in BOOLEAN
    /\ sent \subseteq 0..issued /\ used \subseteq sent

\* A poll that is under way is for the board, its match or its state.
Polling == \A r \in Callers \ {"flow"} :
    request[r].at # "idle" => request[r].path \in {"board", "match", "state"}

Locked == \A r \in Callers : Sending(r) => lock[Owner(r)] = r

\* What is under way is the login of its client, and refused logins stay so.
Asking == \A r \in Callers :
    /\ request[r].at \in {"refresh", "refused"} => request[r].token = held[Owner(r)]
    /\ request[r].at = "refresh" => request[r].token \in sent
    /\ request[r].at = "refused" => request[r].token \notin usable

\* A granted login is nobody's yet.
Granting == \A r \in Callers : request[r].at = "granted" =>
    /\ request[r].token \notin sent \cup {entry, held["entry"]}
    /\ Live => request[r].token # flow.token
    /\ \A s \in Callers \ {r} :
         request[s].at = "granted" => request[s].token # request[r].token

Linking ==
    /\ request["flow"].at # "idle" => flow.step = "listing"
    /\ flow.step = "listing" => held["flow"] = flow.token
    /\ Live => flow.token \notin {entry, held["entry"]}

Accounted(token) ==
    /\ token \in sent => \/ token \in failed
                         \/ \E r \in Callers : Sending(r) /\ held[Owner(r)] = token
    /\ token \in used => \/ token \in failed
                         \/ \E r \in Callers : request[r].at = "granted" /\ held[Owner(r)] = token

Accounts ==
    /\ Accounted(entry) /\ Accounted(held["entry"])
    /\ Live => Accounted(flow.token)

IInv ==
    /\ Types /\ Polling /\ Locked /\ Asking /\ Granting /\ Linking /\ Accounts

Codes == {"none", "open", "approved", "denied", "spent"}

\* The wait for the approval, with the pause the server asked for.
Pause ==
    /\ device \in [code : Codes, clock : Nat, interval : Nat, told : Nat]
    /\ Interval <= device.told
    /\ PollsAsTold

-----------------------------------------------------------------------------
(* IInv is inductive.                                                      *)

core == <<issued, usable, entry, held, lock, request, flow, sent, used, failed>>

\* What is saved, and whether to sign in again is asked, concerns nothing else.
LEMMA CoreKeeps ==
    ASSUME IInv, UNCHANGED core, file' \in {file, entry}, reauth' \in BOOLEAN
    PROVE  IInv'
BY DEF IInv, core, Types, Requests, Polling, Locked, Sending, Asking, Granting, Live, Linking,
       Accounts, Accounted, Owner, Callers, Clients

\* The first step of a request, or one that keeps its token: nothing is sent.
LEMMA MoveKeeps ==
    ASSUME IInv, NEW r \in Callers, NEW to \in Requests, to.at \in {"idle", "wait", "fetch"},
           ~Sending(r),
           to.at = "idle" \/ IF r = "flow" THEN flow.step = "listing" ELSE to.path \in {"board", "match", "state"},
           Move(r, to),
           UNCHANGED <<issued, usable, entry, file, held, lock, flow, sent, used, failed>>, reauth' \in BOOLEAN
    PROVE  IInv'
<1> USE DEF IInv, Types, Requests
<1>1. /\ request' \in [Callers -> Requests]
      /\ request'[r] = to /\ \A s \in Callers \ {r} : request'[s] = request[s]
  BY DEF Move, Places
<1>2. Types'
  BY <1>1
<1>3. Polling'
  BY <1>1 DEF Polling
<1>4. \A s \in Callers : /\ Sending(s)' <=> Sending(s)
                         /\ Sending(s) => request'[s] = request[s]
                         /\ request'[s].at = "granted" <=> request[s].at = "granted"
  BY <1>1 DEF Sending
<1>5. Locked'
  BY <1>4 DEF Locked, Sending
<1>6. Asking'
  BY <1>1, <1>4 DEF Asking
<1>7. Granting'
  BY <1>1, <1>4 DEF Granting, Live, Sending
<1>8. Linking'
  BY <1>1 DEF Linking, Live, Callers
<1>9. Accounts'
  BY <1>4 DEF Accounts, Accounted, Live
<1> QED BY <1>2, <1>3, <1>5, <1>6, <1>7, <1>8, <1>9

\* A login that is sent was never sent before, and its owner has the lock.
LEMMA SendKeeps ==
    ASSUME IInv, NEW r \in Callers, Waits(r),
           Move(r, [request[r] EXCEPT !.at = "refresh", !.token = held[Owner(r)]]),
           lock' = [lock EXCEPT ![Owner(r)] = r],
           sent' = sent \cup {held[Owner(r)]},
           UNCHANGED <<issued, usable, entry, file, held, flow, used, failed, reauth>>
    PROVE  IInv'
<1> USE DEF IInv, Types, Requests, Callers, Clients, Owner
<1>1. /\ request' \in [Callers -> Requests]
      /\ request'[r].at = "refresh" /\ request'[r].token = held[Owner(r)]
      /\ request'[r].path = request[r].path
      /\ \A s \in Callers \ {r} : request'[s] = request[s]
  BY DEF Move, Places
<1>2. Types'
  BY <1>1
<1>3. Polling'
  BY <1>1 DEF Polling, Waits
<1>4. ~Sending(r) /\ \A s \in Callers : Sending(s) => Owner(s) # Owner(r) /\ lock'[Owner(s)] = s
  BY DEF Sending, Waits, Locked, Free
<1>5. Locked'
  BY <1>1, <1>4 DEF Locked, Sending
<1>6. Asking'
  BY <1>1 DEF Asking
<1>7. r = "flow" => flow.step = "listing" /\ held["flow"] = flow.token
  BY DEF Waits, Linking
<1>8. Granting'
  BY <1>1, <1>4, <1>7 DEF Granting, Live, Sending
<1>9. Linking'
  BY <1>1, <1>7 DEF Linking, Live
<1>10. \A x : Accounted(x) => Accounted(x)'
  BY <1>1, <1>4 DEF Accounted, Sending
<1>11. Accounts'
  BY <1>10 DEF Accounts, Live
<1> QED BY <1>2, <1>3, <1>5, <1>6, <1>8, <1>9, <1>11

\* The server uses a login once, and what it issues is known to nobody else.
LEMMA ServeKeeps ==
    ASSUME IInv, NEW r \in Callers, Serve(r)
    PROVE  IInv'
<1> USE DEF IInv, Types, Requests, Callers, Clients, Owner, stored, view, linking, bounds
<1> DEFINE t == request[r].token
<1>1. /\ request[r].at = "refresh" /\ t \in sent /\ t = held[Owner(r)]
      /\ lock[Owner(r)] = r
  BY DEF Serve, Asking, Locked, Sending
<1>2. CASE t \in usable
  <2>1. /\ issued' = issued + 1 /\ usable' = (usable \ {t}) \cup {issued + 1}
        /\ used' = used \cup {t}
        /\ request' = [request EXCEPT ![r] = [request[r] EXCEPT !.at = "granted", !.token = issued + 1]]
        /\ UNCHANGED <<entry, file, held, lock, flow, reauth, sent, failed>>
    BY <1>2 DEF Serve, Move
  <2>2. /\ request' \in [Callers -> Requests']
        /\ request'[r].at = "granted" /\ request'[r].token = issued + 1
        /\ request'[r].path = request[r].path
        /\ \A s \in Callers \ {r} : request'[s] = request[s]
    <3>1. issued + 1 \in 0..(issued + 1) /\ 0..issued \subseteq 0..(issued + 1)
      OBVIOUS
    <3>2. \A s \in Callers :
            request[s] \in [at : Places, path : Paths, again : BOOLEAN, token : 0..(issued + 1)]
      BY <3>1
    <3>3. [request[r] EXCEPT !.at = "granted", !.token = issued + 1]
            \in [at : Places, path : Paths, again : BOOLEAN, token : 0..(issued + 1)]
      BY <3>1, <3>2 DEF Places
    <3> QED BY <2>1, <3>2, <3>3
  <2>3. Types'
    BY <1>1, <2>1, <2>2
  <2>4. Polling'
    BY <1>1, <2>2 DEF Polling
  <2>5. Locked'
    BY <1>1, <2>1, <2>2 DEF Locked, Sending
  <2>6. Asking'
    BY <2>1, <2>2 DEF Asking
  <2>7. Granting'
    BY <2>1, <2>2 DEF Granting, Live
  <2>8. Linking'
    BY <1>1, <2>1, <2>2 DEF Linking, Live
  <2>9. \A x : Accounted(x) => Accounted(x)'
    BY <1>1, <2>1, <2>2 DEF Accounted, Sending
  <2>10. Accounts'
    BY <2>1, <2>9 DEF Accounts, Live
  <2> QED BY <2>3, <2>4, <2>5, <2>6, <2>7, <2>8, <2>10
<1>3. CASE t \notin usable
  <2>1. /\ request' = [request EXCEPT ![r] = [request[r] EXCEPT !.at = "refused"]]
        /\ UNCHANGED <<issued, usable, entry, file, held, lock, flow, reauth, sent, used, failed>>
    BY <1>3 DEF Serve, Move
  <2>2. /\ request' \in [Callers -> Requests]
        /\ request'[r].at = "refused" /\ request'[r].token = t
        /\ request'[r].path = request[r].path
        /\ \A s \in Callers \ {r} : request'[s] = request[s]
    BY <2>1 DEF Places
  <2>3. Types'
    BY <2>1, <2>2
  <2>4. Polling'
    BY <1>1, <2>2 DEF Polling
  <2>5. Locked'
    BY <1>1, <2>1, <2>2 DEF Locked, Sending
  <2>6. Asking'
    BY <1>1, <1>3, <2>1, <2>2 DEF Asking
  <2>7. Granting'
    BY <2>1, <2>2 DEF Granting, Live
  <2>8. Linking'
    BY <1>1, <2>1, <2>2 DEF Linking, Live
  <2>9. \A x : Accounted(x) => Accounted(x)'
    BY <1>1, <2>1, <2>2 DEF Accounted, Sending
  <2>10. Accounts'
    BY <2>1, <2>9 DEF Accounts, Live
  <2> QED BY <2>3, <2>4, <2>5, <2>6, <2>7, <2>8, <2>10
<1> QED BY <1>2, <1>3

\* The new login replaces the one that was sent, in memory and in the entry.
LEMMA GrantedKeeps ==
    ASSUME IInv, NEW r \in Callers, Granted(r)
    PROVE  IInv'
<1> USE DEF IInv, Types, Requests, Callers, Clients, Owner, stored, view, linking, bounds, history
<1> DEFINE t == request[r].token
<1>1. /\ request[r].at = "granted" /\ t \notin sent \cup {entry, held["entry"]}
      /\ Live => t # flow.token
      /\ lock[Owner(r)] = r
      /\ r = "flow" => flow.step = "listing" /\ held["flow"] = flow.token
  BY DEF Granted, Granting, Locked, Sending, Linking
<1>2. /\ request' = [request EXCEPT ![r] = [request[r] EXCEPT !.at = "fetch"]]
      /\ held' = [held EXCEPT ![Owner(r)] = t]
      /\ lock' = [lock EXCEPT ![Owner(r)] = Free]
      /\ IF r = "flow" THEN flow' = [flow EXCEPT !.token = t] /\ UNCHANGED entry
                       ELSE entry' = t /\ UNCHANGED flow
      /\ UNCHANGED <<issued, usable, file, reauth, sent, used, failed>>
  BY DEF Granted, Release, Persist, Move
<1>3. /\ request' \in [Callers -> Requests]
      /\ request'[r].at = "fetch"
      /\ request'[r].path = request[r].path
      /\ \A s \in Callers \ {r} : request'[s] = request[s]
  BY <1>2 DEF Places
<1>4. /\ held' \in [Clients -> 0..issued] /\ held'[Owner(r)] = t
      /\ \A c \in Clients \ {Owner(r)} : held'[c] = held[c]
      /\ flow' \in [step : Steps, token : 0..issued] /\ flow'.step = flow.step
  BY <1>2
<1>5. \A s \in Callers \ {r} : Sending(s) => Owner(s) # Owner(r) /\ Sending(s)'
  BY <1>1, <1>3 DEF Locked, Sending
<1>6. Types'
  BY <1>2, <1>3, <1>4 DEF Free
<1>7. Polling'
  BY <1>1, <1>3 DEF Polling
<1>8. Locked'
  BY <1>2, <1>3, <1>5 DEF Locked, Sending
<1>9. Asking'
  BY <1>2, <1>3, <1>4, <1>5 DEF Asking, Sending
<1>10. Granting'
  BY <1>1, <1>2, <1>3, <1>4, <1>5 DEF Granting, Live, Sending
<1>11. Linking'
  BY <1>1, <1>2, <1>3, <1>4 DEF Linking, Live
<1>12. Accounted(t)'
  BY <1>1, <1>2 DEF Accounted
<1>13. ASSUME NEW x \in 0..issued, Accounted(x), x # held[Owner(r)]
      PROVE  Accounted(x)'
  BY <1>2, <1>3, <1>4, <1>5, <1>13 DEF Accounted, Sending
<1>14. Accounts'
  BY <1>1, <1>2, <1>4, <1>12, <1>13 DEF Accounts, Live, Linking
<1> QED BY <1>6, <1>7, <1>8, <1>9, <1>10, <1>11, <1>14

\* A request ends: what it sent in vain is lost; the flow tries again, or ends
\* and may hand its login to the entry.
LEMMA EndKeeps ==
    ASSUME IInv, NEW r \in Callers, request[r].at # "idle",
           Move(r, Idle),
           \/ lock' = [lock EXCEPT ![Owner(r)] = Free] /\ Sending(r)
           \/ lock' = lock,
           failed \subseteq failed', Sending(r) => held[Owner(r)] \in failed',
           UNCHANGED <<issued, usable, file, held, sent, used>>, reauth' \in BOOLEAN,
           \/ r # "flow" /\ UNCHANGED <<entry, flow>>
           \/ /\ r = "flow" /\ UNCHANGED entry
              /\ \E s \in {"retry", "boards"} : flow' = [flow EXCEPT !.step = s]
           \/ r = "flow" /\ flow' = NoFlow /\ entry' \in {entry, flow.token}
    PROVE  IInv'
<1> USE DEF IInv, Types, Requests, Callers, Clients, Owner
<1>1. /\ request' \in [Callers -> Requests]
      /\ request'[r].at = "idle"
      /\ \A s \in Callers \ {r} : request'[s] = request[s]
  BY DEF Move, Places, Paths, Idle, None
<1>2. flow' \in [step : Steps, token : 0..issued]
  BY DEF NoFlow, Steps, None
<1>3. \A s \in Callers \ {r} : Sending(s) => (Sending(r) => Owner(s) # Owner(r)) /\ Sending(s)'
  BY <1>1 DEF Locked, Sending
<1>4. r = "flow" => flow.step = "listing" /\ held["flow"] = flow.token /\ Live
  BY DEF Linking, Live
<1>5. Types'
  BY <1>1, <1>2, <1>4 DEF Free
<1>6. Polling'
  BY <1>1 DEF Polling
<1>7. Locked'
  BY <1>1, <1>3 DEF Locked, Sending
<1>8. Asking'
  BY <1>1, <1>3 DEF Asking, Sending
<1>9. Live' => Live /\ flow'.token = flow.token /\ entry' = entry
  BY <1>4 DEF Live, NoFlow
<1>10. Granting'
  BY <1>1, <1>3, <1>4, <1>9 DEF Granting, Sending
<1>11. Linking'
  <2>1. r = "flow" => flow'.step # "listing" /\ request'["flow"].at = "idle"
    BY <1>1 DEF NoFlow
  <2>2. r # "flow" => request'["flow"] = request["flow"] /\ flow' = flow /\ entry' = entry
    BY <1>1
  <2> QED BY <1>9, <2>1, <2>2 DEF Linking, Live
<1>12. \A x \in 0..issued : Accounted(x) => Accounted(x)'
  BY <1>1, <1>3 DEF Accounted, Sending
<1>13. Accounts'
  BY <1>4, <1>9, <1>12 DEF Accounts
<1> QED BY <1>5, <1>6, <1>7, <1>8, <1>10, <1>11, <1>13

\* What follows a poll: it goes on with the next path, or ends.
LEMMA PollEndsMoves ==
    ASSUME IInv, NEW r \in Callers, r # "flow", request[r].at # "idle", NEW result,
           PollEnds(r, result)
    PROVE  /\ \/ Move(r, Idle)
              \/ /\ result = "answer"
                 /\ \E next \in {"match", "state"} :
                      Move(r, Asks(next))
           /\ UNCHANGED <<stored, flow>> /\ reauth' \in BOOLEAN
           /\ result # "auth" => reauth' = reauth
<1>1. request[r].path \in {"board", "match", "state"} /\ reauth \in BOOLEAN
  BY DEF IInv, Types, Polling
<1> QED BY <1>1 DEF PollEnds

\* A request ends with its answer or with a login that is known to have failed.
LEMMA EndsKeeps ==
    ASSUME IInv, NEW r \in Callers, request[r].at # "idle", NEW result \in {"auth", "outage", "answer"},
           Ends(r, result),
           \/ lock' = [lock EXCEPT ![Owner(r)] = Free] /\ Sending(r)
           \/ lock' = lock,
           failed \subseteq failed', Sending(r) => held[Owner(r)] \in failed' /\ result # "answer",
           result = "answer" => UNCHANGED <<lock, failed>>,
           UNCHANGED <<issued, usable, held, sent, used>>
    PROVE  IInv'
<1>1. CASE r # "flow"
  <2>1. PollEnds(r, result)
    BY <1>1 DEF Ends
  <2>2. UNCHANGED <<entry, file, flow>> /\ reauth' \in BOOLEAN
    BY <1>1, <2>1, PollEndsMoves DEF stored
  <2>3. CASE Move(r, Idle)
    BY <1>1, <2>2, <2>3, EndKeeps
  <2>4. CASE result = "answer" /\ \E next \in {"match", "state"} :
                Move(r, Asks(next))
    <3>1. PICK next \in {"match", "state"} : Move(r, Asks(next))
      BY <2>4
    <3> DEFINE to == Asks(next)
    <3>2. to \in Requests /\ to.at \in {"idle", "wait", "fetch"}
          /\ to.path \in {"board", "match", "state"}
      <4>1. 0 \in 0..issued
        BY DEF IInv, Types
      <4> QED BY <4>1 DEF Asks, Requests, Places, Paths, None
    <3>3. ~Sending(r) /\ UNCHANGED <<lock, failed>>
      BY <2>4
    <3> HIDE DEF to
    <3>4. Move(r, to)
      BY <3>1 DEF to
    <3> QED BY <1>1, <2>2, <3>2, <3>3, <3>4, MoveKeeps
  <2> QED BY <1>1, <2>1, <2>3, <2>4, PollEndsMoves
<1>2. CASE r = "flow"
  <2>1. BoardsEnd(result)
    BY <1>2 DEF Ends
  <2>2. UNCHANGED file /\ reauth' \in BOOLEAN /\ Move(r, Idle)
    BY <1>2, <2>1 DEF BoardsEnd, stored, IInv, Types
  <2>3. \/ /\ UNCHANGED entry
           /\ \E s \in {"retry", "boards"} : flow' = [flow EXCEPT !.step = s]
        \/ flow' = NoFlow /\ entry' \in {entry, flow.token}
    BY <2>1 DEF BoardsEnd, stored
  <2> QED BY <1>2, <2>2, <2>3, EndKeeps
<1> QED BY <1>1, <1>2

\* The answers of the servers, or their absence.
LEMMA GetKeeps ==
    ASSUME IInv, NEW r \in Callers, Get(r)
    PROVE  IInv'
<1> USE DEF server, stored, view, linking, history, bounds
<1>1. CASE Poll(r)
  <2> DEFINE to == Asks("board")
  <2>1. to \in Requests /\ to.at \in {"idle", "wait", "fetch"}
        /\ to.path \in {"board", "match", "state"}
    <3>1. 0 \in 0..issued
      BY DEF IInv, Types
    <3> QED BY <3>1 DEF Asks, Requests, Places, Paths, None
  <2>2. ~Sending(r) /\ r # "flow" /\ Move(r, to) /\ reauth' \in BOOLEAN
    BY <1>1 DEF Poll, Sending, Idle, IInv, Types
  <2>3. UNCHANGED <<issued, usable, entry, file, held, lock, flow, sent, used, failed>>
    BY <1>1 DEF Poll
  <2> HIDE DEF to
  <2> QED BY <2>1, <2>2, <2>3, MoveKeeps
<1>2. CASE Ensure(r)
  <2>1. Waits(r) /\ UNCHANGED <<issued, usable, entry, file, held, flow, used, failed, reauth>>
    BY <1>2 DEF Ensure
  <2>2. CASE Move(r, [request[r] EXCEPT !.at = "refresh", !.token = held[Owner(r)]])
             /\ lock' = [lock EXCEPT ![Owner(r)] = r]
             /\ sent' = sent \cup {held[Owner(r)]}
    BY <2>1, <2>2, SendKeeps
  <2>3. CASE Move(r, [request[r] EXCEPT !.at = "fetch", !.token = held[Owner(r)]])
             /\ UNCHANGED <<lock, sent>>
    <3> DEFINE to == [request[r] EXCEPT !.at = "fetch", !.token = held[Owner(r)]]
    <3>1. to \in Requests /\ to.at \in {"idle", "wait", "fetch"}
          /\ to.path = request[r].path
      <4>1. request[r] \in Requests
            /\ held[Owner(r)] \in 0..issued
        BY DEF IInv, Types, Owner, Clients
      <4> QED BY <4>1 DEF Requests, Places
    <3>2. ~Sending(r) /\ request[r].at # "idle" /\ Move(r, to) /\ reauth' \in BOOLEAN
      BY <2>1, <2>3 DEF Waits, Sending, IInv, Types
    <3>3. IF r = "flow" THEN flow.step = "listing" ELSE to.path \in {"board", "match", "state"}
      BY <3>1, <3>2 DEF IInv, Polling, Linking
    <3> HIDE DEF to
    <3> QED BY <2>1, <2>3, <3>1, <3>2, <3>3, MoveKeeps
  <2> QED BY <1>2, <2>2, <2>3 DEF Ensure
<1>3. CASE Serve(r)
  BY <1>3, ServeKeeps
<1>4. CASE Granted(r)
  BY <1>4, GrantedKeeps
<1>5. CASE Refused(r)
  <2>1. request[r].at = "refused" /\ request[r].token = held[Owner(r)] /\ Sending(r)
    BY <1>5 DEF Refused, IInv, Asking, Sending
  <2> QED BY <1>5, <2>1, EndsKeeps DEF Refused, Release
<1>6. CASE RefreshFails(r)
  <2>1. Sending(r) /\ Vain(r) = {held[Owner(r)]} /\ request[r].at # "idle"
    BY <1>6 DEF RefreshFails, Vain, Sending
  <2> QED BY <1>6, <2>1, EndsKeeps DEF RefreshFails, Release
<1>7. CASE Fetch(r)
  <2>1. request[r].at = "fetch" /\ ~Sending(r)
        /\ UNCHANGED <<issued, usable, held, lock, sent, used, failed>>
    BY <1>7 DEF Fetch, Sending
  <2>2. ASSUME NEW result \in {"auth", "outage", "answer"}, Ends(r, result)
        PROVE  IInv'
    BY <2>1, <2>2, EndsKeeps
  <2>3. CASE Move(r, [request[r] EXCEPT !.at = "wait", !.again = TRUE])
             /\ UNCHANGED <<stored, view, flow>>
    <3> DEFINE to == [request[r] EXCEPT !.at = "wait", !.again = TRUE]
    <3>1. to \in Requests /\ to.at \in {"idle", "wait", "fetch"}
          /\ to.path = request[r].path
      <4>1. request[r] \in Requests
        BY DEF IInv, Types
      <4> QED BY <4>1 DEF Requests, Places
    <3>2. IF r = "flow" THEN flow.step = "listing" ELSE to.path \in {"board", "match", "state"}
      BY <2>1, <3>1 DEF IInv, Polling, Linking
    <3>3. Move(r, to) /\ reauth' \in BOOLEAN
      BY <2>3 DEF IInv, Types
    <3> HIDE DEF to
    <3> QED BY <2>1, <2>3, <3>1, <3>2, <3>3, MoveKeeps
  <2> QED BY <1>7, <2>2, <2>3 DEF Fetch
<1>8. CASE FetchFails(r)
  <2>1. request[r].at = "fetch" /\ ~Sending(r)
        /\ UNCHANGED <<issued, usable, held, lock, sent, used, failed>>
        /\ Ends(r, "outage")
    BY <1>8 DEF FetchFails, Sending
  <2> QED BY <2>1, EndsKeeps
<1> QED BY <1>1, <1>2, <1>3, <1>4, <1>5, <1>6, <1>7, <1>8 DEF Get

-----------------------------------------------------------------------------
(* The entry and the flow begin and end.                                   *)

\* Requests of one client, or of both, are dropped; what they sent is lost.
LEMMA DropKeeps ==
    ASSUME IInv, NEW dropped, dropped \subseteq Callers,
           request' \in [Callers -> Requests],
           \A r \in dropped : request'[r] = Idle,
           \A r \in Callers \ dropped : request'[r] = request[r],
           \A r \in Callers \ dropped :
               Sending(r) => lock'[Owner(r)] = r /\ held'[Owner(r)] = held[Owner(r)],
           lock' \in [Clients -> Callers \cup {Free}],
           held' \in [Clients -> 0..issued], held'["entry"] \in {held["entry"], entry'},
           entry' = entry \/ (entry' \in failed' /\ entry' \in 0..issued /\ dropped = Callers),
           file' \in {file, entry},
           \/ UNCHANGED flow /\ held'["flow"] = held["flow"] /\ "flow" \notin dropped
           \/ flow' = NoFlow /\ "flow" \in dropped,
           failed \subseteq failed',
           \A r \in dropped \ {"flow"} : Sending(r) => held[Owner(r)] \in failed',
           UNCHANGED <<issued, usable, sent, used>>, reauth' \in BOOLEAN
    PROVE  IInv'
<1> USE DEF IInv, Types, Requests, Callers, Clients, Owner
<1>1. /\ request' \in [Callers -> Requests]
      /\ \A r \in dropped : request'[r].at = "idle"
      /\ \A r \in Callers \ dropped : request'[r] = request[r]
  BY DEF Idle
<1>2. flow' \in [step : Steps, token : 0..issued]
  BY DEF NoFlow, Steps, None
<1>3. Types'
  BY <1>1, <1>2
<1>4. Polling'
  BY <1>1 DEF Polling
<1>5. Locked'
  BY <1>1 DEF Locked, Sending
<1>6. Asking'
  BY <1>1 DEF Asking, Sending
<1>7. Live' => Live /\ flow' = flow /\ "flow" \notin dropped
  BY DEF Live, NoFlow
<1>8. Granting'
  BY <1>1, <1>7 DEF Granting
<1>9. Linking'
  BY <1>1, <1>7 DEF Linking, Live, NoFlow
<1>10. Sending("flow") => Live /\ held["flow"] = flow.token
  BY DEF Linking, Live, Sending
<1>11. ASSUME NEW x \in 0..issued, Accounted(x),
              "flow" \in dropped => ~(Sending("flow") /\ held["flow"] = x)
       PROVE  Accounted(x)'
  BY <1>1, <1>11 DEF Accounted, Sending
<1>12. Accounts'
  <2>1. Sending("flow") => held["flow"] \notin {entry, held["entry"]}
    BY <1>10 DEF Linking
  <2>2. entry' = entry => Accounted(entry)'
    BY <1>11, <2>1 DEF Accounts
  <2>3. held'["entry"] = held["entry"] => Accounted(held["entry"])'
    BY <1>11, <2>1 DEF Accounts
  <2>4. entry' # entry => Accounted(entry)'
    BY DEF Accounted
  <2>5. Live' => Accounted(flow.token)'
    BY <1>7, <1>11 DEF Accounts
  <2> QED BY <2>2, <2>3, <2>4, <2>5 DEF Accounts
<1> QED BY <1>3, <1>4, <1>5, <1>6, <1>8, <1>9, <1>12

\* The flow before it has a login; the servers may issue one in vain.
LEMMA FlowKeeps ==
    ASSUME IInv, flow.step \notin {"boards", "listing"},
           flow' \in [step : Steps, token : 0..issued'],
           \/ ~Live'
           \/ flow'.step = "boards" /\ flow'.token = issued + 1 /\ issued' = issued + 1,
           issued' \in {issued, issued + 1},
           usable' \subseteq usable \cup {issued'}, issued' = issued => usable' = usable,
           UNCHANGED <<entry, file, held, lock, request, reauth, sent, used, failed>>
    PROVE  IInv'
<1> USE DEF IInv, Types, Requests, Callers, Clients, Owner
<1>1. issued' \in Nat /\ 0..issued \subseteq 0..issued' /\ usable' \subseteq 1..issued'
  OBVIOUS
<1>2. Types'
  <2>1. \A r \in Callers :
          request[r] \in Requests'
    BY <1>1
  <2> QED BY <1>1, <2>1
<1>3. Polling' /\ Locked' /\ Asking'
  BY DEF Polling, Locked, Asking, Sending
<1>4. Granting'
  BY DEF Granting, Live
<1>5. Linking'
  BY DEF Linking, Live
<1>6. Accounts'
  BY DEF Accounts, Accounted, Live, Sending
<1> QED BY <1>2, <1>3, <1>4, <1>5, <1>6

\* The boards are asked for with the flow's own client.
LEMMA ListKeeps ==
    ASSUME IInv, ListBoards
    PROVE  IInv'
<1> USE DEF IInv, Types, Requests, Callers, Clients, Owner
<1>1. /\ flow.step = "boards" /\ flow' = [flow EXCEPT !.step = "listing"]
      /\ held' = [held EXCEPT !["flow"] = flow.token]
      /\ request' = [request EXCEPT !["flow"] = Asks("boards")]
      /\ UNCHANGED <<issued, usable, entry, file, lock, reauth, sent, used, failed>>
  BY DEF ListBoards, Step, Move, server, stored, view, history
<1>2. request["flow"].at = "idle"
  BY <1>1 DEF Linking
<1>3. /\ request' \in [Callers -> Requests] /\ request'["flow"].at = "wait"
      /\ \A s \in Callers \ {"flow"} : request'[s] = request[s]
  <2>1. Asks("boards") \in Requests
    BY DEF Asks, Places, Paths, None
  <2> QED BY <1>1, <2>1 DEF Asks
<1>4. /\ flow' \in [step : Steps, token : 0..issued]
      /\ flow'.step = "listing" /\ flow'.token = flow.token
      /\ held' \in [Clients -> 0..issued]
      /\ held'["flow"] = flow.token /\ held'["entry"] = held["entry"]
  BY <1>1 DEF Steps
<1>5. Types'
  BY <1>1, <1>3, <1>4
<1>6. Polling'
  BY <1>3 DEF Polling
<1>7. ~Sending("flow") /\ ~Sending("flow")'
  BY <1>2, <1>3 DEF Sending
<1>8. Locked'
  BY <1>1, <1>3, <1>7 DEF Locked, Sending
<1>9. Asking'
  BY <1>1, <1>3, <1>4, <1>7 DEF Asking, Sending
<1>10. Granting'
  BY <1>1, <1>3, <1>4 DEF Granting, Live
<1>11. Linking'
  BY <1>1, <1>3, <1>4 DEF Linking, Live
<1>12. \A x : Accounted(x) => Accounted(x)'
  BY <1>1, <1>2, <1>3, <1>4, <1>7 DEF Accounted, Sending
<1>13. Accounts'
  BY <1>1, <1>4, <1>12 DEF Accounts, Live
<1> QED BY <1>5, <1>6, <1>8, <1>9, <1>10, <1>11, <1>13

\* Idle is a request.
LEMMA IdleIsRequest ==
    ASSUME IInv
    PROVE  Idle \in Requests
<1>1. 0 \in 0..issued
  BY DEF IInv, Types
<1> QED BY <1>1 DEF Idle, None, Requests, Places, Paths

\* A step of the flow that leads to no login.
LEMMA WaitKeeps ==
    ASSUME IInv, flow.step \notin {"boards", "listing"},
           NEW s \in Steps \ {"boards", "listing"}, Step(s),
           issued' \in {issued, issued + 1},
           usable' \subseteq usable \cup {issued'}, issued' = issued => usable' = usable,
           UNCHANGED <<stored, client, view, history>>
    PROVE  IInv'
<1> USE DEF stored, client, view, history
<1>1. flow' \in [step : Steps, token : 0..issued'] /\ flow'.step = s
  <2>1. flow \in [step : Steps, token : 0..issued] /\ 0..issued \subseteq 0..issued'
    BY DEF IInv, Types
  <2> QED BY <2>1 DEF Step
<1>2. ~Live'
  BY <1>1 DEF Live
<1> QED BY <1>1, <1>2, FlowKeeps

\* Each step of the flow; closing it drops its request.
LEMMA FlowStepKeeps ==
    ASSUME IInv, Flow
    PROVE  IInv'
<1>0. /\ flow \in [step : Steps, token : 0..issued] /\ issued \in Nat /\ reauth \in BOOLEAN
      /\ usable \subseteq 1..issued
  BY DEF IInv, Types
<1>1. ASSUME NEW s \in {"form", "retry", "sleep", "ask"}, Step(s),
             flow.step \notin {"boards", "listing"},
             UNCHANGED <<server, stored, client, view, history>>
      PROVE  IInv'
  <2>1. s \in Steps \ {"boards", "listing"} /\ UNCHANGED <<issued, usable>>
    BY <1>1 DEF Steps, server
  <2> QED BY <1>1, <2>1, WaitKeeps
<1>2. CASE Open
  <2>1. Step("form") /\ flow.step \notin {"boards", "listing"}
        /\ UNCHANGED <<server, stored, client, view, history>>
    BY <1>2 DEF Open
  <2> QED BY <1>1, <2>1
<1>3. CASE Close
  <2> DEFINE dropped == {"flow"}
  <2>1. /\ request' \in [Callers -> Requests]
        /\ \A r \in dropped : request'[r] = Idle
        /\ \A r \in Callers \ dropped : request'[r] = request[r]
    BY <1>3, IdleIsRequest DEF Close, Move, IInv, Types, Callers
  <2>2. /\ lock' \in [Clients -> Callers \cup {Free}] /\ lock'["entry"] = lock["entry"]
        /\ UNCHANGED held /\ held \in [Clients -> 0..issued]
    BY <1>3 DEF Close, IInv, Types, Clients
  <2>3. \A r \in Callers \ dropped :
          Sending(r) => lock'[Owner(r)] = r /\ held'[Owner(r)] = held[Owner(r)]
    BY <2>2 DEF IInv, Locked, Owner, Callers
  <2>4. dropped \subseteq Callers /\ "flow" \in dropped /\ dropped \ {"flow"} = {}
    BY DEF Callers
  <2>5. flow' = NoFlow /\ UNCHANGED <<issued, usable, entry, file, sent, used, failed, reauth>>
    BY <1>3 DEF Close, server, stored, view, history
  <2>6. /\ held' \in [Clients -> 0..issued] /\ held'["entry"] \in {held["entry"], entry'}
        /\ \/ entry' = entry
           \/ entry' \in failed' /\ entry' \in 0..issued /\ dropped = Callers
        /\ file' \in {file, entry} /\ failed \subseteq failed'
        /\ reauth' \in BOOLEAN
        /\ \/ UNCHANGED flow /\ held'["flow"] = held["flow"] /\ "flow" \notin dropped
           \/ flow' = NoFlow /\ "flow" \in dropped
        /\ \A r \in dropped \ {"flow"} : Sending(r) => held[Owner(r)] \in failed'
        /\ UNCHANGED <<issued, usable, sent, used>>
        /\ lock' \in [Clients -> Callers \cup {Free}]
    BY <1>0, <2>2, <2>4, <2>5
  <2> HIDE DEF dropped
  <2> QED BY <2>1, <2>3, <2>4, <2>6, DropKeeps
<1>4. CASE RequestCode
  <2>1. Step("sleep") /\ flow.step \notin {"boards", "listing"}
        /\ UNCHANGED <<server, stored, client, view, history>>
    BY <1>4 DEF RequestCode
  <2> QED BY <1>1, <2>1
<1>5. CASE Retry
  <2>1. Step("form") /\ flow.step \notin {"boards", "listing"}
        /\ UNCHANGED <<server, stored, client, view, history>>
    BY <1>5 DEF Retry
  <2> QED BY <1>1, <2>1
<1>6. CASE Decide
  <2>1. UNCHANGED core /\ UNCHANGED <<file, reauth>>
    BY <1>6 DEF Decide, core, server, stored, client, view, history
  <2> QED BY <1>0, <2>1, CoreKeeps
<1>7. CASE Sleep
  <2>1. (Step("ask") \/ Step("retry")) /\ flow.step \notin {"boards", "listing"}
        /\ UNCHANGED <<server, stored, client, view, history>>
    BY <1>7 DEF Sleep
  <2> QED BY <1>1, <2>1
<1>8. CASE AskPending
  <2>1. Step("sleep") /\ flow.step \notin {"boards", "listing"}
        /\ UNCHANGED <<server, stored, client, view, history>>
    BY <1>8 DEF AskPending
  <2> QED BY <1>1, <2>1
<1>9. CASE AskRefused
  <2>1. Step("retry") /\ flow.step \notin {"boards", "listing"}
        /\ UNCHANGED <<server, stored, client, view, history>>
    BY <1>9 DEF AskRefused
  <2> QED BY <1>1, <2>1
<1>10. CASE AskApproved
  <2>1. /\ flow.step = "ask" /\ issued' = issued + 1 /\ usable' = usable \cup {issued'}
        /\ flow' = [step |-> "boards", token |-> issued']
        /\ UNCHANGED <<entry, file, held, lock, request, reauth, sent, used, failed>>
    BY <1>10 DEF AskApproved, Issue, stored, client, view, history
  <2>2. flow' \in [step : Steps, token : 0..issued']
    BY <1>0, <2>1 DEF Steps
  <2>3. flow'.step = "boards" /\ flow'.token = issued + 1
    BY <2>1
  <2> QED BY <1>0, <2>1, <2>2, <2>3, FlowKeeps
<1>11. CASE AskFails
  <2>1. /\ \E s \in {"sleep", "retry"} : Step(s)
        /\ flow.step \notin {"boards", "listing"}
        /\ \/ UNCHANGED <<issued, usable>>
           \/ issued' = issued + 1 /\ usable' = usable \cup {issued'}
        /\ UNCHANGED <<stored, client, view, history>>
    BY <1>11 DEF AskFails, Issue, server
  <2>2. {"sleep", "retry"} \subseteq Steps \ {"boards", "listing"}
    BY DEF Steps
  <2>3. issued' \in {issued, issued + 1} /\ usable' \subseteq usable \cup {issued'}
        /\ (issued' = issued => usable' = usable)
    BY <1>0, <2>1
  <2> QED BY <2>1, <2>2, <2>3, WaitKeeps
<1>12. CASE ListBoards
  BY <1>12, ListKeeps
<1> QED BY <1>2, <1>3, <1>4, <1>5, <1>6, <1>7, <1>8, <1>9, <1>10, <1>11, <1>12 DEF Flow

\* Setup of the entry with its stored login drops what its client awaits.
LEMMA SetupKeeps ==
    ASSUME IInv, Setup(entry),
           UNCHANGED <<issued, usable, entry, file, flow, sent, used, reauth>>
    PROVE  IInv'
<1> DEFINE dropped == {"due", "asked"}
<1> USE DEF Callers, Owner
<1>1. /\ dropped \subseteq Callers
      /\ "flow" \notin dropped /\ \A r \in Callers \ dropped : r = "flow"
  OBVIOUS
<1>2. /\ request' \in [Callers -> Requests]
      /\ \A r \in dropped : request'[r] = Idle
      /\ \A r \in Callers \ dropped : request'[r] = request[r]
  BY IdleIsRequest DEF Setup, IInv, Types
<1>3. /\ held' \in [Clients -> 0..issued] /\ held'["entry"] = entry
      /\ held'["flow"] = held["flow"]
      /\ lock' \in [Clients -> Callers \cup {Free}] /\ lock'["flow"] = lock["flow"]
  BY DEF Setup, IInv, Types, Clients, Free
<1>4. \A r \in Callers \ dropped :
        Sending(r) => lock'[Owner(r)] = r /\ held'[Owner(r)] = held[Owner(r)]
  BY <1>3 DEF IInv, Locked
<1>5. failed \subseteq failed' /\ \A r \in dropped \ {"flow"} : Sending(r) => held[Owner(r)] \in failed'
  BY DEF Setup, Vain, Sending
<1>6. UNCHANGED flow /\ reauth' \in BOOLEAN /\ entry' = entry /\ file' \in {file, entry}
      /\ UNCHANGED <<issued, usable, sent, used>>
  BY DEF IInv, Types
<1> HIDE DEF dropped
<1> QED BY <1>1, <1>2, <1>3, <1>4, <1>5, <1>6, DropKeeps

\* After a crash the entry has the login of the file.
LEMMA CrashKeeps ==
    ASSUME IInv, Crash
    PROVE  IInv'
<1> DEFINE dropped == Callers
<1> USE DEF Owner
<1>1. dropped \subseteq Callers /\ "flow" \in dropped
  BY DEF Callers
<1>2. /\ request' \in [Callers -> Requests]
      /\ \A r \in dropped : request'[r] = Idle
  BY IdleIsRequest DEF Crash
<1>3. /\ held' \in [Clients -> 0..issued] /\ held'["entry"] = entry'
      /\ lock' \in [Clients -> Callers \cup {Free}]
      /\ entry' = file /\ entry' \in 0..issued
  BY DEF Crash, IInv, Types, Clients, Free, None
<1>4. failed \subseteq failed' /\ (entry' = entry \/ entry' \in failed')
  <2> DEFINE lost == UNION {Vain(r) : r \in Callers}
  <2>1. failed' = (failed \cup lost) \cup (IF file = entry THEN {} ELSE {file})
    BY DEF Crash
  <2> HIDE DEF lost
  <2> QED BY <1>3, <2>1
<1>5. \A r \in dropped \ {"flow"} : Sending(r) => held[Owner(r)] \in failed'
  <2>1. \A r \in Callers : Vain(r) \subseteq failed'
    BY DEF Crash
  <2> QED BY <2>1 DEF Vain, Sending
<1>6. flow' = NoFlow /\ reauth' \in BOOLEAN /\ file' \in {file, entry}
      /\ UNCHANGED <<issued, usable, sent, used>>
  BY DEF Crash, server
<1>7. Callers \ dropped = {}
  OBVIOUS
<1> HIDE DEF dropped
<1>8. (\A r \in Callers \ dropped : request'[r] = request[r])
      /\ \A r \in Callers \ dropped :
           Sending(r) => lock'[Owner(r)] = r /\ held'[Owner(r)] = held[Owner(r)]
  BY <1>7
<1>9. entry' = entry \/ (entry' \in failed' /\ entry' \in 0..issued /\ dropped = Callers)
  BY <1>3, <1>4 DEF dropped
<1> QED BY <1>1, <1>2, <1>3, <1>4, <1>5, <1>6, <1>8, <1>9, DropKeeps

\* What the servers, the user and the disk do: a login may be revoked.
LEMMA ServersKeep ==
    ASSUME IInv, Servers
    PROVE  IInv'
<1> USE DEF server, stored, client, view, linking, history
<1>1. CASE UNCHANGED core /\ file' \in {file, entry} /\ reauth' = reauth
  BY <1>1, CoreKeeps DEF IInv, Types
<1>2. ASSUME NEW t \in {held["entry"], held["flow"]}, Revoke(t)
      PROVE  IInv'
  <2>1. /\ usable' = usable \ {t}
        /\ UNCHANGED <<issued, entry, file, held, lock, request, flow, sent, used, failed, reauth>>
    BY <1>2 DEF Revoke
  <2>2. Types'
    BY <2>1 DEF IInv, Types, Requests
  <2>3. Polling' /\ Locked' /\ Asking' /\ Granting'
    BY <2>1 DEF IInv, Polling, Locked, Asking, Granting, Sending, Live
  <2>4. Linking' /\ Accounts'
    BY <2>1 DEF IInv, Linking, Accounts, Accounted, Sending, Live
  <2> QED BY <2>2, <2>3, <2>4 DEF IInv
<1>3. ASSUME NEW t \in {held["entry"], held["flow"]}, Expire(t) \/ Reject(t)
      PROVE  UNCHANGED core /\ file' \in {file, entry} /\ reauth' = reauth
  BY <1>3 DEF Expire, Reject, core
<1>4. ASSUME Forbid \/ SaveEntry
      PROVE  UNCHANGED core /\ file' \in {file, entry} /\ reauth' = reauth
  BY <1>4 DEF Forbid, SaveEntry, core
<1> QED BY <1>1, <1>2, <1>3, <1>4 DEF Servers

\* Every step keeps the invariant.
LEMMA NextKeeps ==
    ASSUME IInv, [Next]_vars
    PROVE  IInv'
<1>1. CASE Servers
  BY <1>1, ServersKeep
<1>2. CASE \E r \in Callers : Get(r)
  BY <1>2, GetKeeps
<1>3. CASE Reload \/ ReloadAnyway
  <2>1. Setup(entry) /\ UNCHANGED <<issued, usable, entry, file, flow, sent, used, reauth>>
    BY <1>3 DEF Reload, ReloadAnyway, server, linking
  <2> QED BY <2>1, SetupKeeps
<1>4. CASE Crash
  BY <1>4, CrashKeeps
<1>5. CASE Flow
  BY <1>5, FlowStepKeeps
<1>6. CASE UNCHANGED vars
  <2>1. UNCHANGED core /\ file' = file /\ reauth' = reauth /\ reauth \in BOOLEAN
    BY <1>6 DEF vars, core, server, stored, client, view, linking, history, IInv, Types
  <2> QED BY <2>1, CoreKeeps
<1> QED BY <1>1, <1>2, <1>3, <1>4, <1>5, <1>6 DEF Next

\* It holds when the program starts.
LEMMA InitHolds ==
    ASSUME Init
    PROVE  IInv
<1> USE DEF Init, Callers, Clients, None, Free
<1>1. /\ issued \in Nat /\ usable \subseteq 1..issued /\ issued \in 0..issued /\ 0 \in 0..issued
      /\ \A r \in Callers : request[r] = Idle
  OBVIOUS
<1>2. Idle \in Requests
  BY <1>1 DEF Idle, Requests, Places, Paths
<1>3. Types
  BY <1>1, <1>2 DEF Types, NoFlow, Steps
<1>4. Polling /\ Locked /\ Asking /\ Granting
  BY <1>1 DEF Polling, Locked, Asking, Granting, Sending, Idle
<1>5. Linking /\ Accounts
  BY <1>1 DEF Linking, Accounts, Accounted, Live, NoFlow, Idle
<1> QED BY <1>3, <1>4, <1>5 DEF IInv

\* The invariant the properties of the logins follow from: what each client,
\* the entry and the flow hold is accounted for, whatever is under way.
THEOREM LoginsAreAccounted == Spec => []IInv
<1>1. Init => IInv
  BY InitHolds
<1>2. IInv /\ [Next]_vars => IInv'
  BY NextKeeps
<1> QED BY <1>1, <1>2, PTL DEF Spec

\* The stored login is not one the server has replaced, unless the answer is
\* under way, was lost, or came too late to be written before a crash.
THEOREM LoginIsKept == Spec => []StoredIsNewest
<1>1. IInv => (entry \in used => \/ entry \in failed
                                 \/ \E r \in Callers \ {"flow"} : request[r].at = "granted")
  BY DEF IInv, Accounts, Accounted, Granting, Linking, Live, Owner, Callers
<1>2. IInv => StoredIsNewest
  BY <1>1 DEF StoredIsNewest
<1> QED BY <1>2, LoginsAreAccounted, PTL

\* Only the step that takes the lock sends a token.
LEMMA OnlyEnsureSends ==
    ASSUME IInv, NEW r \in Callers, Next,
           request'[r].at = "refresh", request[r].at # "refresh"
    PROVE  /\ Waits(r) /\ request'[r].token = held[Owner(r)]
<1>0. /\ request \in [Callers -> Requests]
      /\ \A q \in Callers : \A to : Move(q, to) =>
           request'[q] = to /\ \A s \in Callers \ {q} : request'[s] = request[s]
  BY DEF IInv, Types, Move
<1> USE DEF Idle, Asks
<1>1. CASE Servers
  BY <1>1 DEF Servers, Expire, Reject, Revoke, Forbid, SaveEntry, client
<1>2. ASSUME NEW q \in Callers, Get(q)
      PROVE  /\ Waits(r) /\ request'[r].token = held[Owner(r)]
  <2>1. ASSUME NEW result, Ends(q, result)
        PROVE  FALSE
    <3>1. Move(q, Idle) \/ \E next : Move(q, Asks(next))
      BY <2>1 DEF Ends, PollEnds, BoardsEnd
    <3>2. CASE Move(q, Idle)
      BY <1>0, <3>2
    <3>3. ASSUME NEW next, Move(q, Asks(next))
          PROVE  FALSE
      BY <1>0, <3>3
    <3> QED BY <3>1, <3>2, <3>3
  <2>2. ASSUME NEW to, to.at # "refresh", Move(q, to)
        PROVE  FALSE
    BY <1>0, <2>2
  <2>3. request[q] \in Requests
    BY <1>0
  <2>4. CASE Poll(q)
    BY <2>2, <2>4 DEF Poll
  <2>5. CASE Ensure(q)
    <3> DEFINE to(at) == [request[q] EXCEPT !.at = at, !.token = held[Owner(q)]]
    <3>1. Waits(q) /\ (Move(q, to("fetch")) \/ Move(q, to("refresh")))
      BY <2>5 DEF Ensure
    <3>2. \A at : to(at).token = held[Owner(q)]
      BY <2>3 DEF Requests
    <3> HIDE DEF to
    <3>3. q = r
      BY <1>0, <3>1
    <3> QED BY <1>0, <3>1, <3>2, <3>3
  <2>6. CASE Serve(q)
    <3>1. /\ [request[q] EXCEPT !.at = "granted", !.token = issued'].at = "granted"
          /\ [request[q] EXCEPT !.at = "refused"].at = "refused"
      BY <2>3 DEF Requests
    <3> QED BY <2>2, <2>6, <3>1 DEF Serve
  <2>7. CASE Granted(q)
    <3>1. [request[q] EXCEPT !.at = "fetch"].at = "fetch"
      BY <2>3 DEF Requests
    <3> QED BY <2>2, <2>7, <3>1 DEF Granted
  <2>8. CASE Refused(q) \/ RefreshFails(q) \/ FetchFails(q)
    BY <2>1, <2>8 DEF Refused, RefreshFails, FetchFails
  <2>9. CASE Fetch(q)
    <3>1. [request[q] EXCEPT !.at = "wait", !.again = TRUE].at = "wait"
      BY <2>3 DEF Requests
    <3> QED BY <2>1, <2>2, <2>9, <3>1 DEF Fetch
  <2> QED BY <1>2, <2>4, <2>5, <2>6, <2>7, <2>8, <2>9 DEF Get
<1>3. CASE Reload \/ ReloadAnyway
  BY <1>3 DEF Reload, ReloadAnyway, Setup
<1>4. CASE Crash
  BY <1>4 DEF Crash
<1>5. CASE Flow
  <2>1. request' = request \/ Move("flow", Idle) \/ Move("flow", Asks("boards"))
    BY <1>5 DEF Flow, Open, Close, RequestCode, Retry, Decide, Sleep, AskPending, AskRefused,
                AskApproved, AskFails, ListBoards, client
  <2> QED BY <1>0, <2>1 DEF Callers
<1> QED BY <1>1, <1>2, <1>3, <1>4, <1>5 DEF Next

\* No order of polls, retries, flows and reloads sends a refresh token twice
\* whose first use brought something.
THEOREM NoLoginIsSentTwice == Spec => SentOnce
<1> DEFINE Once == \A r \in Callers :
                     request'[r].at = "refresh" /\ request[r].at # "refresh"
                     => request'[r].token \notin sent \/ request'[r].token \in failed
<1>1. IInv /\ [Next]_vars => [Once]_vars
  <2> SUFFICES ASSUME IInv, Next, NEW r \in Callers,
                      request'[r].at = "refresh", request[r].at # "refresh"
               PROVE  request'[r].token \notin sent \/ request'[r].token \in failed
    OBVIOUS
  <2>1. Waits(r) /\ request'[r].token = held[Owner(r)]
    BY OnlyEnsureSends
  <2>2. r = "flow" => Live /\ held["flow"] = flow.token
    BY <2>1 DEF IInv, Linking, Live, Waits
  <2>3. Accounted(held[Owner(r)])
    BY <2>2 DEF IInv, Accounts, Owner
  <2>4. ASSUME NEW s \in Callers, Sending(s), held[Owner(s)] = held[Owner(r)]
        PROVE  FALSE
    <3>1. Owner(s) # Owner(r)
      BY <2>1, <2>4 DEF IInv, Locked, Waits, Free, Callers
    <3>2. s = "flow" => Live /\ held["flow"] = flow.token
      BY <2>4 DEF IInv, Linking, Live, Sending
    <3>3. Live /\ held["flow"] = flow.token /\ held["flow"] = held["entry"]
      BY <2>2, <2>4, <3>1, <3>2 DEF Owner
    <3> QED BY <3>3 DEF IInv, Linking
  <2> QED BY <2>1, <2>3, <2>4 DEF Accounted
<1>2. Spec => [][Once]_vars
  BY <1>1, LoginsAreAccounted, PTL DEF Spec
<1> QED BY <1>2 DEF SentOnce

\* Only a request that ends in a refusal asks the user to link again.
LEMMA OnlyRefusalsAsk ==
    ASSUME IInv, NEW r \in Callers, NEW result, request[r].at # "idle", Ends(r, result), ~reauth, reauth'
    PROVE  r # "flow" /\ result = "auth"
<1>1. r = "flow" => ~reauth'
  BY DEF Ends, BoardsEnd
<1> QED BY <1>1, PollEndsMoves DEF Ends

\* The user is asked to link again only when the link is broken; outages and
\* requests that race never cause it.
THEOREM NoNeedlessRelink == Spec => RelinkIsNeeded
<1> DEFINE Broken == \/ held["entry"] \notin usable
                     \/ entry' = None
                     \/ forbidden
                     \/ \E r \in Callers :
                          request[r].at = "fetch" /\ request[r].again /\ request[r].token \notin good
<1>1. IInv /\ [Next]_vars => [~reauth /\ reauth' => Broken]_vars
  <2> SUFFICES ASSUME IInv, Next, ~reauth, reauth'
               PROVE  Broken
    OBVIOUS
  <2>1. CASE Servers
    BY <2>1 DEF Servers, Expire, Reject, Revoke, Forbid, SaveEntry, view
  <2>2. ASSUME NEW r \in Callers, Get(r)
        PROVE  Broken
    <3>1. CASE Poll(r) \/ Ensure(r) \/ Serve(r) \/ Granted(r)
      BY <3>1 DEF Poll, Ensure, Serve, Granted, view
    <3>2. CASE Refused(r)
      <4>1. request[r].at = "refused" /\ Ends(r, "auth")
        BY <3>2 DEF Refused
      <4>2. request[r].token = held["entry"]
        BY <4>1, OnlyRefusalsAsk DEF IInv, Asking, Owner
      <4> QED BY <4>1, <4>2 DEF IInv, Asking
    <3>3. CASE RefreshFails(r) \/ FetchFails(r)
      <4>1. request[r].at # "idle" /\ Ends(r, "outage")
        BY <3>3 DEF RefreshFails, FetchFails, Vain
      <4> QED BY <4>1, OnlyRefusalsAsk
    <3>4. CASE Fetch(r)
      <4>1. request[r].at = "fetch" /\ ~(Ends(r, "answer"))
        BY <3>4, OnlyRefusalsAsk DEF Fetch
      <4> QED BY <3>4, <4>1 DEF Fetch, view
    <3> QED BY <2>2, <3>1, <3>2, <3>3, <3>4 DEF Get
  <2>3. CASE Reload \/ ReloadAnyway
    BY <2>3 DEF Reload, ReloadAnyway
  <2>4. CASE Crash
    BY <2>4 DEF Crash
  <2>5. CASE Flow
    BY <2>5 DEF Flow, Open, Close, RequestCode, Retry, Decide, Sleep, AskPending, AskRefused,
                AskApproved, AskFails, ListBoards, view
  <2> QED BY <2>1, <2>2, <2>3, <2>4, <2>5 DEF Next
<1>2. Spec => [][~reauth /\ reauth' => Broken]_vars
  BY <1>1, LoginsAreAccounted, PTL DEF Spec
<1> QED BY <1>2 DEF RelinkIsNeeded

-----------------------------------------------------------------------------
(* The wait for the approval.                                              *)

\* A backoff never shortens the pause, and ends at MaxBackoff unless the
\* pause is longer already.
LEMMA BackoffBounds ==
    ASSUME NEW i \in Nat
    PROVE  /\ Backoff(i) \in Nat /\ i <= Backoff(i)
           /\ Backoff(i) <= i \/ Backoff(i) <= MaxBackoff
BY CloudAssumption DEF Backoff, Larger, Smaller

\* The pause begins anew, keeps, takes a slow_down or backs off.
LEMMA PauseKeeps ==
    ASSUME Pause, device' \in [code : Codes, clock : Nat, interval : Nat, told : Nat],
           \/ device'.interval = Interval /\ device'.told = Interval
           \/ device'.interval = device.interval /\ device'.told = device.told
           \/ /\ device'.interval = device.interval + SlowDown
              /\ device'.told = device.told + SlowDown
           \/ device'.interval = Backoff(device.interval) /\ device'.told = device.told
    PROVE  Pause'
<1> DEFINE i == device.interval
           t == device.told
           i2 == device'.interval
           t2 == device'.told
<1>1. i \in Nat /\ t \in Nat /\ i2 \in Nat /\ t2 \in Nat
  BY DEF Pause
<1>2. /\ Backoff(i) \in Nat /\ i <= Backoff(i)
      /\ Backoff(i) <= i \/ Backoff(i) <= MaxBackoff
  BY <1>1, BackoffBounds
<1>3. Interval <= t /\ t <= i /\ i <= Larger(MaxBackoff, Interval) + (t - Interval)
  BY <1>1, CloudAssumption DEF Pause, PollsAsTold, Larger
<1>4. \/ i2 = Interval /\ t2 = Interval
      \/ i2 = i /\ t2 = t
      \/ i2 = i + SlowDown /\ t2 = t + SlowDown
      \/ i2 = Backoff(i) /\ t2 = t
  OBVIOUS
<1> HIDE DEF i, t, i2, t2
<1>5. Interval <= t2 /\ t2 <= i2 /\ i2 <= Larger(MaxBackoff, Interval) + (t2 - Interval)
  BY <1>1, <1>2, <1>3, <1>4, CloudAssumption DEF Larger
<1>6. t2..(Larger(MaxBackoff, Interval) + (t2 - Interval)) \subseteq Int
  OBVIOUS
<1> QED BY <1>1, <1>5, CloudAssumption DEF Pause, PollsAsTold, i2, t2, Larger

\* The approval is never asked for more often than the server allows, and
\* outages alone never make the pause longer than MaxBackoff.
THEOREM PauseIsAsTold == Spec => []PollsAsTold
<1> DEFINE Type == [code : Codes, clock : Nat, interval : Nat, told : Nat]
<1>1. NoDevice \in Type /\ NoDevice.interval = Interval /\ NoDevice.told = Interval
  BY CloudAssumption DEF NoDevice, Codes
<1>2. Init => Pause
  BY <1>1, CloudAssumption DEF Init, Pause, PollsAsTold, Larger
<1>3. Pause /\ [Next]_vars => Pause'
  <2> SUFFICES ASSUME Pause, [Next]_vars
               PROVE  Pause'
    OBVIOUS
  <2>1. device \in Type /\ device.interval \in Nat /\ device.told \in Nat
    BY DEF Pause
  <2>2. ASSUME device' = device \/ device' = NoDevice
        PROVE  Pause'
    BY <1>1, <2>1, <2>2, PauseKeeps
  <2>3. CASE UNCHANGED vars \/ Servers \/ Reload \/ ReloadAnyway \/ Crash
    BY <2>2, <2>3 DEF vars, linking, Servers, Expire, Reject, Revoke, Forbid, SaveEntry,
                      Reload, ReloadAnyway, Crash
  <2>4. ASSUME NEW r \in Callers, Get(r)
        PROVE  Pause'
    BY <2>2, <2>4 DEF Get, Poll, Ensure, Serve, Granted, Refused, RefreshFails, Fetch, FetchFails,
                      linking
  <2>5. CASE Flow
    <3>1. CASE Open \/ Close \/ Retry \/ AskRefused \/ AskApproved \/ ListBoards
      BY <2>2, <3>1 DEF Open, Close, Retry, AskRefused, AskApproved, ListBoards
    <3>2. CASE RequestCode
      <4>1. device' = [NoDevice EXCEPT !.code = "open"]
        BY <3>2 DEF RequestCode
      <4>2. device' \in Type /\ device'.interval = Interval /\ device'.told = Interval
        BY <1>1, <4>1 DEF Codes
      <4> QED BY <4>2, PauseKeeps
    <3>3. CASE Decide
      <4>1. PICK code \in {"approved", "denied"} : device' = [device EXCEPT !.code = code]
        BY <3>3 DEF Decide
      <4>2. device' \in Type /\ device'.interval = device.interval /\ device'.told = device.told
        BY <2>1, <4>1 DEF Codes
      <4> QED BY <4>2, PauseKeeps
    <3>4. CASE Sleep
      <4>1. CASE device' = [device EXCEPT !.clock = @ + device.interval]
        <5>1. device' \in Type /\ device'.interval = device.interval /\ device'.told = device.told
          BY <2>1, <4>1
        <5> QED BY <5>1, PauseKeeps
      <4> QED BY <2>2, <3>4, <4>1 DEF Sleep
    <3>5. CASE AskPending
      <4>1. CASE device' = [device EXCEPT !.interval = @ + SlowDown, !.told = @ + SlowDown]
        <5>1. /\ device' \in Type
              /\ device'.interval = device.interval + SlowDown
              /\ device'.told = device.told + SlowDown
          <6>1. device.interval + SlowDown \in Nat /\ device.told + SlowDown \in Nat
            BY <2>1, CloudAssumption
          <6> QED BY <2>1, <4>1, <6>1
        <5> QED BY <5>1, PauseKeeps
      <4> QED BY <2>2, <3>5, <4>1 DEF AskPending
    <3>6. CASE AskFails
      <4>1. ASSUME NEW code \in Codes,
                   device' = [device EXCEPT !.interval = Backoff(@), !.code = code]
            PROVE  Pause'
        <5>1. /\ device' \in Type
              /\ device'.interval = Backoff(device.interval) /\ device'.told = device.told
          BY <2>1, <4>1, BackoffBounds
        <5> QED BY <5>1, PauseKeeps
      <4>2. CASE device' = [device EXCEPT !.interval = Backoff(@)]
        <5>1. /\ device' \in Type
              /\ device'.interval = Backoff(device.interval) /\ device'.told = device.told
          BY <2>1, <4>2, BackoffBounds
        <5> QED BY <5>1, PauseKeeps
      <4> QED BY <2>2, <3>6, <4>1, <4>2 DEF AskFails, Codes
    <3> QED BY <2>5, <3>1, <3>2, <3>3, <3>4, <3>5, <3>6 DEF Flow
  <2> QED BY <2>3, <2>4, <2>5 DEF Next
<1>4. Pause => PollsAsTold
  BY DEF Pause
<1> QED BY <1>2, <1>3, <1>4, PTL DEF Spec
=============================================================================
