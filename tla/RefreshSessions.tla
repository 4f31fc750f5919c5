--------------------------- MODULE RefreshSessions ---------------------------
(* The login session of one browser.  A session's refresh token lives in an    *)
(* HttpOnly cookie all tabs share and is exchanged for a successor at every    *)
(* refresh; a token that comes back after its exchange is taken for stolen and *)
(* ends the session.  The server handlers (token/refresh, logout, login)       *)
(* interleave at their awaits; the tabs coordinate by a Web Lock, which is a   *)
(* queue, and by broadcast messages that may be late or lost.                  *)
EXTENDS Naturals, Sequences

CONSTANTS
  Tab,              \* tabs of the browser
  WebLocks,         \* the browser has navigator.locks
  MaxToken,         \* bound on refresh tokens
  MaxSession,       \* bound on logins
  MaxTime,          \* bound on the clock
  ReuseGrace,       \* ticks in which a revoked token counts as a concurrent retry
  MaxRefreshFaults  \* bound on lost connections, lost messages and server errors

ASSUME SessionBounds ==
  /\ MaxToken \in Nat \ {0} /\ MaxSession \in Nat \ {0} /\ MaxTime \in Nat
  /\ ReuseGrace \in Nat /\ MaxRefreshFaults \in Nat /\ WebLocks \in BOOLEAN

VARIABLES
  token,         \* rows of tb_cm_refresh_token
  minted,        \* how many of them exist
  session,       \* status per session
  cookie,        \* the browser's refresh token, 0 when there is none
  call,          \* per tab: the request on the server that it sent last
  tab,           \* per tab: where its refresh stands
  lockQueue,     \* the Web Lock: the holder, then those who wait
  news,          \* per tab: another tab's result since its start, and how far it got
  clock,
  refreshFaults,
  struck         \* history: reuse detection ended a valid session

server == <<token, minted, session>>
browser == <<cookie, tab, lockQueue, news>>
sessionVars == <<token, minted, session, cookie, call, tab, lockQueue, news,
                 clock, refreshFaults, struck>>

Token == 1..MaxToken
Session == 1..MaxSession
Time == 0..MaxTime

TokenRow == [session: 0..MaxSession, parent: 0..MaxToken, revoked: BOOLEAN, at: Time]
Call == [kind: {"NONE", "REFRESH", "LOGOUT"},
         at: {"free", "received", "find", "session", "rotate", "look", "end", "leave", "reply"},
         tok: 0..MaxToken, now: Time, seen: SUBSET Token, new: 0..MaxToken,
         reply: {"NONE", "OK", "CONFLICT", "DENIED", "ERROR"}, heard: BOOLEAN]
(* retry: a conflict is tried again; via: with the lock, by its queue or without *)
TabState == [at: {"idle", "queued", "handoff", "sent", "peer", "resend", "leaving"},
             retry: BOOLEAN, via: {"lock", "queue", "none"}]

SessionTypeOK ==
  /\ token \in [Token -> TokenRow] /\ minted \in 0..MaxToken
  /\ session \in [Session -> {"NONE", "VALID", "INVALID"}]
  /\ cookie \in 0..MaxToken
  /\ call \in [Tab -> Call] /\ tab \in [Tab -> TabState]
  /\ lockQueue \in Seq(Tab) /\ \A i, j \in DOMAIN lockQueue : lockQueue[i] = lockQueue[j] => i = j
  /\ news \in [Tab -> {"NONE", "SENT", "HERE"}]
  /\ clock \in Time /\ refreshFaults \in 0..MaxRefreshFaults
  /\ struck \in BOOLEAN

(* ------------------------------- Helpers -------------------------------- *)
NoToken == [session |-> 0, parent |-> 0, revoked |-> FALSE, at |-> 0]
NoCall == [kind |-> "NONE", at |-> "free", tok |-> 0, now |-> 0, seen |-> {},
           new |-> 0, reply |-> "NONE", heard |-> TRUE]
IdleTab == [at |-> "idle", retry |-> TRUE, via |-> "lock"]

Minted(n) == n \in 1..minted
LiveToken(n) == Minted(n) /\ ~token[n].revoked
SessionOf(n) == token[n].session

CallAt(t, kind, step) == call[t].kind = kind /\ call[t].at = step
CallGoto(t, step) == call' = [call EXCEPT ![t].at = step]
(* An answer nobody waits for any more is dropped.                             *)
Answer(t, r, n) ==
  call' = [call EXCEPT ![t] =
    IF @.heard THEN [NoCall EXCEPT !.kind = call[t].kind, !.tok = call[t].tok,
                                   !.at = "reply", !.reply = r, !.new = n]
    ELSE NoCall]
Reply(t, r) == Answer(t, r, 0)
Lost == refreshFaults < MaxRefreshFaults /\ refreshFaults' = refreshFaults + 1

(* The request leaves with the cookie of this moment; startedAt is now, so     *)
(* results under way are older than it and no longer count.                    *)
NewCall(kind) == [NoCall EXCEPT !.kind = kind, !.at = "received", !.tok = cookie]
Refreshing == {"queued", "handoff", "sent", "peer", "resend"}
Started(t) == news' = [news EXCEPT ![t] = "NONE"]
Send(t, again, way) ==
  /\ call' = [call EXCEPT ![t] = NewCall("REFRESH")]
  /\ tab' = [tab EXCEPT ![t] = [at |-> "sent", retry |-> again, via |-> way]]
  /\ Started(t)

(* The refresh of a tab is over: it lets go of the lock if it holds it.        *)
Released(q, t) == IF q # <<>> /\ Head(q) = t THEN Tail(q) ELSE q
Settle(t) == /\ tab' = [tab EXCEPT ![t] = IdleTab]
             /\ lockQueue' = Released(lockQueue, t)

SessionInit ==
  /\ token = [n \in Token |-> IF n = 1 THEN [NoToken EXCEPT !.session = 1] ELSE NoToken]
  /\ minted = 1
  /\ session = [s \in Session |-> IF s = 1 THEN "VALID" ELSE "NONE"]
  /\ cookie = 1
  /\ call = [t \in Tab |-> NoCall] /\ tab = [t \in Tab |-> IdleTab]
  /\ lockQueue = <<>>
  /\ news = [t \in Tab |-> "NONE"]
  /\ clock = 0 /\ refreshFaults = 0
  /\ struck = FALSE

(* --------------------------- The tabs: refresh --------------------------- *)
(* coordinateAcrossTabs: with the lock free, or without locks, the request is  *)
(* sent at once; else the tab queues.                                          *)
StartRefreshSlip(t) ==
  /\ tab[t].at = "idle" /\ call[t].at = "free"
  /\ Send(t, TRUE, "none")
  /\ UNCHANGED <<server, cookie, lockQueue, clock, refreshFaults, struck>>
StartRefresh(t) ==
  /\ tab[t].at = "idle" /\ call[t].at = "free"
  /\ lockQueue' = IF WebLocks THEN Append(lockQueue, t) ELSE lockQueue
  /\ IF lockQueue = <<>>
       THEN Send(t, TRUE, IF WebLocks THEN "lock" ELSE "none")
       ELSE /\ tab' = [tab EXCEPT ![t].at = "queued", ![t].via = "queue"]
            /\ Started(t) /\ UNCHANGED call
  /\ UNCHANGED <<server, cookie, clock, refreshFaults, struck>>

LockGranted(t) ==
  /\ tab[t].at = "queued" /\ lockQueue # <<>> /\ Head(lockQueue) = t
  /\ tab' = [tab EXCEPT ![t].at = "handoff"]
  /\ UNCHANGED <<server, cookie, call, lockQueue, news, clock, refreshFaults, struck>>

(* waitForPeerResult: another tab's result, or the timer.                      *)
PeerArrived(t) ==
  /\ tab[t].at \in {"handoff", "peer"} /\ news[t] = "HERE"
  /\ Settle(t) /\ Started(t)
  /\ UNCHANGED <<server, cookie, call, clock, refreshFaults, struck>>

(* Slips: the lock is kept by a tab that gives up; who was told that others    *)
(* are refreshing waits for their result only.                                 *)
PeerTimeoutKeepsLock(t) ==
  /\ tab[t].at \in {"handoff", "peer"} /\ news[t] # "HERE"
  /\ IF tab[t].at = "handoff" \/ tab[t].retry
       THEN Send(t, tab[t].at = "handoff", tab[t].via) /\ UNCHANGED lockQueue
       ELSE /\ tab' = [tab EXCEPT ![t] = IdleTab]
            /\ UNCHANGED <<call, news, lockQueue>>
  /\ UNCHANGED <<server, cookie, clock, refreshFaults, struck>>

PeerTimeoutSlip(t) ==
  /\ tab[t].at = "handoff" /\ news[t] # "HERE"
  /\ Send(t, TRUE, "queue")
  /\ UNCHANGED <<server, cookie, lockQueue, clock, refreshFaults, struck>>

PeerTimeout(t) ==
  /\ tab[t].at \in {"handoff", "peer"} /\ news[t] # "HERE"
  /\ IF tab[t].at = "handoff" \/ tab[t].retry
       THEN Send(t, tab[t].at = "handoff", tab[t].via) /\ UNCHANGED lockQueue
       ELSE Settle(t) /\ UNCHANGED <<call, news>>
  /\ UNCHANGED <<server, cookie, clock, refreshFaults, struck>>

ReceiveNews(t) ==
  /\ news[t] = "SENT" /\ tab[t].at \in Refreshing
  /\ news' = [news EXCEPT ![t] = "HERE"]
  /\ UNCHANGED <<server, cookie, call, tab, lockQueue, clock, refreshFaults, struck>>

LoseNews(t) ==
  /\ news[t] = "SENT" /\ tab[t].at \in Refreshing /\ Lost
  /\ news' = [news EXCEPT ![t] = "NONE"]
  /\ UNCHANGED <<server, cookie, call, tab, lockQueue, clock, struck>>

(* ------------------------ The server: token/refresh ---------------------- *)
(* `now` is read before the token is looked up.                                *)
ReadClock(t) ==
  /\ CallAt(t, "REFRESH", "received")
  /\ IF call[t].tok = 0 THEN Reply(t, "DENIED")
     ELSE call' = [call EXCEPT ![t].at = "find", ![t].now = clock]
  /\ UNCHANGED <<server, browser, clock, refreshFaults, struck>>

(* classifyRevokedRefreshTokenUse: a time before the revocation is reuse too.  *)
ConcurrentRetry(row, now) == row.at <= now /\ now <= row.at + ReuseGrace

FindToken(t) ==
  LET row == token[call[t].tok] IN
  /\ CallAt(t, "REFRESH", "find")
  /\ CASE row.revoked /\ ConcurrentRetry(row, call[t].now) -> Reply(t, "CONFLICT")
       [] row.revoked /\ ~ConcurrentRetry(row, call[t].now) -> CallGoto(t, "look")
       [] OTHER -> CallGoto(t, "session")
  /\ UNCHANGED <<server, browser, clock, refreshFaults, struck>>

CheckSession(t) ==
  /\ CallAt(t, "REFRESH", "session")
  /\ IF session[SessionOf(call[t].tok)] = "VALID" THEN CallGoto(t, "rotate") ELSE Reply(t, "DENIED")
  /\ UNCHANGED <<server, browser, clock, refreshFaults, struck>>

(* rotateRefreshTokenAtomically: consume the token if nobody has, touch the    *)
(* session if it is valid, create the successor; or none of it.                *)
Exchanged(n, now) ==
  /\ minted' = minted + 1
  /\ token' = [token EXCEPT
       ![n].revoked = TRUE, ![n].at = now,
       ![minted + 1] = [NoToken EXCEPT !.session = SessionOf(n), !.parent = n]]

RotateSlip(t) ==
  LET n == call[t].tok IN
  /\ CallAt(t, "REFRESH", "rotate") /\ minted < MaxToken
  /\ IF session[SessionOf(n)] # "VALID" THEN Reply(t, "DENIED") /\ UNCHANGED server
     ELSE /\ Exchanged(n, call[t].now)
          /\ Answer(t, "OK", minted + 1)
          /\ UNCHANGED session
  /\ UNCHANGED <<browser, clock, refreshFaults, struck>>
RotateDeadSlip(t) ==
  LET n == call[t].tok IN
  /\ CallAt(t, "REFRESH", "rotate") /\ minted < MaxToken
  /\ IF token[n].revoked THEN Reply(t, "CONFLICT") /\ UNCHANGED server
     ELSE /\ Exchanged(n, call[t].now)
          /\ Answer(t, "OK", minted + 1)
          /\ UNCHANGED session
  /\ UNCHANGED <<browser, clock, refreshFaults, struck>>
Rotate(t) ==
  LET n == call[t].tok IN
  /\ CallAt(t, "REFRESH", "rotate") /\ minted < MaxToken
  /\ CASE token[n].revoked -> Reply(t, "CONFLICT") /\ UNCHANGED server
       [] ~token[n].revoked /\ session[SessionOf(n)] # "VALID" ->
            Reply(t, "DENIED") /\ UNCHANGED server
       [] OTHER ->
            /\ Exchanged(n, call[t].now)
            /\ Answer(t, "OK", minted + 1)
            /\ UNCHANGED session
  /\ UNCHANGED <<browser, clock, refreshFaults, struck>>

(* A server error; at the bound of tokens every rotation ends this way.        *)
RotateFails(t) ==
  /\ CallAt(t, "REFRESH", "rotate")
  /\ IF minted = MaxToken THEN UNCHANGED refreshFaults ELSE Lost
  /\ Reply(t, "ERROR")
  /\ UNCHANGED <<server, browser, clock, struck>>

(* Reuse detected.  The transaction's first statement sees the tokens that are *)
(* committed when it starts; a rotation it waits for may add one it does not   *)
(* see.                                                                        *)
ReuseLook(t) ==
  /\ CallAt(t, "REFRESH", "look")
  /\ call' = [call EXCEPT ![t].at = "end",
        ![t].seen = {n \in Token : LiveToken(n) /\ SessionOf(n) = SessionOf(call[t].tok)}]
  /\ UNCHANGED <<server, browser, clock, refreshFaults, struck>>

ReuseEnd(t) ==
  LET s == SessionOf(call[t].tok)
      gone == {n \in call[t].seen : LiveToken(n)}
  IN
  /\ CallAt(t, "REFRESH", "end")
  /\ token' = [n \in Token |-> IF n \in gone
                 THEN [token[n] EXCEPT !.revoked = TRUE, !.at = call[t].now] ELSE token[n]]
  /\ session' = [session EXCEPT ![s] = "INVALID"]
  /\ struck' = (struck \/ session[s] = "VALID")
  /\ Reply(t, "DENIED")
  /\ UNCHANGED <<minted, browser, clock, refreshFaults>>

(* ------------------------- Logout and login ------------------------------ *)
(* Logging out takes no lock.                                                  *)
StartLogout(t) ==
  /\ tab[t].at = "idle" /\ call[t].at = "free" /\ cookie # 0
  /\ call' = [call EXCEPT ![t] = NewCall("LOGOUT")]
  /\ tab' = [tab EXCEPT ![t].at = "leaving"]
  /\ UNCHANGED <<server, cookie, lockQueue, news, clock, refreshFaults, struck>>

FindLogout(t) ==
  /\ CallAt(t, "LOGOUT", "received")
  /\ IF token[call[t].tok].revoked THEN Reply(t, "OK") ELSE CallGoto(t, "leave")
  /\ UNCHANGED <<server, browser, clock, refreshFaults, struck>>

EndSession(t) ==
  LET n == call[t].tok IN
  /\ CallAt(t, "LOGOUT", "leave")
  /\ token' = [token EXCEPT ![n].revoked = TRUE, ![n].at = clock]
  /\ session' = [session EXCEPT ![SessionOf(n)] = "INVALID"]
  /\ Reply(t, "OK")
  /\ UNCHANGED <<minted, browser, clock, refreshFaults, struck>>

(* A login is one transaction and its answer.                                  *)
Login(t) ==
  /\ tab[t].at = "idle" /\ call[t].at = "free" /\ cookie = 0 /\ minted < MaxToken
  /\ \E s \in Session :
       /\ session[s] = "NONE" /\ \A r \in Session : r < s => session[r] # "NONE"
       /\ session' = [session EXCEPT ![s] = "VALID"]
       /\ token' = [token EXCEPT ![minted + 1] = [NoToken EXCEPT !.session = s]]
  /\ minted' = minted + 1
  /\ cookie' = minted + 1
  /\ UNCHANGED <<call, tab, lockQueue, news, clock, refreshFaults, struck>>

(* ------------------- The answer reaches the browser ---------------------- *)
Free(t) == call' = [call EXCEPT ![t] = NoCall]

(* The winner stores the cookie, tells the other tabs and lets go of the lock. *)
DeliverOK(t) ==
  /\ CallAt(t, "REFRESH", "reply") /\ call[t].reply = "OK"
  /\ cookie' = call[t].new
  /\ news' = [u \in Tab |->
       IF u = t THEN "NONE" ELSE IF tab[u].at \in Refreshing THEN "SENT" ELSE news[u]]
  /\ Settle(t) /\ Free(t)
  /\ UNCHANGED <<server, clock, refreshFaults, struck>>

DeliverConflict(t) ==
  /\ CallAt(t, "REFRESH", "reply") /\ call[t].reply = "CONFLICT"
  /\ tab' = [tab EXCEPT ![t].at = "peer"]
  /\ Free(t)
  /\ UNCHANGED <<server, cookie, lockQueue, news, clock, refreshFaults, struck>>

(* A 401 clears the cookie, whichever token it now holds; an error keeps it.   *)
DeliverFailure(t) ==
  /\ CallAt(t, "REFRESH", "reply") /\ call[t].reply \in {"DENIED", "ERROR"}
  /\ cookie' = IF call[t].reply = "DENIED" THEN 0 ELSE cookie
  /\ Settle(t) /\ Free(t)
  /\ UNCHANGED <<server, news, clock, refreshFaults, struck>>

DeliverLogout(t) ==
  /\ CallAt(t, "LOGOUT", "reply")
  /\ cookie' = 0
  /\ Settle(t) /\ Free(t)
  /\ UNCHANGED <<server, news, clock, refreshFaults, struck>>

(* The connection breaks, or the tab is closed and opened again: the handler   *)
(* goes on and nobody hears its answer.                                        *)
Unheard(t) ==
  /\ call[t].heard /\ Lost
  /\ call' = [call EXCEPT ![t] = IF @.at = "reply" THEN NoCall ELSE [@ EXCEPT !.heard = FALSE]]

Disconnect(t) ==
  /\ tab[t].at \in {"sent", "leaving"} /\ Unheard(t)
  /\ Settle(t)
  /\ UNCHANGED <<server, cookie, news, clock, struck>>

(* The catch of a tab that got the lock at once: the error lets go of the lock *)
(* and the request is sent again without it.  startedAt stays.                 *)
CatchError(t) ==
  /\ tab[t].at = "sent" /\ tab[t].via = "lock" /\ Unheard(t)
  /\ tab' = [tab EXCEPT ![t] = [at |-> "resend", retry |-> TRUE, via |-> "none"]]
  /\ lockQueue' = Released(lockQueue, t)
  /\ UNCHANGED <<server, cookie, news, clock, struck>>

Resend(t) ==
  /\ tab[t].at = "resend" /\ call[t].at = "free"
  /\ call' = [call EXCEPT ![t] = NewCall("REFRESH")]
  /\ tab' = [tab EXCEPT ![t].at = "sent"]
  /\ UNCHANGED <<server, cookie, lockQueue, news, clock, refreshFaults, struck>>

SessionTick ==
  /\ clock < MaxTime /\ clock' = clock + 1
  /\ UNCHANGED <<server, browser, call, refreshFaults, struck>>

(* --------------------------- The specification --------------------------- *)
ServerStep(t) ==
  \/ ReadClock(t) \/ FindToken(t) \/ CheckSession(t) \/ Rotate(t) \/ RotateFails(t)
  \/ ReuseLook(t) \/ ReuseEnd(t) \/ FindLogout(t) \/ EndSession(t)
TabStep(t) ==
  \/ LockGranted(t) \/ PeerArrived(t) \/ PeerTimeout(t) \/ Resend(t)
  \/ DeliverOK(t) \/ DeliverConflict(t) \/ DeliverFailure(t) \/ DeliverLogout(t)

SessionNext ==
  \/ \E t \in Tab :
       \/ ServerStep(t) \/ TabStep(t)
       \/ StartRefresh(t) \/ ReceiveNews(t) \/ LoseNews(t)
       \/ StartLogout(t) \/ Login(t) \/ Disconnect(t) \/ CatchError(t)
  \/ SessionTick

(* The server answers what it received, timers fire and the browser hands the  *)
(* lock over; no user acts and no message arrives by force.                    *)
SessionFairness ==
  \A t \in Tab : WF_sessionVars(ServerStep(t)) /\ WF_sessionVars(TabStep(t))

SessionSafety == SessionInit /\ [][SessionNext]_sessionVars
SessionSpec == SessionSafety /\ SessionFairness

(* ------------------------------ Properties ------------------------------- *)
(* rotateRefreshTokenAtomically: however many requests carry a token, it is    *)
(* exchanged once, and a session has one live token at most.                   *)
OneSuccessor ==
  \A m, n \in Token :
    Minted(m) /\ Minted(n) /\ m # n =>
      /\ token[m].parent # 0 => token[m].parent # token[n].parent
      /\ LiveToken(m) /\ LiveToken(n) => SessionOf(m) # SessionOf(n)

(* The same transaction, against logout and reuse detection: a session that    *)
(* has ended stays ended and gets no new token.                                *)
EndedSessionGetsNoToken ==
  [][\A n \in Token :
       Minted(n)' /\ ~Minted(n) => session'[token'[n].session] = "VALID"]_sessionVars

(* authRefreshClient and classifyRevokedRefreshTokenUse: in a browser with Web *)
(* Locks the tabs' own refreshes are not taken for theft, unless an answer or  *)
(* a connection was lost.                                                      *)
NoFalseAlarm == WebLocks /\ struck => refreshFaults > 0

(* refreshAccessTokenResult: a refresh that was started ends, whatever happens *)
(* to the other tabs, so the lock never stays taken.                           *)
RefreshSettles == \A t \in Tab : tab[t].at # "idle" ~> tab[t].at = "idle"
==============================================================================
