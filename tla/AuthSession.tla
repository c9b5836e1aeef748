---------------------------- MODULE AuthSession ----------------------------
(***************************************************************************)
(* The login session of a browser: tabs of the console that share one      *)
(* refresh cookie, the refresh protocol each of them runs                  *)
(* (src/web/src/lib/auth-session.ts), the events they exchange             *)
(* (auth-session-sync.ts), what the HTTP client does with a 401            *)
(* (http-client.ts), signing in and out, and the server's rotation of the  *)
(* refresh secret (src/service/auth_session.go, src/model/user_session.go).*)
(*                                                                         *)
(* A login session is a number, newer logins have larger ones; 0 is none.  *)
(* The n-th refresh secret of a session is the number n: the server        *)
(* derives the next secret from the presented one, so n + 1 is what every  *)
(* request that presents n gets.                                           *)
(***************************************************************************)
EXTENDS Naturals, Integers, Sequences, FiniteSets

CONSTANTS
    Tab,         \* tabs of one browser
    NoTab,       \* the owner of a free browser lock
    Locks,       \* whether the browser has navigator.locks
    RaceDelays,  \* how many delays refreshRaceDelays lists, three in the code
    MaxSid,      \* bound: logins
    MaxActs,     \* bound: what users and the world do, see Spend
    Faults       \* which faults happen, see FaultKind

\* "lost": the answer to a refresh is lost; "failed": the server answers 5xx or
\* 429 without doing anything; "odd": another status or a body that is no
\* bundle; "race": AUTH_REFRESH_RACE; "slow": a request or a retry takes longer
\* than the replay window; "late": an answer of one session is still under way
\* when the next login is answered; "lookup": the session cannot be read; "fence":
\* a revocation raises its deny fence and does not commit.
FaultKind == {"lost", "failed", "odd", "race", "slow", "late", "lookup", "fence"}

ASSUME TabAssumption == NoTab \notin Tab /\ Locks \in BOOLEAN
ASSUME BoundAssumption == MaxSid \in Nat /\ MaxActs \in Nat /\ RaceDelays \in Nat
ASSUME FaultAssumption == Faults \subseteq FaultKind

VARIABLES
    store,    \* per tab: useAuthStore: session id, usable access token, bootstrapState
    run,      \* per tab: the refresh under way (refreshPromise and its runner)
    call,     \* per tab: an API call made through the HTTP client
    out,      \* per tab: a sign-out under way (executeLogout)
    sign,     \* per tab: the session of a login answer the page has not applied yet
    events,   \* per tab: BroadcastChannel messages not yet delivered
    holder,   \* the tab that holds the browser lock
    cookie,   \* the refresh cookie of the browser
    row,      \* the server's user_sessions rows
    orphan,   \* cookies of requests whose page is gone and that may still be served
    acts      \* sign-outs, expiries, reloads, revocations, faults so far

vars == <<store, run, call, out, sign, events, holder, cookie, row, orphan, acts>>

Sid == 1..MaxSid
\* bootstrapState; "checking" is only ever told apart from "complete".
Boot == {"idle", "complete"}
Cookie == [sid: Sid, n: Nat] \cup {[sid |-> 0, n |-> 0]}
NoCookie == [sid |-> 0, n |-> 0]
\* fence: the cache denies the session, status "revoking"; denied: a refresh was
\* answered with 401 although the row was active.
Row == [status: {"none", "active", "revoked", "reuse"}, cur: Nat, grace: BOOLEAN,
        fence: BOOLEAN, denied: BOOLEAN]

\* An answer of the refresh endpoint; set is what Set-Cookie does.
Answer == [kind: {"ok", "race", "mismatch", "unauthorized", "failed", "odd"},
           set: {"keep", "clear", "write"}, cookie: Cookie]
NoAnswer == [kind |-> "failed", set |-> "keep", cookie |-> NoCookie]

\* pc: none, waiting for the lock, request under way, answer under way, waiting
\* between two races.
Run == [pc: {"none", "queued", "sent", "served", "waiting"},
        current: BOOLEAN, race: 0..RaceDelays, retry: BOOLEAN,
        expect: Sid \cup {0}, cookie: Cookie, answer: Answer]
NoRun == [pc |-> "none", current |-> TRUE, race |-> 0, retry |-> TRUE,
          expect |-> 0, cookie |-> NoCookie, answer |-> NoAnswer]

\* pc: none, waiting for the refresh after a 401, sent again with the token of sid.
Call == [pc: {"none", "refreshing", "again"}, sid: Sid \cup {0}]
NoCall == [pc |-> "none", sid |-> 0]

\* pc: none, answered with success, answered with a mismatch, waiting for a
\* refresh, about to ask again.
Out == [pc: {"none", "done", "mismatch", "refreshing", "again"},
        clear: BOOLEAN, second: BOOLEAN]
NoOut == [pc |-> "none", clear |-> FALSE, second |-> FALSE]

Event == [kind: {"authenticated", "signed_out"}, sid: Sid]

EmptyStore == [sid |-> 0, fresh |-> FALSE, boot |-> "idle"]

TypeOK ==
    /\ store \in [Tab -> [sid: Sid \cup {0}, fresh: BOOLEAN, boot: Boot]]
    /\ run \in [Tab -> Run]
    /\ call \in [Tab -> Call]
    /\ out \in [Tab -> Out]
    /\ sign \in [Tab -> Sid \cup {0}]
    /\ events \in [Tab -> Seq(Event)]
    /\ holder \in Tab \cup {NoTab}
    /\ cookie \in Cookie
    /\ row \in [Sid -> Row]
    /\ orphan \subseteq Cookie
    /\ acts \in 0..MaxActs

Init ==
    /\ store = [t \in Tab |-> EmptyStore]
    /\ run = [t \in Tab |-> NoRun]
    /\ call = [t \in Tab |-> NoCall]
    /\ out = [t \in Tab |-> NoOut]
    /\ sign = [t \in Tab |-> 0]
    /\ events = [t \in Tab |-> <<>>]
    /\ holder = NoTab
    /\ cookie = NoCookie
    /\ row = [s \in Sid |-> [status |-> "none", cur |-> 0, grace |-> FALSE,
                             fence |-> FALSE, denied |-> FALSE]]
    /\ orphan = {}
    /\ acts = 0
-----------------------------------------------------------------------------
(* The store and the events. *)

\* The access token of the tab is accepted: not expired, and its session active
\* and not denied by the cache.
Accepted(s, fresh) == s # 0 /\ fresh /\ row[s].status = "active" /\ ~row[s].fence

\* auth.setBundle and auth.reset.
SetBundle(s) == [sid |-> s, fresh |-> TRUE, boot |-> "complete"]
Reset(boot) == [sid |-> 0, fresh |-> FALSE, boot |-> boot]

\* Seeded bug: a sign-out is announced although the tab showed no session.
PublishAlways(t, kind, s) ==
    [u \in Tab |-> IF u = t THEN events[u] ELSE Append(events[u], [kind |-> kind, sid |-> s])]

\* publishAuthSessionEvent: every other tab gets the event, the sender does not.
Publish(t, kind, s) ==
    [u \in Tab |-> IF u = t \/ s = 0 THEN events[u]
                   ELSE Append(events[u], [kind |-> kind, sid |-> s])]

\* authEpoch += 1: the refresh under way is no longer current. The counter is
\* only ever compared with its value at the start of the refresh.
Bump(t) == [run EXCEPT ![t].current = (run[t].pc = "none")]

\* run(): the request leaves with the cookie of the browser and the session of
\* the store.
Requested(r, expect) ==
    [r EXCEPT !.pc = "sent", !.cookie = cookie, !.expect = expect, !.answer = NoAnswer]

\* refreshAuthentication: join the refresh under way or start one, which waits
\* for the browser lock if there is one.
Refreshing(t) ==
    CASE run[t].pc # "none" -> run
      [] run[t].pc = "none" /\ Locks -> [run EXCEPT ![t] = [NoRun EXCEPT !.pc = "queued"]]
      [] OTHER -> [run EXCEPT ![t] = Requested(NoRun, store[t].sid)]

Spend == acts < MaxActs /\ acts' = acts + 1

-----------------------------------------------------------------------------
(* The refresh runner. *)

\* bootstrapAuthentication, called before every navigation.
Bootstrap(t) ==
    /\ sign[t] = 0
    /\ IF store[t].sid # 0 /\ store[t].fresh
       THEN /\ store[t].boot # "complete"
            /\ store' = [store EXCEPT ![t].boot = "complete"]
            /\ UNCHANGED run
       ELSE /\ ~(store[t].boot = "complete" /\ store[t].sid = 0)
            /\ store' = [store EXCEPT ![t].boot = "idle"]
            /\ run' = Refreshing(t)
    /\ UNCHANGED <<call, out, sign, events, holder, cookie, row, orphan, acts>>

\* getFreshAuthHeaders with a token that expires within a minute.
GetFreshHeaders(t) ==
    /\ store[t].sid # 0 /\ ~store[t].fresh
    /\ run' = Refreshing(t)
    /\ UNCHANGED <<store, call, out, sign, events, holder, cookie, row, orphan, acts>>

\* What waits for the refresh goes on when its promise resolves: an API call
\* is sent again with the token of the store, a sign-out is tried once more.
CallAfter(t, outcome, s) ==
    IF call[t].pc # "refreshing" THEN call
    ELSE [call EXCEPT ![t] = IF outcome = "authenticated"
                             THEN [pc |-> "again", sid |-> s]
                             ELSE NoCall]

OutAfter(t, outcome) ==
    IF out[t].pc # "refreshing" THEN out
    ELSE [out EXCEPT ![t] =
            CASE outcome = "authenticated" -> [NoOut EXCEPT !.pc = "again", !.second = TRUE]
              [] outcome = "anonymous" -> [NoOut EXCEPT !.pc = "done"]
              [] OTHER -> NoOut]

\* Seeded bug: the lock is not released.
SettleKeepsLock(t, outcome, s) ==
    /\ run' = [run EXCEPT ![t] = NoRun]
    /\ holder' = holder
    /\ call' = CallAfter(t, outcome, s)
    /\ out' = OutAfter(t, outcome)

\* The runner returns: the promise resolves and the lock is released.
Settle(t, outcome, s) ==
    /\ run' = [run EXCEPT ![t] = NoRun]
    /\ holder' = IF holder = t THEN NoTab ELSE holder
    /\ call' = CallAfter(t, outcome, s)
    /\ out' = OutAfter(t, outcome)

\* Seeded bug: the lock is shared.
LockShared(t) ==
    /\ run[t].pc = "queued" /\ run[t].current
    /\ holder' = t
    /\ run' = [run EXCEPT ![t] = Requested(@, store[t].sid)]
    /\ UNCHANGED <<call, out, store, sign, events, cookie, row, orphan, acts>>

\* navigator.locks grants the exclusive lock and run() starts: a refresh that
\* is no longer current sends nothing and gives the lock back.
LockGranted(t) ==
    /\ run[t].pc = "queued"
    /\ holder = NoTab
    /\ IF run[t].current
       THEN /\ holder' = t
            /\ run' = [run EXCEPT ![t] = Requested(@, store[t].sid)]
            /\ UNCHANGED <<call, out>>
       ELSE Settle(t, "transient_error", 0)
    /\ UNCHANGED <<store, sign, events, cookie, row, orphan, acts>>

\* Seeded bug: every secret the session ever had counts as a reuse.
SecretAnyOld(c) ==
    LET r == row[c.sid] IN
    CASE r.status # "active" -> "revoked"
      [] r.status = "active" /\ c.n = r.cur -> "rotate"
      [] r.status = "active" /\ c.n + 1 = r.cur /\ r.grace -> "replay"
      [] OTHER -> "reuse"

\* RotateUserSessionRefresh: what the row says of the secret of a cookie.
Secret(c) ==
    LET r == row[c.sid] IN
    CASE r.status # "active" -> "revoked"
      [] r.status = "active" /\ c.n = r.cur -> "rotate"
      [] r.status = "active" /\ c.n + 1 = r.cur ->
            IF r.grace THEN "replay" ELSE "reuse"
      [] OTHER -> "unknown"

\* RefreshAuth and RefreshLoginSession: what becomes of a presented cookie. The
\* session is read through the cache first, where a deny fence may stand.
Verdict(c, expect) ==
    CASE c.sid = 0 -> "missing"
      [] c.sid # 0 /\ expect \notin {0, c.sid} -> "mismatch"
      [] c.sid # 0 /\ expect \in {0, c.sid} ->
            IF row[c.sid].status = "active" /\ row[c.sid].fence THEN "denied" ELSE Secret(c)

\* The row after the verdict: rotated, or revoked because a secret that was
\* replaced is presented after its grace period.
Rotated(c, verdict) ==
    CASE verdict = "rotate" ->
            [row EXCEPT ![c.sid] = [status |-> "active", cur |-> @.cur + 1, grace |-> TRUE,
                                    fence |-> @.fence, denied |-> @.denied]]
      [] verdict = "reuse" -> [row EXCEPT ![c.sid].status = "reuse"]
      [] OTHER -> row

\* Seeded bug: a mismatch clears the cookie as well.
AnswerClears(c, verdict) ==
    CASE verdict \in {"rotate", "replay"} ->
            [kind |-> "ok", set |-> "write", cookie |-> [c EXCEPT !.n = @ + 1]]
      [] verdict = "mismatch" -> [kind |-> "mismatch", set |-> "clear", cookie |-> NoCookie]
      [] OTHER -> [kind |-> "unauthorized", set |-> "clear", cookie |-> NoCookie]

AnswerTo(c, verdict) ==
    CASE verdict \in {"rotate", "replay"} ->
            [kind |-> "ok", set |-> "write", cookie |-> [c EXCEPT !.n = @ + 1]]
      [] verdict = "mismatch" -> [kind |-> "mismatch", set |-> "keep", cookie |-> NoCookie]
      [] OTHER -> [kind |-> "unauthorized", set |-> "clear", cookie |-> NoCookie]

Reply(r, answer) ==
    [r EXCEPT !.pc = "served", !.cookie = NoCookie, !.expect = 0, !.answer = answer]

Denied(s) == [row EXCEPT ![s].denied = TRUE]

Serve(t) ==
    /\ run[t].pc = "sent"
    /\ LET c == run[t].cookie
           v == Verdict(c, run[t].expect)
       IN  /\ row' = IF v = "denied" THEN Denied(c.sid) ELSE Rotated(c, v)
           /\ run' = [run EXCEPT ![t] = Reply(@, AnswerTo(c, v))]
    /\ UNCHANGED <<store, call, out, sign, events, holder, cookie, orphan, acts>>

\* The answers that change nothing on the server.
ServeFault(t, kind) ==
    /\ run[t].pc = "sent"
    /\ run' = [run EXCEPT ![t] = Reply(@, [NoAnswer EXCEPT !.kind = kind])]
    /\ Spend
    /\ UNCHANGED <<store, call, out, sign, events, holder, cookie, row, orphan>>

\* GetUserSessionCached fails for another reason than an inactive session, say a
\* database that does not answer: RefreshLoginSession makes it an invalid token,
\* and RefreshAuth deletes the cookie and answers 401. (For a session that is over
\* this is the answer Serve gives.)
ServeLookupFails(t) ==
    /\ "lookup" \in Faults
    /\ run[t].pc = "sent"
    /\ LET c == run[t].cookie
       IN  /\ c.sid # 0 /\ run[t].expect \in {0, c.sid}
           /\ row[c.sid].status = "active" /\ row' = Denied(c.sid)
           /\ run' = [run EXCEPT ![t] = Reply(@, AnswerTo(c, "denied"))]
    /\ Spend
    /\ UNCHANGED <<store, call, out, sign, events, holder, cookie, orphan>>

\* The answer is lost: the page sees status 0, the cookie is not written.
LoseAnswer(t) ==
    /\ "lost" \in Faults
    /\ run[t].pc = "served" /\ run[t].answer # NoAnswer
    /\ run' = [run EXCEPT ![t].answer = NoAnswer]
    /\ Spend
    /\ UNCHANGED <<store, call, out, sign, events, holder, cookie, row, orphan>>

\* The browser applies Set-Cookie whether or not the page still wants the answer.
CookieAfter(answer) ==
    CASE answer.set = "write" -> answer.cookie
      [] answer.set = "clear" -> NoCookie
      [] OTHER -> cookie

\* A request whose page was closed is served all the same; nobody gets the answer.
ServeOrphan(c) ==
    /\ orphan' = orphan \ {c}
    /\ \/ row' = Rotated(c, Verdict(c, 0))
       \/ UNCHANGED row
    /\ UNCHANGED <<store, run, call, out, sign, events, holder, cookie, acts>>

\* The replay window of thirty seconds passes. Unless "slow" is a fault, every
\* request that presents the replaced secret is served inside the window, and a
\* browser that lost the answer asks again inside it.
Presents(c) ==
    \/ cookie = c
    \/ c \in orphan
    \/ \E t \in Tab : run[t].pc = "sent" /\ run[t].cookie = c

GraceEnds(s) ==
    /\ row[s].grace
    /\ "slow" \in Faults \/ ~Presents([sid |-> s, n |-> row[s].cur - 1])
    /\ row' = [row EXCEPT ![s].grace = FALSE]
    /\ UNCHANGED <<store, run, call, out, sign, events, holder, cookie, orphan, acts>>

-----------------------------------------------------------------------------
(* What the runner does with an answer. Each handler runs only while the      *)
(* refresh is current; Superseded is the other case.                          *)

Answered(t) == run[t].pc = "served" /\ cookie' = CookieAfter(run[t].answer)

HandleAnswer(t, kind) == Answered(t) /\ run[t].current /\ run[t].answer.kind = kind

Superseded(t) ==
    /\ Answered(t) /\ ~run[t].current
    /\ Settle(t, "transient_error", 0)
    /\ UNCHANGED <<store, sign, events, row, orphan, acts>>

\* acceptBundle: applyAuthBundle(bundle, false).
Accept(t) ==
    /\ HandleAnswer(t, "ok")
    /\ store' = [store EXCEPT ![t] = SetBundle(run[t].answer.cookie.sid)]
    /\ Settle(t, "authenticated", run[t].answer.cookie.sid)
    /\ UNCHANGED <<sign, events, row, orphan, acts>>

\* AUTH_REFRESH_RACE: three more attempts, then the session is dropped locally.
Raced(t) ==
    /\ HandleAnswer(t, "race")
    /\ IF run[t].race < RaceDelays
       THEN /\ run' = [run EXCEPT ![t].pc = "waiting"]
            /\ UNCHANGED <<store, holder, call, out>>
       ELSE /\ store' = [store EXCEPT ![t] = Reset("complete")]
            /\ Settle(t, "out_of_sync", 0)
    /\ UNCHANGED <<sign, events, row, orphan, acts>>

\* The delay between two races ends and run() starts again.
RaceDelayEnds(t) ==
    /\ run[t].pc = "waiting"
    /\ IF run[t].current
       THEN /\ run' = [run EXCEPT ![t] = Requested([@ EXCEPT !.race = run[t].race + 1],
                                                   store[t].sid)]
            /\ UNCHANGED <<holder, call, out>>
       ELSE Settle(t, "transient_error", 0)
    /\ UNCHANGED <<store, sign, events, cookie, row, orphan, acts>>

\* AUTH_SESSION_MISMATCH: the store is emptied without a new epoch and the
\* refresh goes on without an expected session, once.
Mismatched(t) ==
    /\ HandleAnswer(t, "mismatch")
    /\ IF run[t].retry
       THEN /\ store' = [store EXCEPT ![t] = Reset("idle")]
            /\ run' = [run EXCEPT ![t] = Requested([@ EXCEPT !.race = 0, !.retry = FALSE], 0)]
            /\ UNCHANGED <<holder, call, out>>
       ELSE /\ store' = [store EXCEPT ![t] = Reset("complete")]
            /\ Settle(t, "out_of_sync", 0)
    /\ UNCHANGED <<sign, events, row, orphan, acts>>

\* 401: clearAuthentication(true) tells the other tabs.
Unauthorized(t) ==
    /\ HandleAnswer(t, "unauthorized")
    /\ store' = [store EXCEPT ![t] = Reset("complete")]
    /\ events' = Publish(t, "signed_out", store[t].sid)
    /\ Settle(t, "anonymous", 0)
    /\ UNCHANGED <<sign, row, orphan, acts>>

\* No status, 429 or 5xx: markTransient.
Transient(t) ==
    /\ HandleAnswer(t, "failed")
    /\ store' = [store EXCEPT ![t].boot = "idle"]
    /\ Settle(t, "transient_error", 0)
    /\ UNCHANGED <<sign, events, row, orphan, acts>>

\* Anything else: clear(false).
Unexpected(t) ==
    /\ HandleAnswer(t, "odd")
    /\ store' = [store EXCEPT ![t] = Reset("complete")]
    /\ Settle(t, "out_of_sync", 0)
    /\ UNCHANGED <<sign, events, row, orphan, acts>>

Handle(t) ==
    \/ Superseded(t) \/ Accept(t) \/ Raced(t) \/ Mismatched(t)
    \/ Unauthorized(t) \/ Transient(t) \/ Unexpected(t)

-----------------------------------------------------------------------------
(* API calls through the HTTP client. *)

\* A call leaves with the access token of the store and is answered with 401:
\* it waits for a refresh. (A call that is accepted changes nothing.)
CallRejected(t) ==
    /\ call[t].pc = "none" /\ store[t].sid # 0
    /\ ~Accepted(store[t].sid, store[t].fresh)
    /\ call' = [call EXCEPT ![t].pc = "refreshing"]
    /\ run' = Refreshing(t)
    /\ UNCHANGED <<store, out, sign, events, holder, cookie, row, orphan, acts>>

\* The answer of the second attempt: another 401 drops the session locally.
RetryAnswered(t) ==
    /\ call[t].pc = "again"
    /\ call' = [call EXCEPT ![t] = NoCall]
    /\ IF Accepted(call[t].sid, TRUE)
       THEN UNCHANGED <<store, run>>
       ELSE /\ store' = [store EXCEPT ![t] = Reset("complete")]
            /\ run' = Bump(t)
    /\ UNCHANGED <<out, sign, events, holder, cookie, row, orphan, acts>>

-----------------------------------------------------------------------------
(* Signing in and out. *)

\* An answer to another request that would still change the cookie.
AnswerUnderWay ==
    \E t \in Tab : run[t].pc \in {"sent", "served"} \/ out[t].pc \in {"done", "mismatch"}

\* The sign-in page, shown once the bootstrap has settled to a tab without a
\* session: the server creates the session and the browser stores its cookie.
SignIn(t) ==
    /\ store[t].sid = 0 /\ sign[t] = 0 /\ run[t].pc = "none"
    /\ "late" \in Faults \/ ~AnswerUnderWay
    /\ \E s \in Sid :
        /\ row[s].status = "none"
        /\ \A r \in Sid : r < s => row[r].status # "none"
        /\ row' = [row EXCEPT ![s] = [status |-> "active", cur |-> 0, grace |-> FALSE,
                                      fence |-> FALSE, denied |-> FALSE]]
        /\ cookie' = [sid |-> s, n |-> 0]
        /\ sign' = [sign EXCEPT ![t] = s]
    /\ UNCHANGED <<store, run, call, out, events, holder, orphan, acts>>

\* handleLoginSuccess: applyAuthBundle(bundle) tells the other tabs.
ApplyLogin(t) ==
    /\ sign[t] # 0
    /\ store' = [store EXCEPT ![t] = SetBundle(sign[t])]
    /\ run' = Bump(t)
    /\ events' = IF store[t].sid # sign[t] THEN Publish(t, "authenticated", sign[t]) ELSE events
    /\ sign' = [sign EXCEPT ![t] = 0]
    /\ UNCHANGED <<call, out, holder, cookie, row, orphan, acts>>

\* A revocation that commits: its tombstone replaces the fence.
Revoked(s) == [row EXCEPT ![s].status = "revoked", ![s].fence = FALSE]

\* RevokeUserSessionByRefreshHash: the current secret, or the replaced one
\* inside its grace period.
RevokedByCookie ==
    IF cookie.sid # 0 /\ Secret(cookie) \in {"rotate", "replay"}
    THEN Revoked(cookie.sid) ELSE row

\* AuthLogout, asked for with the session and the token of the store.
AskSignOut(t, second) ==
    LET s == store[t].sid
        answer(pc, clear) == [pc |-> pc, clear |-> clear, second |-> second]
    IN
    IF s # 0 /\ cookie.sid \notin {0, s}
    THEN /\ out' = [out EXCEPT ![t] = answer("mismatch", FALSE)]
         /\ UNCHANGED row
    ELSE IF s # 0 /\ store[t].fresh
    THEN /\ out' = [out EXCEPT ![t] = answer("done", cookie.sid = s)]
         /\ row' = IF row[s].status = "active" THEN Revoked(s) ELSE row
    ELSE /\ out' = [out EXCEPT ![t] = answer("done", TRUE)]
         /\ row' = RevokedByCookie

SignOut(t) ==
    /\ store[t].sid # 0 /\ out[t].pc = "none" /\ Spend
    /\ AskSignOut(t, FALSE)
    /\ UNCHANGED <<store, run, call, sign, events, holder, cookie, orphan>>

SignOutAgain(t) ==
    /\ out[t].pc = "again"
    /\ AskSignOut(t, TRUE)
    /\ UNCHANGED <<store, run, call, sign, events, holder, cookie, orphan, acts>>

\* A mismatch is followed by one refresh; a second one is an error.
SignOutMismatch(t) ==
    /\ out[t].pc = "mismatch"
    /\ IF out[t].second
       THEN out' = [out EXCEPT ![t] = NoOut] /\ UNCHANGED run
       ELSE /\ out' = [out EXCEPT ![t].pc = "refreshing"]
            /\ run' = Refreshing(t)
    /\ UNCHANGED <<store, call, sign, events, holder, cookie, row, orphan, acts>>

\* Success: the cookie is deleted and clearAuthenticatedClientState runs.
SignOutDone(t) ==
    /\ out[t].pc = "done"
    /\ out' = [out EXCEPT ![t] = NoOut]
    /\ cookie' = IF out[t].clear THEN NoCookie ELSE cookie
    /\ store' = [store EXCEPT ![t] = Reset("complete")]
    /\ run' = Bump(t)
    /\ events' = Publish(t, "signed_out", store[t].sid)
    /\ UNCHANGED <<call, sign, holder, row, orphan, acts>>

-----------------------------------------------------------------------------
(* Events between tabs, and the world outside. *)

\* The page starts over: its requests are aborted, its lock is released.
PageGone(t, queue) ==
    /\ store' = [store EXCEPT ![t] = EmptyStore]
    /\ run' = [run EXCEPT ![t] = NoRun]
    /\ call' = [call EXCEPT ![t] = NoCall]
    /\ out' = [out EXCEPT ![t] = NoOut]
    /\ sign' = [sign EXCEPT ![t] = 0]
    /\ events' = [events EXCEPT ![t] = queue]
    /\ holder' = IF holder = t THEN NoTab ELSE holder
    /\ orphan' = IF run[t].pc = "sent" THEN orphan \cup {run[t].cookie} ELSE orphan
    /\ UNCHANGED <<cookie, row>>

\* The listener of the root route.
Deliver(t) ==
    /\ events[t] # <<>>
    /\ LET e == Head(events[t])
           rest == Tail(events[t])
       IN
       \/ /\ e.kind = "authenticated" /\ e.sid # store[t].sid
          /\ PageGone(t, rest)
       \/ /\ e.kind = "signed_out" /\ e.sid = store[t].sid
          /\ store' = [store EXCEPT ![t] = Reset("complete")]
          /\ run' = Bump(t)
          /\ events' = [events EXCEPT ![t] = rest]
          /\ UNCHANGED <<call, out, sign, holder, cookie, row, orphan>>
       \/ /\ (e.kind = "authenticated") <=> (e.sid = store[t].sid)
          /\ events' = [events EXCEPT ![t] = rest]
          /\ UNCHANGED <<store, run, call, out, sign, holder, cookie, row, orphan>>
    /\ UNCHANGED acts

\* The user reloads the page.
Reload(t) == Spend /\ PageGone(t, <<>>)

\* The access token runs out.
Expire(t) ==
    /\ store[t].fresh /\ Spend
    /\ store' = [store EXCEPT ![t].fresh = FALSE]
    /\ UNCHANGED <<run, call, out, sign, events, holder, cookie, row, orphan>>

\* The session is revoked from elsewhere: another device, an administrator.
RevokeElsewhere(s) ==
    /\ row[s].status = "active" /\ Spend
    /\ row' = Revoked(s)
    /\ UNCHANGED <<store, run, call, out, sign, events, holder, cookie, orphan>>

\* RevokeUserSession, for a sign-out or from elsewhere, has written its deny fence
\* to the cache and the transaction that should follow fails, or has yet to come.
RevokeHalts(s) ==
    /\ "fence" \in Faults
    /\ row[s].status = "active" /\ ~row[s].fence /\ Spend
    /\ row' = [row EXCEPT ![s].fence = TRUE]
    /\ UNCHANGED <<store, run, call, out, sign, events, holder, cookie, orphan>>

\* The fence runs out.
FenceEnds(s) ==
    /\ row[s].fence
    /\ row' = [row EXCEPT ![s].fence = FALSE]
    /\ UNCHANGED <<store, run, call, out, sign, events, holder, cookie, orphan, acts>>

\* What a page or the browser does without the user.
PageStep(t) ==
    \/ LockGranted(t) \/ Handle(t) \/ RaceDelayEnds(t)
    \/ RetryAnswered(t)
    \/ ApplyLogin(t) \/ SignOutAgain(t) \/ SignOutMismatch(t) \/ SignOutDone(t)
    \/ Deliver(t)

UserStep(t) ==
    \/ Bootstrap(t) \/ GetFreshHeaders(t) \/ CallRejected(t)
    \/ SignIn(t) \/ SignOut(t)

World(t) ==
    \/ \E kind \in Faults \cap {"failed", "odd", "race"} : ServeFault(t, kind)
    \/ ServeLookupFails(t) \/ LoseAnswer(t) \/ Reload(t) \/ Expire(t)

Next ==
    \/ \E t \in Tab : PageStep(t) \/ Serve(t) \/ UserStep(t) \/ World(t)
    \/ \E c \in orphan : ServeOrphan(c)
    \/ \E s \in Sid : GraceEnds(s) \/ RevokeElsewhere(s) \/ RevokeHalts(s) \/ FenceEnds(s)

Spec == Init /\ [][Next]_vars

\* Continuations, timers and event listeners of a page run, the browser grants a
\* free lock, the server answers, and a page that shows a session calls the API.
FairSpec ==
    /\ Spec
    /\ WF_vars(\E t \in Tab : PageStep(t) \/ Serve(t))
    /\ WF_vars(\E t \in Tab : CallRejected(t))

-----------------------------------------------------------------------------
(* Properties *)

\* No session is revoked for the reuse of a refresh secret as long as requests
\* are served, and lost answers asked for again, inside the replay window: tabs
\* that refresh, reload, lose answers and sign in and out in any order never
\* present a replaced secret once RotateUserSessionRefresh has stopped accepting it.
NoFalseReuse == \A s \in Sid : row[s].status # "reuse"

\* The browser's newest login: the one its only refresh cookie was last set for.
Newest(s) == \A r \in Sid : r > s => row[r].status = "none"

\* A 401 that will end the session of a tab and sign out all the others
\* (clear(true)) is only ever on its way when the server has ended that session, or
\* has denied it once while it was active: the lookup of the session failed, or a
\* deny fence of a revocation that did not commit stood before it. No race of tabs,
\* logins, reloads and lost answers adds another reason.
RejectionIsTrue ==
    \A t \in Tab :
        (/\ run[t].pc = "served" /\ run[t].current
         /\ run[t].answer.kind = "unauthorized"
         /\ store[t].sid # 0 /\ Newest(store[t].sid))
        => row[store[t].sid].status # "active" \/ row[store[t].sid].denied

\* Whatever the tabs did to the shared cookie: as long as the newest session is
\* active and the server has not denied it, the browser holds a cookie of that
\* session with a secret the row accepts, at every moment and not only when nothing
\* is under way. No tab, by refreshing, reloading or signing another session out,
\* can lock the others out; only the server's own false 401 can (see RejectionIsTrue).
SessionCanContinue ==
    \A s \in Sid :
        (Newest(s) /\ row[s].status = "active" /\ ~row[s].denied)
        => cookie.sid = s /\ Secret(cookie) \in {"rotate", "replay"}

Shows(t, s) == store[t].sid = s
Dead(s) == row[s].status \in {"revoked", "reuse"}

\* A session that was ended, in this tab, another tab or elsewhere, disappears
\* from every tab, even from one whose refresh was answered before the end and
\* handled after it, or that ignored the sign-out event because it was loading:
\* however often it is shown, a time comes when no tab shows an ended session.
DeadSessionLeaves == []<>(\A t \in Tab, s \in Sid : Shows(t, s) => ~Dead(s))
=============================================================================
