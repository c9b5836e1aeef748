---------------------------- MODULE LoginSession ----------------------------
(***************************************************************************)
(* One login session on the server: its row in user_sessions and its entry *)
(* in the Redis cache, used by several requests at a time.                 *)
(*                                                                         *)
(* A request validates the session (GetUserSessionCached), rotates its     *)
(* refresh secret, revokes it or advances its version.  Each reads or      *)
(* writes the row and the cache in separate steps, so an active snapshot   *)
(* read before a revocation may be written to the cache after it.  Two     *)
(* things stand against that: a deny entry refuses active writes as long   *)
(* as it lives, and an active entry expires one cache window after the     *)
(* moment just before its row was read.                                    *)
(*                                                                         *)
(* Time is a counter of ticks, the same for all nodes and for Redis.       *)
(***************************************************************************)
EXTENDS Naturals

CONSTANTS
    Proc,        \* requests that run at the same time
    NoProc,      \* nobody holds the row lock
    TTL,         \* userCacheTTLSeconds
    Expiry,      \* ExpiresAt of the session
    MaxTime,     \* bound of the clock
    MaxVersion,  \* bound of the session version
    Faults       \* "redis": a Redis call fails; "crash": a request dies

ASSUME NoProcAssumption == NoProc \notin Proc
ASSUME TTLAssumption == TTL \in Nat \ {0}
ASSUME ExpiryAssumption == Expiry \in Nat
ASSUME MaxTimeAssumption == MaxTime \in Nat
ASSUME MaxVersionAssumption == MaxVersion \in Nat \ {0}

VARIABLES
    now,     \* the clock
    row,     \* the row: status, version, and when it was revoked
    cache,   \* the Redis entry: status ("none" when absent), version, expiry
    lock,    \* who holds the row lock
    tombed,  \* the tombstone of the revocation has been written
    proc     \* what each request is doing

vars == <<now, row, cache, lock, tombed, proc>>

Status == {"none", "active", "revoking", "revoked"}
Pc == {"idle", "read", "deny", "fill", "filled", "confirm", "rotate",
       "fence", "tx", "tomb", "hash", "advance"}

\* op: what a failed cache write means to the request; ver: the version it read;
\* deadline: its cache deadline; afterTomb, afterWindow: the validation began after
\* the tombstone, or a cache window after the revocation; accepted: its result.
Request == [pc: Pc, op: {"none", "validate", "rotate", "advance"}, ver: Nat,
            deadline: Nat, afterTomb: BOOLEAN, afterWindow: BOOLEAN, accepted: BOOLEAN]

Idle == [pc |-> "idle", op |-> "none", ver |-> 0, deadline |-> 0,
         afterTomb |-> FALSE, afterWindow |-> FALSE, accepted |-> FALSE]

TypeOK ==
    /\ now \in Nat
    /\ row \in [status: {"active", "revoked"}, ver: Nat, at: Nat]
    /\ cache \in [status: Status, ver: Nat, exp: Nat]
    /\ lock \in Proc \cup {NoProc}
    /\ tombed \in BOOLEAN
    /\ proc \in [Proc -> Request]

\* A session that was just created; its creator may not have filled the cache.
Init ==
    /\ now = 0
    /\ row = [status |-> "active", ver |-> 1, at |-> 0]
    /\ cache = [status |-> "none", ver |-> 0, exp |-> 0]
    /\ lock = NoProc
    /\ tombed = FALSE
    /\ proc = [p \in Proc |-> Idle]

\* Redis drops what has expired.
Live == cache.status # "none" /\ now < cache.exp
CachedStatus == IF Live THEN cache.status ELSE "none"
CachedVersion == IF Live THEN cache.ver ELSE 0

Lesser(a, b) == IF a < b THEN a ELSE b

RowActive == row.status = "active" /\ now < Expiry

\* The request goes on, or ends: of its outcome ("accept", "reject", "error" or
\* "none" for a revocation) only the acceptance is remembered.
Goto(p, pc) == proc' = [proc EXCEPT ![p].pc = pc]

Outcome(r, out) ==
    IF out = "accept"
    THEN [pc |-> "idle", op |-> "none", ver |-> 0, deadline |-> 0,
          afterTomb |-> r.afterTomb, afterWindow |-> r.afterWindow, accepted |-> TRUE]
    ELSE Idle

End(p, out) == proc' = [proc EXCEPT ![p] = Outcome(@, out)]

\* A request that begins now; its cache deadline is one window away.
Started(pc, op, ver) ==
    [pc |-> pc, op |-> op, ver |-> ver, deadline |-> now + TTL,
     afterTomb |-> tombed,
     afterWindow |-> row.status = "revoked" /\ row.at + TTL <= now,
     accepted |-> FALSE]

Begin(p, pc, op, ver) == proc' = [proc EXCEPT ![p] = Started(pc, op, ver)]

-----------------------------------------------------------------------------
(* writeUserSessionCache.                                                  *)

\* Seeded bug: only versions are compared.
RefusedByVersion(status, ver) == CachedVersion > ver

\* The Lua script refuses an active write over a deny entry and any write under a
\* newer version.
Refused(status, ver) ==
    \/ status = "active" /\ CachedStatus \in {"revoking", "revoked"}
    \/ CachedVersion > ver

\* Seeded bug: the window of an active entry starts when it is written.
ActiveFromNow(ver, deadline) ==
    [status |-> "active", ver |-> ver, exp |-> Lesser(now + TTL, Expiry)]

ActiveEntry(ver, deadline) ==
    [status |-> "active", ver |-> ver, exp |-> Lesser(deadline, Expiry)]

\* Seeded bug: a status that nothing else knows.
DenyUnknown(status, ver) ==
    [status |-> "denied", ver |-> ver, exp |-> now + TTL]

DenyEntry(status, ver) ==
    [status |-> status, ver |-> ver,
     exp |-> now + (IF now < Expiry THEN Lesser(TTL, Expiry - now) ELSE 1)]

\* What a request makes of a Redis error after it read the session.
OnRedisError(op) == IF op = "advance" THEN "error" ELSE "accept"

\* The write of an active snapshot: stale, refused, written or failed.
Fill(p) ==
    /\ proc[p].pc = "fill"
    /\ \/ /\ now >= proc[p].deadline
          /\ Goto(p, "confirm") /\ UNCHANGED cache
       \/ /\ now < proc[p].deadline /\ now >= Expiry
          /\ End(p, "reject") /\ UNCHANGED cache
       \/ /\ now < proc[p].deadline /\ now < Expiry
          /\ IF Refused("active", proc[p].ver)
             THEN End(p, "reject") /\ UNCHANGED cache
             ELSE Goto(p, "filled") /\ cache' = ActiveEntry(proc[p].ver, proc[p].deadline)
       \/ /\ "redis" \in Faults
          /\ now < proc[p].deadline /\ now < Expiry
          /\ End(p, OnRedisError(proc[p].op))
          /\ \/ UNCHANGED cache
             \/ ~Refused("active", proc[p].ver)
                /\ cache' = ActiveEntry(proc[p].ver, proc[p].deadline)
    /\ UNCHANGED <<now, row, lock, tombed>>

\* After the script: the write may have taken longer than the window.
Filled(p) ==
    /\ proc[p].pc = "filled"
    /\ CASE now >= proc[p].deadline -> Goto(p, "confirm")
         [] now < proc[p].deadline /\ now >= Expiry -> End(p, "reject")
         [] OTHER -> End(p, "accept")
    /\ UNCHANGED <<now, row, cache, lock, tombed>>

\* confirmUserSessionActiveSnapshot
Confirm(p) ==
    /\ proc[p].pc = "confirm"
    /\ End(p, IF RowActive /\ row.ver = proc[p].ver THEN "accept" ELSE "reject")
    /\ UNCHANGED <<now, row, cache, lock, tombed>>

-----------------------------------------------------------------------------
(* GetUserSessionCached and RotateUserSessionRefresh.                      *)

\* getUserSessionCache: a deny entry never falls back to the database.
Validate(p) ==
    /\ proc[p].pc = "idle"
    /\ \/ /\ CachedStatus # "none"
          /\ proc' = [proc EXCEPT ![p] = Outcome(Started("read", "validate", 0),
                IF CachedStatus = "active" /\ now < Expiry THEN "accept" ELSE "reject")]
       \/ /\ CachedStatus = "none" \/ "redis" \in Faults
          /\ Begin(p, "read", "validate", 0)
    /\ UNCHANGED <<now, row, cache, lock, tombed>>

\* GetUserSessionBySID, after the deadline was taken
Read(p) ==
    /\ proc[p].pc = "read"
    /\ proc' = IF RowActive
               THEN [proc EXCEPT ![p].pc = "fill", ![p].ver = row.ver]
               ELSE [proc EXCEPT ![p].pc = "deny", ![p].ver = row.ver]
    /\ UNCHANGED <<now, row, cache, lock, tombed>>

\* The tombstone of a session that was found inactive; a failure is ignored.
Deny(p) ==
    /\ proc[p].pc = "deny"
    /\ End(p, "reject")
    /\ \/ /\ ~Refused("revoked", proc[p].ver)
          /\ cache' = DenyEntry("revoked", proc[p].ver)
       \/ /\ Refused("revoked", proc[p].ver) \/ "redis" \in Faults
          /\ UNCHANGED cache
    /\ UNCHANGED <<now, row, lock, tombed>>

\* RotateUserSessionRefresh: the row is read ...
Rotate(p) ==
    /\ proc[p].pc = "idle" /\ RowActive
    /\ Begin(p, "rotate", "rotate", row.ver)
    /\ UNCHANGED <<now, row, cache, lock, tombed>>

\* ... and updated by a compare-and-swap on the active row. Like the transactions
\* below it compares ExpiresAt with the time at which the request began.
RotateCas(p) ==
    /\ proc[p].pc = "rotate" /\ lock = NoProc
    /\ IF row.status = "active" THEN Goto(p, "fill") ELSE End(p, "reject")
    /\ UNCHANGED <<now, row, cache, lock, tombed>>

-----------------------------------------------------------------------------
(* RevokeUserSession and RevokeUserSessionByRefreshHash.                   *)

RevokedRow == [row EXCEPT !.status = "revoked", !.at = now]

\* The candidate is read; an inactive one is not revoked again.
Revoke(p) ==
    /\ proc[p].pc = "idle" /\ RowActive
    /\ Begin(p, "fence", "none", row.ver)
    /\ UNCHANGED <<now, row, cache, lock, tombed>>

\* The deny fence comes first; without it nothing is revoked.
Fence(p) ==
    /\ proc[p].pc = "fence"
    /\ \/ /\ ~Refused("revoking", proc[p].ver)
          /\ Goto(p, "tx") /\ cache' = DenyEntry("revoking", proc[p].ver)
       \/ /\ Refused("revoking", proc[p].ver)
          /\ End(p, "error") /\ UNCHANGED cache
       \/ /\ "redis" \in Faults
          /\ End(p, "error")
          /\ \/ UNCHANGED cache
             \/ ~Refused("revoking", proc[p].ver)
                /\ cache' = DenyEntry("revoking", proc[p].ver)
    /\ UNCHANGED <<now, row, lock, tombed>>

RevokeTx(p) ==
    /\ proc[p].pc = "tx" /\ lock = NoProc
    /\ IF row.status = "active"
       THEN row' = RevokedRow /\ Goto(p, "tomb")
       ELSE UNCHANGED row /\ End(p, "reject")
    /\ UNCHANGED <<now, cache, lock, tombed>>

\* The tombstone; a failure is only logged.
Tomb(p) ==
    /\ proc[p].pc = "tomb"
    /\ End(p, "none")
    /\ \/ /\ ~Refused("revoked", proc[p].ver)
          /\ cache' = DenyEntry("revoked", proc[p].ver) /\ tombed' = TRUE
       \/ /\ Refused("revoked", proc[p].ver) \/ "redis" \in Faults
          /\ UNCHANGED <<cache, tombed>>
    /\ UNCHANGED <<now, row, lock>>

\* By refresh secret: the fence is published while the row is locked ...
RevokeByHash(p) ==
    /\ proc[p].pc = "idle" /\ RowActive /\ lock = NoProc
    /\ \/ /\ ~Refused("revoking", row.ver)
          /\ cache' = DenyEntry("revoking", row.ver)
          /\ Begin(p, "hash", "none", row.ver) /\ lock' = p
       \/ /\ Refused("revoking", row.ver) \/ "redis" \in Faults
          /\ End(p, "error") /\ UNCHANGED <<cache, lock>>
    /\ UNCHANGED <<now, row, tombed>>

\* ... and the transaction commits.
HashTx(p) ==
    /\ proc[p].pc = "hash"
    /\ row' = RevokedRow /\ lock' = NoProc
    /\ Goto(p, "tomb")
    /\ UNCHANGED <<now, cache, tombed>>

-----------------------------------------------------------------------------
(* AdvanceUserSessionAuthVersion, crashes and the clock.                   *)

\* The deadline is taken, then the row is locked and read.
Advance(p) ==
    /\ proc[p].pc = "idle" /\ RowActive /\ row.ver < MaxVersion
    /\ Begin(p, "advance", "advance", row.ver)
    /\ UNCHANGED <<now, row, cache, lock, tombed>>

AdvanceTx(p) ==
    /\ proc[p].pc = "advance" /\ lock = NoProc
    /\ IF row.status = "active" /\ row.ver = proc[p].ver
       THEN /\ row' = [row EXCEPT !.ver = @ + 1]
            /\ proc' = [proc EXCEPT ![p].pc = "fill", ![p].ver = @ + 1]
       ELSE UNCHANGED row /\ End(p, "error")
    /\ UNCHANGED <<now, cache, lock, tombed>>

\* The process of a request dies; its transaction is rolled back.
Crash(p) ==
    /\ "crash" \in Faults /\ proc[p].pc # "idle"
    /\ proc' = [proc EXCEPT ![p] = Idle]
    /\ lock' = IF lock = p THEN NoProc ELSE lock
    /\ UNCHANGED <<now, row, cache, tombed>>

Tick ==
    /\ now < MaxTime
    /\ now' = now + 1
    /\ UNCHANGED <<row, cache, lock, tombed, proc>>

Step(p) ==
    \/ Validate(p) \/ Read(p) \/ Deny(p) \/ Fill(p) \/ Filled(p) \/ Confirm(p)
    \/ Rotate(p) \/ RotateCas(p)
    \/ Revoke(p) \/ Fence(p) \/ RevokeTx(p) \/ Tomb(p)
    \/ RevokeByHash(p) \/ HashTx(p)
    \/ Advance(p) \/ AdvanceTx(p)
    \/ Crash(p)

Next == Tick \/ \E p \in Proc : Step(p)

Spec == Init /\ [][Next]_vars

-----------------------------------------------------------------------------
(* Properties.                                                             *)

\* A validation that begins after the tombstone of a revocation was written never
\* accepts the session, whichever stale snapshots are still on their way to the
\* cache: "a stale active snapshot cannot outlive a short deny tombstone and
\* reactivate a revoked Session" (writeUserSessionCache).
TombstoneHolds == \A p \in Proc : proc[p].accepted => ~proc[p].afterTomb

\* Whatever Redis calls fail and wherever a request dies, a revoked session is
\* accepted for at most one cache window after its row was revoked.
ExposureIsBounded == \A p \in Proc : proc[p].accepted => ~proc[p].afterWindow

=============================================================================
