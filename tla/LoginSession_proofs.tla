------------------------ MODULE LoginSession_proofs ------------------------
(***************************************************************************)
(* Theorems about LoginSession for any number of requests, any cache       *)
(* window and expiry of the session, and under any faults.                 *)
(***************************************************************************)
EXTENDS LoginSession, TLAPS

USE NoProcAssumption, TTLAssumption, ExpiryAssumption

-----------------------------------------------------------------------------
(* The inductive invariant.                                                *)

Revoked == row.status = "revoked"

StateOK ==
  /\ now \in Nat
  /\ row \in [status: {"active", "revoked"}, ver: Nat, at: Nat]
  /\ cache \in [status: Status, ver: Nat, exp: Nat]
  /\ lock \in Proc \cup {NoProc}
  /\ tombed \in BOOLEAN

\* The clock is past a revocation, and the tombstone follows it.
ClockOK ==
  /\ Revoked => row.at <= now
  /\ tombed => Revoked

\* No active entry lives for more than a window, nor longer than a window after
\* the revocation.
EntryOK ==
  cache.status = "active" =>
    /\ cache.exp <= now + TTL
    /\ Revoked => cache.exp <= row.at + TTL

\* A tombstone is only ever replaced by a deny entry, and lives until the last
\* snapshot from before the revocation has become too old to be written.
TombOK ==
  tombed =>
    /\ cache.status \in {"revoking", "revoked"}
    /\ cache.exp >= row.at + TTL \/ cache.exp >= Expiry

\* What request p may be in the middle of.  One that holds the row lock finds
\* the session active; one that began after the revocation has no snapshot of
\* an active row and has not been accepted; no deadline is more than a window
\* away, and none of a snapshot reaches beyond the window of the revocation.
RequestOK(p, r) ==
  /\ r \in Request
  /\ r.pc = "hash" => lock = p /\ ~Revoked
  /\ r.pc = "tomb" => Revoked
  /\ r.afterTomb => Revoked
  /\ r.afterWindow => Revoked
  /\ r.pc \in {"rotate", "advance", "fill", "filled", "confirm"} =>
       r.afterTomb = FALSE /\ r.afterWindow = FALSE
  /\ r.deadline <= now + TTL
  /\ r.pc \in {"fill", "filled"} /\ Revoked => r.deadline <= row.at + TTL
  /\ r.accepted => r.afterTomb = FALSE /\ r.afterWindow = FALSE

RequestsOK ==
  /\ DOMAIN proc = Proc /\ proc = [p \in Proc |-> proc[p]]
  /\ \A p \in Proc : RequestOK(p, proc[p])

IInv == StateOK /\ ClockOK /\ EntryOK /\ TombOK /\ RequestsOK

-----------------------------------------------------------------------------
(* What a step does to the request that takes it.                          *)

LEMMA IdleOK ==
  ASSUME NEW p \in Proc, StateOK
  PROVE  RequestOK(p, Idle)
  BY DEF RequestOK, Idle, Request, Pc, StateOK

\* A request that ends.
LEMMA EndOK ==
  ASSUME NEW p \in Proc, NEW r, RequestOK(p, r), StateOK, NEW out,
         out = "accept" => r.afterTomb = FALSE /\ r.afterWindow = FALSE
  PROVE  RequestOK(p, Outcome(r, out))
<1>1. CASE out = "accept"
  <2>1. Outcome(r, out) =
          [pc |-> "idle", op |-> "none", ver |-> 0, deadline |-> 0,
           afterTomb |-> FALSE, afterWindow |-> FALSE, accepted |-> TRUE]
    BY <1>1 DEF Outcome
  <2> QED
    BY <2>1 DEF RequestOK, Request, Pc, StateOK
<1>2. CASE out # "accept"
  BY <1>2, IdleOK DEF Outcome
<1> QED
  BY <1>1, <1>2

\* A request that begins.
LEMMA StartedOK ==
  ASSUME NEW p \in Proc, StateOK, ClockOK, NEW pc \in Pc, NEW op, NEW ver \in Nat,
         op \in {"none", "validate", "rotate", "advance"},
         pc \notin {"hash", "tomb", "fill", "filled", "confirm"},
         pc \in {"rotate", "advance"} => ~Revoked
  PROVE  RequestOK(p, Started(pc, op, ver))
  BY DEF RequestOK, Started, Request, Pc, StateOK, ClockOK, Revoked

\* A step that changes nothing but its request.
LEMMA OnlyRequest ==
  ASSUME IInv, NEW p \in Proc, NEW r, RequestOK(p, r), proc' = [proc EXCEPT ![p] = r],
         UNCHANGED <<now, row, cache, lock, tombed>>
  PROVE  IInv'
  BY DEF IInv, StateOK, ClockOK, EntryOK, TombOK, RequestsOK, RequestOK, Revoked

\* The same, with the cache entry.
LEMMA RequestAndCache ==
  ASSUME IInv, NEW p \in Proc, NEW r, RequestOK(p, r), proc' = [proc EXCEPT ![p] = r],
         cache' \in [status: Status, ver: Nat, exp: Nat], EntryOK', TombOK',
         UNCHANGED <<now, row, lock, tombed>>
  PROVE  IInv'
  BY DEF IInv, StateOK, ClockOK, RequestsOK, RequestOK, Revoked

-----------------------------------------------------------------------------
(* What a step does to the cache entry.                                    *)

LEMMA DenyWritten ==
  ASSUME IInv, NEW s \in {"revoking", "revoked"}, NEW v \in Nat, cache' = DenyEntry(s, v),
         UNCHANGED <<now, row>>
  PROVE  /\ cache' \in [status: Status, ver: Nat, exp: Nat]
         /\ cache'.status = s
         /\ EntryOK'
         /\ Revoked => cache'.exp >= row.at + TTL \/ cache'.exp >= Expiry
  BY DEF IInv, StateOK, ClockOK, EntryOK, DenyEntry, Lesser, Status, Revoked

LEMMA DenyKeepsTomb ==
  ASSUME IInv, NEW s \in {"revoking", "revoked"}, NEW v \in Nat, cache' = DenyEntry(s, v),
         UNCHANGED <<now, row, tombed>>
  PROVE  TombOK'
  BY DenyWritten DEF IInv, ClockOK, TombOK, Revoked

LEMMA ActiveWritten ==
  ASSUME IInv, NEW p \in Proc, proc[p].pc = "fill",
         now < proc[p].deadline, now < Expiry, ~Refused("active", proc[p].ver),
         cache' = ActiveEntry(proc[p].ver, proc[p].deadline),
         UNCHANGED <<now, row, tombed>>
  PROVE  cache' \in [status: Status, ver: Nat, exp: Nat] /\ EntryOK' /\ TombOK'
<1>1. RequestOK(p, proc[p])
  BY DEF IInv, RequestsOK
<1>2. cache' \in [status: Status, ver: Nat, exp: Nat] /\ EntryOK'
  BY <1>1 DEF IInv, StateOK, EntryOK, RequestOK, Request, ActiveEntry, Lesser, Status, Revoked
<1>3. ~tombed
  BY <1>1 DEF IInv, StateOK, ClockOK, TombOK, RequestOK, Request, Refused, CachedStatus, Live,
              Revoked
<1> QED
  BY <1>2, <1>3 DEF TombOK

-----------------------------------------------------------------------------
(* Each action preserves the invariant.                                    *)

LEMMA ValidateStep ==
  ASSUME IInv, NEW p \in Proc, Validate(p)
  PROVE  IInv'
<1> DEFINE out == IF CachedStatus = "active" /\ now < Expiry THEN "accept" ELSE "reject"
           start == Started("read", "validate", 0)
<1>1. RequestOK(p, start)
  BY StartedOK DEF IInv, Pc
<1>2. out = "accept" => start.afterTomb = FALSE /\ start.afterWindow = FALSE
  BY DEF IInv, StateOK, ClockOK, EntryOK, TombOK, Started, CachedStatus, Live, Revoked
<1>3. RequestOK(p, Outcome(start, out))
  BY <1>1, <1>2, EndOK DEF IInv
<1> QED
  BY <1>1, <1>3, OnlyRequest DEF Validate, Begin

LEMMA ReadStep ==
  ASSUME IInv, NEW p \in Proc, Read(p)
  PROVE  IInv'
<1>1. RequestOK(p, proc[p])
  BY DEF IInv, RequestsOK
<1>2. CASE RowActive
  <2> DEFINE r == [proc[p] EXCEPT !.pc = "fill", !.ver = row.ver]
  <2>1. RequestOK(p, r)
    BY <1>1, <1>2 DEF IInv, StateOK, RequestOK, RowActive, Request, Pc, Revoked
  <2>2. proc' = [proc EXCEPT ![p] = r]
    BY <1>2 DEF Read, IInv, RequestsOK
  <2> QED
    BY <2>1, <2>2, OnlyRequest DEF Read
<1>3. CASE ~RowActive
  <2> DEFINE r == [proc[p] EXCEPT !.pc = "deny", !.ver = row.ver]
  <2>1. RequestOK(p, r)
    BY <1>1 DEF IInv, StateOK, RequestOK, Request, Pc
  <2>2. proc' = [proc EXCEPT ![p] = r]
    BY <1>3 DEF Read, IInv, RequestsOK
  <2> QED
    BY <2>1, <2>2, OnlyRequest DEF Read
<1> QED
  BY <1>2, <1>3

LEMMA DenyStep ==
  ASSUME IInv, NEW p \in Proc, Deny(p)
  PROVE  IInv'
<1>1. RequestOK(p, proc[p]) /\ proc[p].ver \in Nat
  BY DEF IInv, RequestsOK, RequestOK, Request
<1>2. RequestOK(p, Outcome(proc[p], "reject"))
  BY <1>1, EndOK DEF IInv
<1>3. CASE cache' = DenyEntry("revoked", proc[p].ver)
  BY <1>1, <1>2, <1>3, DenyWritten, DenyKeepsTomb, RequestAndCache DEF Deny, End
<1>4. CASE UNCHANGED cache
  BY <1>2, <1>4, OnlyRequest DEF Deny, End
<1> QED
  BY <1>3, <1>4 DEF Deny

LEMMA FillStep ==
  ASSUME IInv, NEW p \in Proc, Fill(p)
  PROVE  IInv'
<1> DEFINE confirm == [proc[p] EXCEPT !.pc = "confirm"]
           filled == [proc[p] EXCEPT !.pc = "filled"]
           written == cache' = ActiveEntry(proc[p].ver, proc[p].deadline)
<1>1. RequestOK(p, proc[p]) /\ proc[p].pc = "fill"
  BY DEF IInv, RequestsOK, Fill
<1>2. RequestOK(p, confirm) /\ RequestOK(p, filled)
  BY <1>1 DEF RequestOK, Request, Pc
<1>3. ASSUME NEW out PROVE RequestOK(p, Outcome(proc[p], out))
  BY <1>1, EndOK DEF IInv, RequestOK
<1>4. /\ Goto(p, "confirm") => proc' = [proc EXCEPT ![p] = confirm]
      /\ Goto(p, "filled") => proc' = [proc EXCEPT ![p] = filled]
  BY DEF Goto, IInv, RequestsOK
<1>5. CASE UNCHANGED cache
  BY <1>2, <1>3, <1>4, <1>5, OnlyRequest DEF Fill, End
<1>6. CASE written /\ ~UNCHANGED cache
  <2>1. cache' \in [status: Status, ver: Nat, exp: Nat] /\ EntryOK' /\ TombOK'
    BY <1>1, <1>6, ActiveWritten DEF Fill
  <2> QED
    BY <1>2, <1>3, <1>4, <1>6, <2>1, RequestAndCache DEF Fill, End
<1> QED
  BY <1>5, <1>6 DEF Fill

LEMMA FilledStep ==
  ASSUME IInv, NEW p \in Proc, Filled(p)
  PROVE  IInv'
<1> DEFINE confirm == [proc[p] EXCEPT !.pc = "confirm"]
<1>1. RequestOK(p, proc[p]) /\ proc[p].pc = "filled"
  BY DEF IInv, RequestsOK, Filled
<1>2. RequestOK(p, confirm)
  BY <1>1 DEF RequestOK, Request, Pc
<1>3. RequestOK(p, Outcome(proc[p], "accept")) /\ RequestOK(p, Outcome(proc[p], "reject"))
  BY <1>1, EndOK DEF IInv, RequestOK
<1>4. Goto(p, "confirm") => proc' = [proc EXCEPT ![p] = confirm]
  BY DEF Goto, IInv, RequestsOK
<1> QED
  BY <1>2, <1>3, <1>4, OnlyRequest DEF Filled, End

LEMMA ConfirmStep ==
  ASSUME IInv, NEW p \in Proc, Confirm(p)
  PROVE  IInv'
<1>1. RequestOK(p, proc[p]) /\ proc[p].pc = "confirm"
  BY DEF IInv, RequestsOK, Confirm
<1>2. ASSUME NEW out PROVE RequestOK(p, Outcome(proc[p], out))
  BY <1>1, EndOK DEF IInv, RequestOK
<1> QED
  BY <1>2, OnlyRequest DEF Confirm, End

LEMMA BeginStep ==
  ASSUME IInv, NEW p \in Proc, Rotate(p) \/ Revoke(p) \/ Advance(p)
  PROVE  IInv'
<1>1. ~Revoked /\ row.ver \in Nat
  BY DEF IInv, StateOK, Rotate, Revoke, Advance, RowActive, Revoked
<1>2. /\ RequestOK(p, Started("rotate", "rotate", row.ver))
      /\ RequestOK(p, Started("fence", "none", row.ver))
      /\ RequestOK(p, Started("advance", "advance", row.ver))
  BY <1>1, StartedOK DEF IInv, Pc
<1> QED
  BY <1>2, OnlyRequest DEF Rotate, Revoke, Advance, Begin

LEMMA RotateCasStep ==
  ASSUME IInv, NEW p \in Proc, RotateCas(p)
  PROVE  IInv'
<1> DEFINE fill == [proc[p] EXCEPT !.pc = "fill"]
<1>1. RequestOK(p, proc[p]) /\ proc[p].pc = "rotate"
  BY DEF IInv, RequestsOK, RotateCas
<1>2. CASE row.status = "active"
  <2>1. RequestOK(p, fill)
    BY <1>1, <1>2 DEF RequestOK, Request, Pc, Revoked
  <2>2. proc' = [proc EXCEPT ![p] = fill]
    BY <1>2 DEF RotateCas, Goto, IInv, RequestsOK
  <2> QED
    BY <2>1, <2>2, OnlyRequest DEF RotateCas
<1>3. CASE ~(row.status = "active")
  <2>1. RequestOK(p, Outcome(proc[p], "reject"))
    BY <1>1, EndOK DEF IInv
  <2> QED
    BY <1>3, <2>1, OnlyRequest DEF RotateCas, End
<1> QED
  BY <1>2, <1>3

LEMMA FenceStep ==
  ASSUME IInv, NEW p \in Proc, Fence(p)
  PROVE  IInv'
<1> DEFINE tx == [proc[p] EXCEPT !.pc = "tx"]
<1>1. RequestOK(p, proc[p]) /\ proc[p].ver \in Nat
  BY DEF IInv, RequestsOK, RequestOK, Request
<1>2. RequestOK(p, tx)
  BY <1>1 DEF RequestOK, Request, Pc
<1>3. RequestOK(p, Outcome(proc[p], "error"))
  BY <1>1, EndOK DEF IInv
<1>4. Goto(p, "tx") => proc' = [proc EXCEPT ![p] = tx]
  BY DEF Goto, IInv, RequestsOK
<1>5. CASE cache' = DenyEntry("revoking", proc[p].ver)
  BY <1>1, <1>2, <1>3, <1>4, <1>5, DenyWritten, DenyKeepsTomb, RequestAndCache DEF Fence, End
<1>6. CASE UNCHANGED cache
  BY <1>2, <1>3, <1>4, <1>6, OnlyRequest DEF Fence, End
<1> QED
  BY <1>5, <1>6 DEF Fence

\* The row is revoked, at a moment that no deadline and no entry outlives.
LEMMA RowRevoked ==
  ASSUME IInv, ~Revoked, NEW p \in Proc, proc[p].pc \in {"tx", "hash"},
         row' = RevokedRow, Goto(p, "tomb"), UNCHANGED <<now, cache, tombed>>,
         lock' = lock \/ lock' = NoProc,
         \A q \in Proc : q # p => proc[q].pc # "hash"
  PROVE  IInv'
<1>1. /\ row' \in [status: {"active", "revoked"}, ver: Nat, at: Nat]
      /\ Revoked' /\ row'.at = now
  BY DEF IInv, StateOK, RevokedRow, Revoked
<1>2. StateOK' /\ ClockOK' /\ EntryOK' /\ TombOK'
  BY <1>1 DEF IInv, StateOK, ClockOK, EntryOK, TombOK
<1>3. ASSUME NEW q \in Proc PROVE RequestOK(q, proc[q])'
  <2>1. RequestOK(q, proc[q])
    BY DEF IInv, RequestsOK
  <2>2. CASE q = p
    <3>1. proc'[q] = [proc[q] EXCEPT !.pc = "tomb"]
      BY <2>2 DEF Goto, IInv, RequestsOK
    <3> QED
      BY <1>1, <2>1, <3>1 DEF RequestOK, Request, Pc
  <2>3. CASE q # p
    <3>1. proc'[q] = proc[q]
      BY <2>3 DEF Goto, IInv, RequestsOK
    <3> QED
      BY <1>1, <2>1, <2>3, <3>1 DEF RequestOK, Request, IInv, StateOK
  <2> QED
    BY <2>2, <2>3
<1>4. DOMAIN proc' = Proc /\ proc' = [q \in Proc |-> proc'[q]]
  BY DEF Goto, IInv, RequestsOK
<1> QED
  BY <1>2, <1>3, <1>4 DEF IInv, RequestsOK

LEMMA RevokeTxStep ==
  ASSUME IInv, NEW p \in Proc, RevokeTx(p)
  PROVE  IInv'
<1>1. CASE row.status = "active"
  <2>1. \A q \in Proc : proc[q].pc # "hash"
    BY DEF RevokeTx, IInv, RequestsOK, RequestOK
  <2> QED
    BY <1>1, <2>1, RowRevoked DEF RevokeTx, Revoked
<1>2. CASE ~(row.status = "active")
  <2>1. RequestOK(p, Outcome(proc[p], "reject"))
    BY EndOK DEF IInv, RequestsOK
  <2> QED
    BY <1>2, <2>1, OnlyRequest DEF RevokeTx, End
<1> QED
  BY <1>1, <1>2

LEMMA HashTxStep ==
  ASSUME IInv, NEW p \in Proc, HashTx(p)
  PROVE  IInv'
<1>1. /\ ~Revoked
      /\ \A q \in Proc : q # p => proc[q].pc # "hash"
  BY DEF HashTx, IInv, RequestsOK, RequestOK
<1> QED
  BY <1>1, RowRevoked DEF HashTx

LEMMA TombStep ==
  ASSUME IInv, NEW p \in Proc, Tomb(p)
  PROVE  IInv'
<1>1. RequestOK(p, proc[p]) /\ proc[p].ver \in Nat /\ Revoked
  BY DEF IInv, RequestsOK, RequestOK, Request, Tomb
<1>2. RequestOK(p, Outcome(proc[p], "none"))
  BY <1>1, EndOK DEF IInv
<1>3. CASE cache' = DenyEntry("revoked", proc[p].ver) /\ tombed' = TRUE
  <2>1. /\ cache' \in [status: Status, ver: Nat, exp: Nat]
        /\ EntryOK'
        /\ TombOK'
    BY <1>1, <1>3, DenyWritten DEF Tomb, TombOK
  <2>2. RequestsOK'
    BY <1>2 DEF Tomb, End, IInv, RequestsOK, RequestOK, Revoked
  <2> QED
    BY <1>1, <1>3, <2>1, <2>2 DEF Tomb, IInv, StateOK, ClockOK, Revoked
<1>4. CASE UNCHANGED <<cache, tombed>>
  BY <1>2, <1>4, OnlyRequest DEF Tomb, End
<1> QED
  BY <1>3, <1>4 DEF Tomb

LEMMA RevokeByHashStep ==
  ASSUME IInv, NEW p \in Proc, RevokeByHash(p)
  PROVE  IInv'
<1>1. ~Revoked /\ row.ver \in Nat
  BY DEF IInv, StateOK, RevokeByHash, RowActive, Revoked
<1>2. CASE UNCHANGED <<cache, lock>> /\ End(p, "error")
  <2>1. RequestOK(p, Outcome(proc[p], "error"))
    BY EndOK DEF IInv, RequestsOK
  <2> QED
    BY <1>2, <2>1, OnlyRequest DEF RevokeByHash, End
<1>3. CASE cache' = DenyEntry("revoking", row.ver) /\ Begin(p, "hash", "none", row.ver) /\ lock' = p
  <2> DEFINE start == Started("hash", "none", row.ver)
  <2>1. cache' \in [status: Status, ver: Nat, exp: Nat] /\ EntryOK' /\ TombOK'
    BY <1>1, <1>3, DenyWritten, DenyKeepsTomb DEF RevokeByHash
  <2>2. RequestOK(p, start)'
    BY <1>1, <1>3 DEF RevokeByHash, RequestOK, Started, Request, Pc, IInv, StateOK, ClockOK, Revoked
  <2>3. start' = start
    BY DEF RevokeByHash, Started
  <2>4. \A q \in Proc : q # p => proc'[q] = proc[q] /\ proc[q].pc # "hash"
    BY <1>3 DEF RevokeByHash, Begin, IInv, RequestsOK, RequestOK
  <2>5. proc' = [proc EXCEPT ![p] = start]
    BY <1>3 DEF Begin
  <2>6. RequestsOK'
    BY <2>2, <2>3, <2>4, <2>5 DEF RevokeByHash, IInv, RequestsOK, RequestOK, Revoked
  <2> QED
    BY <1>3, <2>1, <2>6 DEF RevokeByHash, IInv, StateOK, ClockOK, Revoked
<1> QED
  BY <1>2, <1>3 DEF RevokeByHash

LEMMA AdvanceTxStep ==
  ASSUME IInv, NEW p \in Proc, AdvanceTx(p)
  PROVE  IInv'
<1>1. RequestOK(p, proc[p]) /\ proc[p].pc = "advance"
  BY DEF IInv, RequestsOK, AdvanceTx
<1>2. CASE row.status = "active" /\ row.ver = proc[p].ver
  <2>1. /\ row' \in [status: {"active", "revoked"}, ver: Nat, at: Nat]
        /\ ~Revoked /\ ~Revoked' /\ row'.at = row.at
    BY <1>2 DEF AdvanceTx, IInv, StateOK, Revoked
  <2>2. /\ proc'[p] = [proc[p] EXCEPT !.pc = "fill", !.ver = @ + 1]
        /\ DOMAIN proc' = Proc /\ proc' = [q \in Proc |-> proc'[q]]
        /\ \A q \in Proc : q # p => proc'[q] = proc[q]
    BY <1>2 DEF AdvanceTx, IInv, RequestsOK
  <2>3. RequestOK(p, proc[p])'
    <3> DEFINE v == proc[p].ver + 1
               r == [proc[p] EXCEPT !.pc = "fill", !.ver = v]
    <3>0. v \in Nat /\ proc[p] \in Request
      BY <1>1 DEF RequestOK, Request
    <3> HIDE DEF v
    <3>1. /\ r \in Request
          /\ r.pc = "fill" /\ r.deadline = proc[p].deadline /\ r.accepted = proc[p].accepted
          /\ r.afterTomb = proc[p].afterTomb /\ r.afterWindow = proc[p].afterWindow
      BY <3>0 DEF Request, Pc
    <3>2. RequestOK(p, r)
      BY <1>1, <2>1, <3>1 DEF RequestOK
    <3> QED
      BY <2>1, <2>2, <3>2 DEF AdvanceTx, RequestOK, v
  <2>4. \A q \in Proc : q # p => RequestOK(q, proc[q])'
    BY <2>1, <2>2 DEF AdvanceTx, IInv, RequestsOK, RequestOK
  <2> QED
    BY <2>1, <2>2, <2>3, <2>4 DEF AdvanceTx, IInv, StateOK, ClockOK, EntryOK, TombOK, RequestsOK
<1>3. CASE ~(row.status = "active" /\ row.ver = proc[p].ver)
  <2>1. RequestOK(p, Outcome(proc[p], "error"))
    BY <1>1, EndOK DEF IInv
  <2> QED
    BY <1>3, <2>1, OnlyRequest DEF AdvanceTx, End
<1> QED
  BY <1>2, <1>3

LEMMA CrashStep ==
  ASSUME IInv, NEW p \in Proc, Crash(p)
  PROVE  IInv'
<1>1. RequestOK(p, Idle)
  BY IdleOK DEF IInv
<1>2. proc' = [proc EXCEPT ![p] = Idle] /\ proc'[p] = Idle
  BY DEF Crash, IInv, RequestsOK
<1>3. ASSUME NEW q \in Proc PROVE RequestOK(q, proc[q])'
  <2>1. CASE q = p
    BY <1>1, <1>2, <2>1 DEF Crash, RequestOK, Revoked, Idle
  <2>2. CASE q # p
    <3>1. proc'[q] = proc[q] /\ RequestOK(q, proc[q])
      BY <1>2, <2>2 DEF IInv, RequestsOK
    <3> QED
      BY <2>2, <3>1 DEF Crash, RequestOK, Revoked
  <2> QED
    BY <2>1, <2>2
<1>4. RequestsOK'
  BY <1>2, <1>3 DEF IInv, RequestsOK
<1> QED
  BY <1>4 DEF Crash, IInv, StateOK, ClockOK, EntryOK, TombOK, Revoked

LEMMA TickStep ==
  ASSUME IInv, Tick
  PROVE  IInv'
<1>1. RequestsOK'
  BY DEF Tick, IInv, StateOK, RequestsOK, RequestOK, Request, Revoked
<1> QED
  BY <1>1 DEF Tick, IInv, StateOK, ClockOK, EntryOK, TombOK, Revoked

-----------------------------------------------------------------------------

LEMMA InitOK == Init => IInv
<1> SUFFICES ASSUME Init PROVE IInv
  OBVIOUS
<1>1. StateOK /\ ClockOK /\ EntryOK /\ TombOK
  BY DEF Init, StateOK, ClockOK, EntryOK, TombOK, Revoked, Status
<1> QED
  BY <1>1, IdleOK DEF Init, IInv, RequestsOK

LEMMA NextOK == IInv /\ [Next]_vars => IInv'
<1> SUFFICES ASSUME IInv, [Next]_vars PROVE IInv'
  OBVIOUS
<1>1. CASE Tick
  BY <1>1, TickStep
<1>2. ASSUME NEW p \in Proc, Step(p) PROVE IInv'
  BY <1>2, ValidateStep, ReadStep, DenyStep, FillStep, FilledStep, ConfirmStep, BeginStep,
     RotateCasStep, FenceStep, RevokeTxStep, TombStep, RevokeByHashStep, HashTxStep,
     AdvanceTxStep, CrashStep DEF Step
<1>3. CASE UNCHANGED vars
  BY <1>3 DEF vars, IInv, StateOK, ClockOK, EntryOK, TombOK, RequestsOK, RequestOK, Revoked
<1> QED
  BY <1>1, <1>2, <1>3 DEF Next

LEMMA InvariantOK == Spec => []IInv
  BY InitOK, NextOK, PTL DEF Spec

\* The row, the cache entry and the requests keep their types.
THEOREM SessionTypeCorrect == Spec => []TypeOK
<1>1. IInv => TypeOK
  BY DEF IInv, StateOK, RequestsOK, RequestOK, TypeOK
<1> QED
  BY <1>1, InvariantOK, PTL

\* A validation that begins after the tombstone never accepts the session.
THEOREM RevocationHolds == Spec => []TombstoneHolds
<1>1. IInv => TombstoneHolds
  BY DEF IInv, RequestsOK, RequestOK, TombstoneHolds
<1> QED
  BY <1>1, InvariantOK, PTL

\* A revoked session is accepted for at most one cache window.
THEOREM RevocationIsBounded == Spec => []ExposureIsBounded
<1>1. IInv => ExposureIsBounded
  BY DEF IInv, RequestsOK, RequestOK, ExposureIsBounded
<1> QED
  BY <1>1, InvariantOK, PTL
=============================================================================
