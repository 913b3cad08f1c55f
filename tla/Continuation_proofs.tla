------------------------- MODULE Continuation_proofs -------------------------
(***************************************************************************)
(* The prompt of a run is posted at most once, and the rows tell the truth *)
(* about the session, for any number of runs, handlers and disturbances.   *)
(***************************************************************************)
EXTENDS Continuation, FiniteSetTheorems, TLAPS

-----------------------------------------------------------------------------
(* What the updates of the rows do, field by field. *)

\* Only handler h moves, to pc, and it keeps the run it works on.
Moved(h, pc, next) ==
    /\ handler' \in [Handlers -> HandlerRow]
    /\ \A g \in Handlers : g # h => handler'[g] = handler[g]
    /\ handler'[h].pc = pc /\ handler'[h].next = next
    /\ handler'[h].run = handler[h].run /\ handler'[h].started = handler[h].started

Rested(h) ==
    /\ handler' \in [Handlers -> HandlerRow]
    /\ \A g \in Handlers : g # h => handler'[g] = handler[g]
    /\ handler'[h].pc = "idle" /\ ~handler'[h].started

\* Only the row of run r changes.
DeliveryChanged(r, status, owner) ==
    /\ delivery' \in [Runs -> DeliveryRow]
    /\ \A s \in Runs : s # r => delivery'[s] = delivery[s]
    /\ delivery'[r].status = status /\ delivery'[r].owner = owner

InboxChanged(r, status) ==
    /\ inbox' \in [Runs -> InboxRow]
    /\ \A s \in Runs : s # r => inbox'[s] = inbox[s]
    /\ inbox'[r].status = status

\* Rows lose an owner, or stay as they are.
DeliveriesFreed ==
    /\ delivery' \in [Runs -> DeliveryRow]
    /\ \A r \in Runs : /\ delivery'[r].status = delivery[r].status
                       /\ delivery'[r].started = delivery[r].started
                       /\ delivery'[r].owner \in {delivery[r].owner, "none", "lost"}
                       /\ delivery[r].owner = "none" => delivery'[r].owner = "none"

InboxFreed ==
    /\ inbox' \in [Runs -> InboxRow]
    /\ \A r \in Runs : inbox'[r].status = inbox[r].status

\* The row of a handler at rest.
LEMMA IdleRow == Idle \in HandlerRow /\ Idle.pc = "idle" /\ ~Idle.started
BY DEF Idle, HandlerRow, Pc, UnderLock, DeliveryStatus, Outcome

\* A handler goes on to another step.
LEMMA GotoMoves ==
    ASSUME TypeOK, NEW h \in Handlers, NEW pc \in Pc, Goto(h, pc)
    PROVE  Moved(h, pc, handler[h].next)
<1>1. handler[h] \in HandlerRow /\ handler \in [Handlers -> HandlerRow]
    BY DEF TypeOK
<1>. DEFINE y == [handler[h] EXCEPT !.pc = pc]
<1>2. handler' = [handler EXCEPT ![h] = y]
    BY DEF Goto
<1>3. /\ y \in HandlerRow /\ y.pc = pc /\ y.run = handler[h].run
      /\ y.started = handler[h].started /\ y.next = handler[h].next
    BY <1>1 DEF HandlerRow
<1>. HIDE DEF y
<1>. QED  BY <1>1, <1>2, <1>3 DEF Moved

\* process_claimed ends with an outcome.
LEMMA LeaveMoves ==
    ASSUME TypeOK, NEW h \in Handlers, NEW o \in Outcome, Leave(h, o)
    PROVE  Moved(h, "leave", o)
<1>1. handler[h] \in HandlerRow /\ handler \in [Handlers -> HandlerRow] /\ "leave" \in Pc
    BY DEF TypeOK, Pc
<1>. DEFINE y == [handler[h] EXCEPT !.pc = "leave", !.next = o]
<1>2. handler' = [handler EXCEPT ![h] = y]
    BY DEF Leave
<1>3. /\ y \in HandlerRow /\ y.pc = "leave" /\ y.run = handler[h].run
      /\ y.started = handler[h].started /\ y.next = o
    BY <1>1 DEF HandlerRow, Outcome
<1>. HIDE DEF y
<1>. QED  BY <1>1, <1>2, <1>3 DEF Moved

\* A handler decides to defer its delivery.
LEMMA DeferMoves ==
    ASSUME TypeOK, NEW h \in Handlers, NEW s \in {"deferred", "dispatching", "accepted"},
           DeferAs(h, s)
    PROVE  Moved(h, "defer", s)
<1>1. handler[h] \in HandlerRow /\ handler \in [Handlers -> HandlerRow] /\ "defer" \in Pc
    BY DEF TypeOK, Pc
<1>. DEFINE y == [handler[h] EXCEPT !.pc = "defer", !.next = s]
<1>2. handler' = [handler EXCEPT ![h] = y]
    BY DEF DeferAs
<1>3. /\ y \in HandlerRow /\ y.pc = "defer" /\ y.run = handler[h].run
      /\ y.started = handler[h].started /\ y.next = s
    BY <1>1 DEF HandlerRow, Outcome
<1>. HIDE DEF y
<1>. QED  BY <1>1, <1>2, <1>3 DEF Moved

\* A handler is done with its message.
LEMMA IdleRests ==
    ASSUME TypeOK, NEW h \in Handlers, handler' = [handler EXCEPT ![h] = Idle]
    PROVE  Rested(h)
<1>1. handler \in [Handlers -> HandlerRow]
    BY DEF TypeOK
<1>. QED  BY <1>1, IdleRow DEF Rested

\* A row is replaced by another.
LEMMA RowReplaced ==
    ASSUME TypeOK, NEW r \in Runs
    PROVE  /\ \A y \in DeliveryRow : delivery' = [delivery EXCEPT ![r] = y] =>
                DeliveryChanged(r, y.status, y.owner) /\ delivery'[r].started = y.started
           /\ \A y \in InboxRow : inbox' = [inbox EXCEPT ![r] = y] => InboxChanged(r, y.status)
BY DEF TypeOK, DeliveryChanged, InboxChanged

\* Handlers that are gone leave rows that nobody owns, and nothing else changes.
LEMMA ForgottenFrees ==
    ASSUME TypeOK, NEW H \in SUBSET Handlers
    PROVE  /\ delivery' = Forgotten(delivery, H) => DeliveriesFreed
           /\ inbox' = Forgotten(inbox, H) => InboxFreed
<1>1. "none" \notin H
    BY ContinuationAssumption
<1>2. ASSUME delivery' = Forgotten(delivery, H) PROVE DeliveriesFreed
    <2>1. \A r \in Runs : delivery[r] \in DeliveryRow
        BY DEF TypeOK
    <2>2. \A r \in Runs :
            delivery'[r] = IF delivery[r].owner \in H
                           THEN [delivery[r] EXCEPT !.owner = IF delivery[r].lapsed THEN "none" ELSE "lost",
                                                    !.lapsed = FALSE]
                           ELSE delivery[r]
        BY <1>2 DEF Forgotten
    <2>3. ASSUME NEW r \in Runs
          PROVE  /\ delivery'[r] \in DeliveryRow
                 /\ delivery'[r].status = delivery[r].status
                 /\ delivery'[r].started = delivery[r].started
                 /\ delivery'[r].owner \in {delivery[r].owner, "none", "lost"}
                 /\ delivery[r].owner = "none" => delivery'[r].owner = "none"
        <3>1. CASE delivery[r].owner \in H
            <4>. DEFINE o == IF delivery[r].lapsed THEN "none" ELSE "lost"
                        y == [delivery[r] EXCEPT !.owner = o, !.lapsed = FALSE]
            <4>1. delivery'[r] = y
                BY <2>2, <3>1
            <4>2. o \in {"none", "lost"}
                OBVIOUS
            <4>. HIDE DEF o
            <4>3. /\ y \in DeliveryRow /\ y.status = delivery[r].status
                  /\ y.started = delivery[r].started /\ y.owner = o
                BY <2>1, <4>2 DEF DeliveryRow
            <4>. QED  BY <1>1, <3>1, <4>1, <4>2, <4>3
        <3>. QED  BY <2>1, <2>2, <3>1
    <2>4. delivery' \in [Runs -> DeliveryRow]
        BY <1>2, <2>3 DEF Forgotten
    <2>. QED  BY <2>3, <2>4 DEF DeliveriesFreed
<1>3. ASSUME inbox' = Forgotten(inbox, H) PROVE InboxFreed
    <2>1. \A r \in Runs : inbox[r] \in InboxRow
        BY DEF TypeOK
    <2>2. \A r \in Runs :
            inbox'[r] = IF inbox[r].owner \in H
                        THEN [inbox[r] EXCEPT !.owner = IF inbox[r].lapsed THEN "none" ELSE "lost",
                                              !.lapsed = FALSE]
                        ELSE inbox[r]
        BY <1>3 DEF Forgotten
    <2>3. ASSUME NEW r \in Runs
          PROVE  inbox'[r] \in InboxRow /\ inbox'[r].status = inbox[r].status
        <3>1. CASE inbox[r].owner \in H
            <4>. DEFINE o == IF inbox[r].lapsed THEN "none" ELSE "lost"
                        y == [inbox[r] EXCEPT !.owner = o, !.lapsed = FALSE]
            <4>1. inbox'[r] = y
                BY <2>2, <3>1
            <4>2. o \in {"none", "lost"}
                OBVIOUS
            <4>. HIDE DEF o
            <4>3. y \in InboxRow /\ y.status = inbox[r].status
                BY <2>1, <4>2 DEF InboxRow
            <4>. QED  BY <4>1, <4>3
        <3>. QED  BY <2>1, <2>2, <3>1
    <2>4. inbox' \in [Runs -> InboxRow]
        BY <1>3, <2>3 DEF Forgotten
    <2>. QED  BY <2>3, <2>4 DEF InboxFreed
<1>. QED  BY <1>2, <1>3

-----------------------------------------------------------------------------
(* What each step does, field by field, to what the invariant speaks of. *)

\* A handler at work has a run.
LEMMA RunOf ==
    ASSUME TypeOK, NEW h \in Handlers, handler[h].pc # "idle"
    PROVE  handler[h].run \in Runs
BY DEF TypeOK

\* What the verdicts of load_and_claim_delivery rest on.
LEMMA VerdictFacts ==
    ASSUME NEW r \in Runs
    PROVE  /\ ClaimVerdict(r) \in {"dead", "processed", "postpone", "lock"}
           /\ ClaimVerdict(r) = "lock" =>
                r \notin legacy /\ delivery[r].status \notin {"ambiguous", "observed"}
           /\ ClaimVerdict(r) = "processed" =>
                \/ cont[r] \in {"cancelled", "manual_review"}
                \/ delivery[r].status \in {"ambiguous", "observed"}
BY DEF ClaimVerdict

\* load_and_claim_delivery takes a free delivery, or turns to what there is to do.
LEMMA load_and_claim_deliveryEffect ==
    ASSUME TypeOK, NEW h \in Handlers, load_and_claim_delivery(h)
    PROVE  LET r == handler[h].run IN
           /\ handler[h].pc = "claim" /\ r \in Runs
           /\ handler' \in [Handlers -> HandlerRow]
           /\ \A g \in Handlers : g # h => handler'[g] = handler[g]
           /\ handler'[h].pc = ClaimVerdict(r) /\ handler'[h].run = r
           /\ handler'[h].started = delivery[r].started
           /\ IF ClaimVerdict(r) = "lock"
              THEN /\ \E s \in {"dispatching", "accepted", "claimed"} : DeliveryChanged(r, s, h)
                   /\ delivery'[r].started = delivery[r].started
              ELSE delivery' = delivery
           /\ UNCHANGED <<legacy, cont, inbox, lock, inflight, posted, target, turn>>
<1>. DEFINE r == handler[h].run
            v == ClaimVerdict(r)
            y == [handler[h] EXCEPT !.pc = v, !.started = delivery[r].started,
                                    !.prior = delivery[r].status]
            s == IF delivery[r].status \in {"dispatching", "accepted"}
                 THEN delivery[r].status ELSE "claimed"
            d == [delivery[r] EXCEPT !.owner = h, !.lapsed = FALSE, !.status = s]
<1>1. handler[h].pc = "claim" /\ r \in Runs
    BY RunOf DEF load_and_claim_delivery, At
<1>2. handler' = [handler EXCEPT ![h] = y]
    BY DEF load_and_claim_delivery
<1>3. delivery[r] \in DeliveryRow /\ handler[h] \in HandlerRow
    BY <1>1 DEF TypeOK
<1>4. v \in {"dead", "processed", "postpone", "lock"}
    BY <1>1, VerdictFacts
<1>5. s \in {"dispatching", "accepted", "claimed"}
    OBVIOUS
<1>6. v = "lock" => delivery' = [delivery EXCEPT ![r] = d]
    BY DEF load_and_claim_delivery
<1>7. v # "lock" => delivery' = delivery
    BY DEF load_and_claim_delivery
<1>. HIDE DEF v, s
<1>8. y \in HandlerRow /\ y.pc = v /\ y.run = r /\ y.started = delivery[r].started
    BY <1>3, <1>4 DEF HandlerRow, DeliveryRow, Pc
<1>9. d \in DeliveryRow /\ d.status = s /\ d.owner = h /\ d.started = delivery[r].started
    BY <1>3, <1>5 DEF DeliveryRow, DeliveryStatus
<1>. HIDE DEF y, d
<1>10. /\ handler' \in [Handlers -> HandlerRow] /\ handler'[h] = y
       /\ \A g \in Handlers : g # h => handler'[g] = handler[g]
    BY <1>2, <1>8 DEF TypeOK
<1>11. v = "lock" => DeliveryChanged(r, s, h) /\ delivery'[r].started = delivery[r].started
    BY <1>1, <1>6, <1>9, RowReplaced
<1>12. UNCHANGED <<legacy, cont, inbox, lock, inflight, posted, target, turn>>
    BY DEF load_and_claim_delivery, runs, session
<1>. QED  BY <1>1, <1>5, <1>7, <1>8, <1>10, <1>11, <1>12 DEF v

\* An inbox row is settled by its owner alone.
LEMMA SettleInboxEffect ==
    ASSUME TypeOK, NEW h \in Handlers, NEW pc \in {"processed", "postpone"},
           NEW status \in {"processed", "deferred"}, NEW after \in {"idle", "requeue"},
           SettleInbox(h, pc, status, after)
    PROVE  LET r == handler[h].run IN
           /\ handler[h].pc = pc /\ r \in Runs
           /\ \/ InboxChanged(r, status) /\ after = "idle" /\ Rested(h)
              \/ InboxChanged(r, status) /\ after # "idle" /\ Moved(h, after, handler[h].next)
              \/ inbox' = inbox /\ Moved(h, "release", handler[h].next)
           /\ UNCHANGED <<legacy, cont, delivery, lock, inflight, posted, target, turn>>
<1>. DEFINE r == handler[h].run
            i == [inbox[r] EXCEPT !.status = status, !.owner = "none", !.lapsed = FALSE]
<1>1. handler[h].pc = pc /\ r \in Runs
    BY RunOf DEF SettleInbox, At
<1>2. inbox[r] \in InboxRow
    BY <1>1 DEF TypeOK
<1>3. i \in InboxRow /\ i.status = status
    BY <1>2 DEF InboxRow
<1>4. UNCHANGED <<legacy, cont, delivery, lock, inflight, posted, target, turn>>
    BY DEF SettleInbox, runs, session
<1>5. CASE OwnsInbox(h)
    <2>1. inbox' = [inbox EXCEPT ![r] = i]
        BY <1>5 DEF SettleInbox
    <2>2. InboxChanged(r, status)
        BY <1>1, <1>3, <2>1, RowReplaced
    <2>3. after = "idle" => Rested(h)
        BY <1>5, IdleRests DEF SettleInbox
    <2>4. after # "idle" => Goto(h, after)
        BY <1>5 DEF SettleInbox, Goto
    <2>5. after # "idle" => Moved(h, after, handler[h].next)
        BY <2>4, GotoMoves DEF Pc
    <2>. QED  BY <1>1, <1>4, <2>2, <2>3, <2>5
<1>6. CASE ~OwnsInbox(h)
    <2>1. inbox' = inbox /\ Goto(h, "release")
        BY <1>6 DEF SettleInbox
    <2>. QED  BY <1>1, <1>4, <2>1, GotoMoves DEF Pc
<1>. QED  BY <1>5, <1>6

\* acquire_session_lock: the lock is free and taken, or the delivery is deferred.
LEMMA acquire_session_lockEffect ==
    ASSUME TypeOK, NEW h \in Handlers, acquire_session_lock(h)
    PROVE  /\ handler[h].pc = "lock" /\ handler[h].run \in Runs
           /\ \/ lock = "none" /\ lock' = h /\ Moved(h, "look", handler[h].next)
              \/ lock' = lock /\ Moved(h, "defer", "deferred")
           /\ UNCHANGED <<legacy, cont, delivery, inbox, inflight, posted, target, turn>>
<1>1. handler[h].pc = "lock" /\ handler[h].run \in Runs
    BY RunOf DEF acquire_session_lock, At
<1>2. \/ lock = "none" /\ lock' = h /\ Moved(h, "look", handler[h].next)
      \/ lock' = lock /\ Moved(h, "defer", "deferred")
    BY GotoMoves, LeaveMoves, DeferMoves DEF acquire_session_lock, Pc, UnderLock, Outcome
<1>3. UNCHANGED <<legacy, cont, delivery, inbox, inflight, posted, target, turn>>
    BY DEF acquire_session_lock, runs, rows, session
<1>. QED  BY <1>1, <1>2, <1>3

\* get_target_message: the wake is found, collides, is deferred or is for posting.
LEMMA get_target_messageEffect ==
    ASSUME TypeOK, NEW h \in Handlers, get_target_message(h)
    PROVE  /\ handler[h].pc = "look" /\ handler[h].run \in Runs
           /\ \/ target[handler[h].run] = "match" /\ Moved(h, "turn", handler[h].next)
              \/ Moved(h, "leave", "dead")
              \/ \E s \in {"deferred", "dispatching", "accepted"} : Moved(h, "defer", s)
              \/ handler[h].started /\ Moved(h, "leave", "ambiguous")
              \/ ~handler[h].started /\ Moved(h, "probe", handler[h].next)
           /\ UNCHANGED <<legacy, cont, delivery, inbox, inflight, posted, target, turn, lock>>
<1>1. handler[h].pc = "look" /\ handler[h].run \in Runs
    BY RunOf DEF get_target_message, At
<1>2. \/ target[handler[h].run] = "match" /\ Moved(h, "turn", handler[h].next)
      \/ Moved(h, "leave", "dead")
      \/ \E s \in {"deferred", "dispatching", "accepted"} : Moved(h, "defer", s)
      \/ handler[h].started /\ Moved(h, "leave", "ambiguous")
      \/ ~handler[h].started /\ Moved(h, "probe", handler[h].next)
    <2>1. /\ target[handler[h].run] \in {"absent", "pending", "match", "collision"}
          /\ handler[h].started \in BOOLEAN
        BY <1>1 DEF TypeOK, HandlerRow
    <2>2. StillDispatching(h) \in {"deferred", "dispatching", "accepted"}
        BY DEF StillDispatching
    <2>. QED  BY <2>1, <2>2, GotoMoves, LeaveMoves, DeferMoves
              DEF get_target_message, Pc, UnderLock, Outcome
<1>3. UNCHANGED <<legacy, cont, delivery, inbox, inflight, posted, target, turn, lock>>
    BY DEF get_target_message, runs, rows, session
<1>. QED  BY <1>1, <1>2, <1>3

\* continuation_turn_state of a wake that was found.
LEMMA turnEffect ==
    ASSUME TypeOK, NEW h \in Handlers, continuation_turn_state(h, "turn")
    PROVE  /\ handler[h].pc = "turn" /\ handler[h].run \in Runs
           /\ \/ turn[handler[h].run] = "done" /\ Moved(h, "observe", handler[h].next)
              \/ turn[handler[h].run] = "failed" /\ Moved(h, "leave", "ambiguous")
              \/ handler[h].started /\ Moved(h, "leave", "ambiguous")
              \/ Moved(h, "defer", "accepted")
           /\ UNCHANGED <<legacy, cont, delivery, inbox, inflight, posted, target, turn, lock>>
<1>1. handler[h].pc = "turn" /\ handler[h].run \in Runs
    BY RunOf DEF continuation_turn_state, At
<1>2. \/ turn[handler[h].run] = "done" /\ Moved(h, "observe", handler[h].next)
      \/ turn[handler[h].run] = "failed" /\ Moved(h, "leave", "ambiguous")
      \/ handler[h].started /\ Moved(h, "leave", "ambiguous")
      \/ Moved(h, "defer", "accepted")
    BY GotoMoves, LeaveMoves, DeferMoves DEF continuation_turn_state, Pc, UnderLock, Outcome
<1>3. UNCHANGED <<legacy, cont, delivery, inbox, inflight, posted, target, turn, lock>>
    BY DEF continuation_turn_state, runs, rows, session
<1>. QED  BY <1>1, <1>2, <1>3

\* continuation_turn_state of a wake that was just posted.
LEMMA followEffect ==
    ASSUME TypeOK, NEW h \in Handlers, continuation_turn_state(h, "follow")
    PROVE  /\ handler[h].pc = "follow" /\ handler[h].run \in Runs
           /\ \/ turn[handler[h].run] = "done" /\ Moved(h, "observe", handler[h].next)
              \/ turn[handler[h].run] = "failed" /\ Moved(h, "leave", "ambiguous")
              \/ handler[h].started /\ Moved(h, "leave", "ambiguous")
              \/ Moved(h, "defer", "accepted")
           /\ UNCHANGED <<legacy, cont, delivery, inbox, inflight, posted, target, turn, lock>>
<1>1. handler[h].pc = "follow" /\ handler[h].run \in Runs
    BY RunOf DEF continuation_turn_state, At
<1>2. \/ turn[handler[h].run] = "done" /\ Moved(h, "observe", handler[h].next)
      \/ turn[handler[h].run] = "failed" /\ Moved(h, "leave", "ambiguous")
      \/ handler[h].started /\ Moved(h, "leave", "ambiguous")
      \/ Moved(h, "defer", "accepted")
    BY GotoMoves, LeaveMoves, DeferMoves DEF continuation_turn_state, Pc, UnderLock, Outcome
<1>3. UNCHANGED <<legacy, cont, delivery, inbox, inflight, posted, target, turn, lock>>
    BY DEF continuation_turn_state, runs, rows, session
<1>. QED  BY <1>1, <1>2, <1>3

\* session_is_busy: a busy session defers the wake.
LEMMA session_is_busyEffect ==
    ASSUME TypeOK, NEW h \in Handlers, session_is_busy(h)
    PROVE  /\ handler[h].pc = "probe" /\ handler[h].run \in Runs
           /\ \/ Moved(h, "defer", "deferred")
              \/ Moved(h, "begin", handler[h].next)
           /\ UNCHANGED <<legacy, cont, delivery, inbox, inflight, posted, target, turn, lock>>
<1>1. handler[h].pc = "probe" /\ handler[h].run \in Runs
    BY RunOf DEF session_is_busy, At
<1>2. \/ Moved(h, "defer", "deferred")
      \/ Moved(h, "begin", handler[h].next)
    BY GotoMoves, LeaveMoves, DeferMoves DEF session_is_busy, Pc, UnderLock, Outcome
<1>3. UNCHANGED <<legacy, cont, delivery, inbox, inflight, posted, target, turn, lock>>
    BY DEF session_is_busy, runs, rows, session
<1>. QED  BY <1>1, <1>2, <1>3

\* verify_after_dispatch: what the session shows after the post.
LEMMA verify_after_dispatchEffect ==
    ASSUME TypeOK, NEW h \in Handlers, verify_after_dispatch(h)
    PROVE  /\ handler[h].pc = "verify" /\ handler[h].run \in Runs
           /\ \/ target[handler[h].run] = "match" /\ Moved(h, "accept", handler[h].next)
              \/ Moved(h, "leave", "dead")
              \/ Moved(h, "defer", "dispatching")
           /\ UNCHANGED <<legacy, cont, delivery, inbox, inflight, posted, target, turn, lock>>
<1>1. handler[h].pc = "verify" /\ handler[h].run \in Runs
    BY RunOf DEF verify_after_dispatch, At
<1>2. \/ target[handler[h].run] = "match" /\ Moved(h, "accept", handler[h].next)
      \/ Moved(h, "leave", "dead")
      \/ Moved(h, "defer", "dispatching")
    BY GotoMoves, LeaveMoves, DeferMoves DEF verify_after_dispatch, Pc, UnderLock, Outcome
<1>3. UNCHANGED <<legacy, cont, delivery, inbox, inflight, posted, target, turn, lock>>
    BY DEF verify_after_dispatch, runs, rows, session
<1>. QED  BY <1>1, <1>2, <1>3

\* mark_dispatching: the owner records the dispatch, anyone else leaves.
LEMMA mark_dispatchingEffect ==
    ASSUME TypeOK, NEW h \in Handlers, mark_dispatching(h)
    PROVE  LET r == handler[h].run IN
           /\ handler[h].pc = "begin" /\ r \in Runs
           /\ \/ /\ delivery[r].owner = h /\ Moved(h, "post", handler[h].next)
                 /\ DeliveryChanged(r, "dispatching", h) /\ delivery'[r].started
              \/ delivery' = delivery /\ Moved(h, "leave", "error")
           /\ UNCHANGED <<legacy, cont, inbox, lock, inflight, posted, target, turn>>
<1>. DEFINE r == handler[h].run
            d == [delivery[r] EXCEPT !.status = "dispatching", !.started = TRUE, !.age = 0]
<1>1. handler[h].pc = "begin" /\ r \in Runs
    BY RunOf DEF mark_dispatching, At
<1>2. delivery[r] \in DeliveryRow
    BY <1>1 DEF TypeOK
<1>3. d \in DeliveryRow /\ d.status = "dispatching" /\ d.started = TRUE /\ d.owner = delivery[r].owner
    <2>1. d \in DeliveryRow
        <3>1. \A b \in BOOLEAN, a \in 0 .. 2 :
                [delivery[r] EXCEPT !.status = "dispatching", !.started = b, !.age = a]
                  \in DeliveryRow
            BY <1>2 DEF DeliveryRow, DeliveryStatus
        <3>2. TRUE \in BOOLEAN /\ 0 \in 0 .. 2
            OBVIOUS
        <3>. QED  BY <3>1, <3>2
    <2>2. d.status = "dispatching" /\ d.owner = delivery[r].owner
        BY <1>2 DEF DeliveryRow
    <2>3. d.started = TRUE
        BY <1>2 DEF DeliveryRow
    <2>. QED  BY <2>1, <2>2, <2>3
<1>4. UNCHANGED <<legacy, cont, inbox, lock, inflight, posted, target, turn>>
    BY DEF mark_dispatching, runs, session
<1>5. CASE OwnsDelivery(h)
    <2>1. delivery' = [delivery EXCEPT ![r] = d] /\ Goto(h, "post")
        BY <1>5 DEF mark_dispatching
    <2>2. DeliveryChanged(r, d.status, d.owner) /\ delivery'[r].started = d.started
        BY <1>1, <1>3, <2>1, RowReplaced
    <2>3. Moved(h, "post", handler[h].next)
        BY <2>1, GotoMoves DEF Pc, UnderLock
    <2>. QED  BY <1>1, <1>3, <1>4, <1>5, <2>2, <2>3 DEF OwnsDelivery
<1>6. CASE ~OwnsDelivery(h)
    <2>1. delivery' = delivery /\ Leave(h, "error")
        BY <1>6 DEF mark_dispatching
    <2>. QED  BY <1>1, <1>4, <2>1, LeaveMoves DEF Outcome
<1>. QED  BY <1>5, <1>6

\* spawn_terminal_prompt: the prompt goes out.
LEMMA spawn_terminal_promptEffect ==
    ASSUME TypeOK, NEW h \in Handlers, spawn_terminal_prompt(h)
    PROVE  LET r == handler[h].run IN
           /\ handler[h].pc = "post" /\ r \in Runs /\ Moved(h, "verify", handler[h].next)
           /\ inflight' = inflight \cup {r} /\ posted' = [posted EXCEPT ![r] = @ + 1]
           /\ UNCHANGED <<legacy, cont, delivery, inbox, lock, target, turn>>
<1>1. handler[h].pc = "post" /\ handler[h].run \in Runs
    BY RunOf DEF spawn_terminal_prompt, At
<1>2. Moved(h, "verify", handler[h].next)
    BY GotoMoves DEF spawn_terminal_prompt, Pc, UnderLock
<1>. QED  BY <1>1, <1>2 DEF spawn_terminal_prompt, runs, rows

\* mark_accepted: the owner records what it found.
LEMMA mark_acceptedEffect ==
    ASSUME TypeOK, NEW h \in Handlers, mark_accepted(h)
    PROVE  LET r == handler[h].run IN
           /\ handler[h].pc = "accept" /\ r \in Runs
           /\ \/ /\ delivery[r].owner = h /\ Moved(h, "follow", handler[h].next)
                 /\ DeliveryChanged(r, "accepted", h)
                 /\ delivery'[r].started = delivery[r].started
              \/ delivery' = delivery /\ Moved(h, "leave", "error")
           /\ UNCHANGED <<legacy, cont, inbox, lock, inflight, posted, target, turn>>
<1>. DEFINE r == handler[h].run
            d == [delivery[r] EXCEPT !.status = "accepted", !.accepted = TRUE]
<1>1. handler[h].pc = "accept" /\ r \in Runs
    BY RunOf DEF mark_accepted, At
<1>2. delivery[r] \in DeliveryRow
    BY <1>1 DEF TypeOK
<1>3. /\ d \in DeliveryRow /\ d.status = "accepted" /\ d.started = delivery[r].started
      /\ d.owner = delivery[r].owner
    BY <1>2 DEF DeliveryRow, DeliveryStatus
<1>4. UNCHANGED <<legacy, cont, inbox, lock, inflight, posted, target, turn>>
    BY DEF mark_accepted, runs, session
<1>5. CASE OwnsDelivery(h)
    <2>1. delivery' = [delivery EXCEPT ![r] = d] /\ Goto(h, "follow")
        BY <1>5 DEF mark_accepted
    <2>2. DeliveryChanged(r, d.status, d.owner) /\ delivery'[r].started = d.started
        BY <1>1, <1>3, <2>1, RowReplaced
    <2>3. Moved(h, "follow", handler[h].next)
        BY <2>1, GotoMoves DEF Pc, UnderLock
    <2>. QED  BY <1>1, <1>3, <1>4, <1>5, <2>2, <2>3 DEF OwnsDelivery
<1>6. CASE ~OwnsDelivery(h)
    <2>1. delivery' = delivery /\ Leave(h, "error")
        BY <1>6 DEF mark_accepted
    <2>. QED  BY <1>1, <1>4, <2>1, LeaveMoves DEF Outcome
<1>. QED  BY <1>5, <1>6

\* Both rows are settled together.
LEMMA CommitEffect ==
    ASSUME TypeOK, NEW h \in Handlers, handler[h].run \in Runs,
           NEW ds \in DeliveryStatus, NEW is \in {"deferred", "processed"}, Commit(h, ds, is)
    PROVE  LET r == handler[h].run IN
           /\ DeliveryChanged(r, ds, "none") /\ delivery'[r].started = delivery[r].started
           /\ InboxChanged(r, is)
<1>. DEFINE r == handler[h].run
            due == ds \in {"observed", "ambiguous", "dead"}
            d == [delivery[r] EXCEPT !.status = ds, !.owner = "none", !.lapsed = FALSE,
                                     !.due = due]
            i == [inbox[r] EXCEPT !.status = is, !.owner = "none", !.lapsed = FALSE]
<1>1. delivery[r] \in DeliveryRow /\ inbox[r] \in InboxRow
    BY DEF TypeOK
<1>2. delivery' = [delivery EXCEPT ![r] = d] /\ inbox' = [inbox EXCEPT ![r] = i]
    BY DEF Commit
<1>3. due \in BOOLEAN
    OBVIOUS
<1>. HIDE DEF due
<1>4. d \in DeliveryRow /\ d.status = ds /\ d.owner = "none" /\ d.started = delivery[r].started
    BY <1>1, <1>3 DEF DeliveryRow
<1>5. i \in InboxRow /\ i.status = is
    BY <1>1 DEF InboxRow
<1>. HIDE DEF d, i
<1>. QED  BY <1>2, <1>4, <1>5, RowReplaced

\* defer_delivery: both rows, or neither.
LEMMA defer_deliveryEffect ==
    ASSUME TypeOK, NEW h \in Handlers, defer_delivery(h)
    PROVE  LET r == handler[h].run IN
           /\ handler[h].pc = "defer" /\ r \in Runs
           /\ \/ /\ delivery[r].owner = h /\ Moved(h, "leave", "requeue")
                 /\ \E s \in {"deferred", "dispatching", "accepted"} :
                        DeliveryChanged(r, s, "none")
                 /\ delivery'[r].started = delivery[r].started
                 /\ InboxChanged(r, "deferred")
              \/ UNCHANGED <<delivery, inbox>> /\ Moved(h, "leave", "error")
           /\ UNCHANGED <<legacy, cont, lock, inflight, posted, target, turn>>
<1>. DEFINE r == handler[h].run
<1>1. handler[h].pc = "defer" /\ r \in Runs
    BY RunOf DEF defer_delivery, At
<1>2. handler[h].next \in {"deferred", "dispatching", "accepted"}
    BY <1>1 DEF TypeOK
<1>3. UNCHANGED <<legacy, cont, lock, inflight, posted, target, turn>>
    BY DEF defer_delivery, runs, session
<1>4. CASE OwnsDelivery(h) /\ OwnsInbox(h)
    <2>1. Commit(h, handler[h].next, "deferred") /\ Leave(h, "requeue")
        BY <1>4 DEF defer_delivery
    <2>2. /\ DeliveryChanged(r, handler[h].next, "none")
          /\ delivery'[r].started = delivery[r].started /\ InboxChanged(r, "deferred")
        BY <1>1, <1>2, <2>1, CommitEffect DEF DeliveryStatus
    <2>3. Moved(h, "leave", "requeue")
        BY <2>1, LeaveMoves DEF Outcome
    <2>. QED  BY <1>1, <1>2, <1>3, <1>4, <2>2, <2>3 DEF OwnsDelivery
<1>5. CASE ~(OwnsDelivery(h) /\ OwnsInbox(h))
    <2>1. UNCHANGED <<delivery, inbox>> /\ Leave(h, "error")
        BY <1>5 DEF defer_delivery
    <2>. QED  BY <1>1, <1>3, <2>1, LeaveMoves DEF Outcome
<1>. QED  BY <1>4, <1>5

\* mark_observed: both rows and the continuation, or nothing.
LEMMA mark_observedEffect ==
    ASSUME TypeOK, NEW h \in Handlers, mark_observed(h)
    PROVE  LET r == handler[h].run IN
           /\ handler[h].pc = "observe" /\ r \in Runs
           /\ \/ /\ delivery[r].owner = h /\ Moved(h, "leave", "ack")
                 /\ DeliveryChanged(r, "observed", "none")
                 /\ delivery'[r].started = delivery[r].started
                 /\ InboxChanged(r, "processed")
                 /\ cont' = [cont EXCEPT ![r] = "delivered"]
              \/ UNCHANGED <<delivery, inbox, cont>> /\ Moved(h, "leave", "error")
           /\ UNCHANGED <<legacy, lock, inflight, posted, target, turn>>
<1>. DEFINE r == handler[h].run
<1>1. handler[h].pc = "observe" /\ r \in Runs
    BY RunOf DEF mark_observed, At
<1>3. UNCHANGED <<legacy, lock, inflight, posted, target, turn>>
    BY DEF mark_observed, session
<1>4. CASE OwnsDelivery(h) /\ OwnsInbox(h)
    <2>1. /\ Commit(h, "observed", "processed") /\ Leave(h, "ack")
          /\ cont' = [cont EXCEPT ![r] = "delivered"]
        BY <1>4 DEF mark_observed, OfCurrent
    <2>2. /\ DeliveryChanged(r, "observed", "none")
          /\ delivery'[r].started = delivery[r].started /\ InboxChanged(r, "processed")
        BY <1>1, <2>1, CommitEffect DEF DeliveryStatus
    <2>3. Moved(h, "leave", "ack")
        BY <2>1, LeaveMoves DEF Outcome
    <2>. QED  BY <1>1, <1>3, <1>4, <2>1, <2>2, <2>3 DEF OwnsDelivery
<1>5. CASE ~(OwnsDelivery(h) /\ OwnsInbox(h))
    <2>1. UNCHANGED <<delivery, inbox, cont>> /\ Leave(h, "error")
        BY <1>5 DEF mark_observed
    <2>. QED  BY <1>1, <1>3, <2>1, LeaveMoves DEF Outcome
<1>. QED  BY <1>4, <1>5

\* release_session_lock, and the outcome that is acted on.
LEMMA release_session_lockEffect ==
    ASSUME TypeOK, NEW h \in Handlers, release_session_lock(h)
    PROVE  /\ handler[h].pc = "leave" /\ handler[h].run \in Runs
           /\ lock' = IF lock = h THEN "none" ELSE lock
           /\ \/ Rested(h)
              \/ Moved(h, "release", "error")
              \/ \E o \in {"dead", "ambiguous", "requeue"} :
                     handler[h].next = o /\ Moved(h, o, "claimed")
           /\ UNCHANGED <<legacy, cont, delivery, inbox, inflight, posted, target, turn>>
<1>. DEFINE o == handler[h].next
            y == [handler[h] EXCEPT !.pc = o, !.next = "claimed"]
<1>1. handler[h].pc = "leave" /\ handler[h].run \in Runs
    BY RunOf DEF release_session_lock, At
<1>2. o \in Outcome /\ handler[h] \in HandlerRow /\ handler \in [Handlers -> HandlerRow]
    BY <1>1 DEF TypeOK
<1>3. /\ lock' = IF lock = h THEN "none" ELSE lock
      /\ UNCHANGED <<legacy, cont, delivery, inbox, inflight, posted, target, turn>>
    BY DEF release_session_lock, runs, rows, session
<1>4. CASE o = "ack"
    <2>1. handler' = [handler EXCEPT ![h] = Idle]
        BY <1>4 DEF release_session_lock
    <2>. QED  BY <1>1, <1>3, <2>1, IdleRests
<1>5. CASE o = "error"
    <2>1. Goto(h, "release")
        BY <1>5 DEF release_session_lock, Goto
    <2>. QED  BY <1>1, <1>3, <1>5, <2>1, GotoMoves DEF Pc
<1>6. CASE o \in {"dead", "ambiguous", "requeue"}
    <2>1. handler' = [handler EXCEPT ![h] = y]
        BY <1>6 DEF release_session_lock
    <2>2. /\ y \in HandlerRow /\ y.pc = o /\ y.next = "claimed" /\ y.run = handler[h].run
          /\ y.started = handler[h].started
        BY <1>2, <1>6 DEF HandlerRow, Pc
    <2>. HIDE DEF y
    <2>3. Moved(h, o, "claimed")
        BY <1>2, <2>1, <2>2 DEF Moved
    <2>. QED  BY <1>1, <1>3, <1>6, <2>3
<1>. QED  BY <1>2, <1>4, <1>5, <1>6 DEF Outcome

\* mark_delivery_ambiguous: the owner hands the wake to a person.
LEMMA mark_delivery_ambiguousEffect ==
    ASSUME TypeOK, NEW h \in Handlers, mark_delivery_ambiguous(h)
    PROVE  LET r == handler[h].run IN
           /\ handler[h].pc = "ambiguous" /\ r \in Runs
           /\ \/ /\ delivery[r].owner = h /\ Rested(h)
                 /\ DeliveryChanged(r, "ambiguous", "none")
                 /\ delivery'[r].started = delivery[r].started
                 /\ InboxChanged(r, "processed")
                 /\ cont' = [cont EXCEPT ![r] = "manual_review"]
              \/ /\ DeliveriesFreed /\ InboxFreed /\ cont' = cont
                 /\ Moved(h, "requeue", handler[h].next)
           /\ UNCHANGED <<legacy, lock, inflight, posted, target, turn>>
<1>. DEFINE r == handler[h].run
<1>1. handler[h].pc = "ambiguous" /\ r \in Runs
    BY RunOf DEF mark_delivery_ambiguous, At
<1>3. UNCHANGED <<legacy, lock, inflight, posted, target, turn>>
    BY DEF mark_delivery_ambiguous, session
<1>4. CASE OwnsDelivery(h) /\ OwnsInbox(h)
    <2>1. /\ Commit(h, "ambiguous", "processed") /\ handler' = [handler EXCEPT ![h] = Idle]
          /\ cont' = [cont EXCEPT ![r] = "manual_review"]
        BY <1>4 DEF mark_delivery_ambiguous, OfCurrent
    <2>2. /\ DeliveryChanged(r, "ambiguous", "none")
          /\ delivery'[r].started = delivery[r].started /\ InboxChanged(r, "processed")
        BY <1>1, <2>1, CommitEffect DEF DeliveryStatus
    <2>3. Rested(h)
        BY <2>1, IdleRests
    <2>. QED  BY <1>1, <1>3, <1>4, <2>1, <2>2, <2>3 DEF OwnsDelivery
<1>5. CASE ~(OwnsDelivery(h) /\ OwnsInbox(h))
    <2>1. /\ delivery' = Forgotten(delivery, {h}) /\ inbox' = Forgotten(inbox, {h})
          /\ cont' = cont /\ Goto(h, "requeue")
        BY <1>5 DEF mark_delivery_ambiguous
    <2>2. DeliveriesFreed /\ InboxFreed
        BY <2>1, ForgottenFrees
    <2>. QED  BY <1>1, <1>3, <2>1, <2>2, GotoMoves DEF Pc
<1>. QED  BY <1>4, <1>5

\* mark_delivery_dead: the owner buries the wake.
LEMMA mark_delivery_deadEffect ==
    ASSUME TypeOK, NEW h \in Handlers, mark_delivery_dead(h)
    PROVE  LET r == handler[h].run IN
           /\ handler[h].pc = "dead" /\ r \in Runs
           /\ \/ /\ delivery[r].owner = h /\ Rested(h)
                 /\ DeliveryChanged(r, "dead", "none")
                 /\ delivery'[r].started = delivery[r].started
                 /\ InboxChanged(r, "dead")
              \/ delivery' = delivery /\ Rested(h) /\ InboxChanged(r, "dead")
              \/ DeliveriesFreed /\ InboxFreed /\ Moved(h, "requeue", handler[h].next)
           /\ UNCHANGED <<legacy, cont, lock, inflight, posted, target, turn>>
<1>. DEFINE r == handler[h].run
            bury == handler[h].next = "claimed" \/ r \in legacy
            d == [delivery[r] EXCEPT !.status = "dead", !.owner = "none", !.lapsed = FALSE]
            i == [inbox[r] EXCEPT !.status = "dead", !.owner = "none", !.lapsed = FALSE]
<1>1. handler[h].pc = "dead" /\ r \in Runs
    BY RunOf DEF mark_delivery_dead, At
<1>2. delivery[r] \in DeliveryRow /\ inbox[r] \in InboxRow
    BY <1>1 DEF TypeOK
<1>3. UNCHANGED <<legacy, cont, lock, inflight, posted, target, turn>>
    BY DEF mark_delivery_dead, runs, session
<1>4. /\ d \in DeliveryRow /\ d.status = "dead" /\ d.owner = "none"
      /\ d.started = delivery[r].started
    BY <1>2 DEF DeliveryRow, DeliveryStatus
<1>5. i \in InboxRow /\ i.status = "dead"
    BY <1>2 DEF InboxRow
<1>6. CASE OwnsInbox(h) /\ (bury => OwnsDelivery(h))
    <2>1. /\ delivery' = IF bury THEN [delivery EXCEPT ![r] = d] ELSE delivery
          /\ inbox' = [inbox EXCEPT ![r] = i] /\ handler' = [handler EXCEPT ![h] = Idle]
        BY <1>6 DEF mark_delivery_dead
    <2>. HIDE DEF d, i
    <2>2. Rested(h) /\ InboxChanged(r, "dead")
        BY <1>1, <1>5, <2>1, IdleRests, RowReplaced
    <2>3. CASE bury
        <3>1. DeliveryChanged(r, "dead", "none") /\ delivery'[r].started = delivery[r].started
            BY <1>1, <1>4, <2>1, <2>3, RowReplaced
        <3>. QED  BY <1>1, <1>3, <1>6, <2>2, <2>3, <3>1 DEF OwnsDelivery
    <2>. QED  BY <1>1, <1>3, <2>1, <2>2, <2>3
<1>7. CASE ~(OwnsInbox(h) /\ (bury => OwnsDelivery(h)))
    <2>1. /\ delivery' = Forgotten(delivery, {h}) /\ inbox' = Forgotten(inbox, {h})
          /\ Goto(h, "requeue")
        BY <1>7 DEF mark_delivery_dead
    <2>2. DeliveriesFreed /\ InboxFreed
        BY <2>1, ForgottenFrees
    <2>. QED  BY <1>1, <1>3, <2>1, <2>2, GotoMoves DEF Pc
<1>. QED  BY <1>6, <1>7

\* release_claim_after_error: the rows are given up as they are.
LEMMA release_claim_after_errorEffect ==
    ASSUME TypeOK, NEW h \in Handlers, release_claim_after_error(h)
    PROVE  LET r == handler[h].run IN
           /\ handler[h].pc = "release" /\ r \in Runs
           /\ Moved(h, "requeue", handler[h].next)
           /\ DeliveriesFreed
           /\ InboxFreed \/ InboxChanged(r, "deferred")
           /\ UNCHANGED <<legacy, cont, lock, inflight, posted, target, turn>>
<1>. DEFINE r == handler[h].run
            d == [delivery[r] EXCEPT !.owner = "none", !.lapsed = FALSE]
            i == [inbox[r] EXCEPT !.status = "deferred", !.owner = "none", !.lapsed = FALSE]
<1>1. handler[h].pc = "release" /\ r \in Runs
    BY RunOf DEF release_claim_after_error, At
<1>2. delivery[r] \in DeliveryRow /\ inbox[r] \in InboxRow /\ delivery \in [Runs -> DeliveryRow]
    BY <1>1 DEF TypeOK
<1>3. UNCHANGED <<legacy, cont, lock, inflight, posted, target, turn>>
    BY DEF release_claim_after_error, runs, session
<1>4. /\ d \in DeliveryRow /\ d.status = delivery[r].status /\ d.owner = "none"
      /\ d.started = delivery[r].started
    BY <1>2 DEF DeliveryRow
<1>5. i \in InboxRow /\ i.status = "deferred"
    BY <1>2 DEF InboxRow
<1>6. Moved(h, "requeue", handler[h].next)
    BY GotoMoves DEF release_claim_after_error, Pc
<1>7. CASE OwnsInbox(h)
    <2>1. /\ delivery' = IF OwnsDelivery(h) THEN [delivery EXCEPT ![r] = d] ELSE delivery
          /\ inbox' = [inbox EXCEPT ![r] = i]
        BY <1>7 DEF release_claim_after_error
    <2>. HIDE DEF d, i
    <2>2. InboxChanged(r, "deferred")
        BY <1>1, <1>5, <2>1, RowReplaced
    <2>3. DeliveriesFreed
        BY <1>1, <1>2, <1>4, <2>1 DEF DeliveriesFreed
    <2>. QED  BY <1>1, <1>3, <1>6, <2>2, <2>3
<1>8. CASE ~OwnsInbox(h)
    <2>1. delivery' = Forgotten(delivery, {h}) /\ inbox' = Forgotten(inbox, {h})
        BY <1>8 DEF release_claim_after_error
    <2>. QED  BY <1>1, <1>3, <1>6, <2>1, ForgottenFrees
<1>. QED  BY <1>7, <1>8

\* The message goes back and its delivery falls due.
LEMMA NackEffect ==
    ASSUME TypeOK, NEW h \in Handlers, Nack(h)
    PROVE  /\ handler[h].pc = "requeue" /\ handler[h].run \in Runs /\ Rested(h) /\ DeliveriesFreed
           /\ UNCHANGED <<legacy, cont, inbox, lock, inflight, posted, target, turn>>
<1>. DEFINE r == handler[h].run
            d == [delivery[r] EXCEPT !.due = TRUE]
<1>1. handler[h].pc = "requeue" /\ r \in Runs
    BY RunOf DEF Nack, At
<1>2. delivery[r] \in DeliveryRow /\ delivery \in [Runs -> DeliveryRow]
    BY <1>1 DEF TypeOK
<1>3. UNCHANGED <<legacy, cont, inbox, lock, inflight, posted, target, turn>>
    BY DEF Nack, runs, session
<1>4. /\ d \in DeliveryRow /\ d.status = delivery[r].status /\ d.owner = delivery[r].owner
      /\ d.started = delivery[r].started
    BY <1>2 DEF DeliveryRow
<1>5. delivery' = [delivery EXCEPT ![r] = d] /\ Rested(h)
    BY IdleRests DEF Nack
<1>. HIDE DEF d
<1>6. DeliveriesFreed
    BY <1>1, <1>2, <1>4, <1>5 DEF DeliveriesFreed
<1>. QED  BY <1>1, <1>3, <1>5, <1>6

\* A stall lets leases lapse and changes nothing else of the rows.
LEMMA StallEffect ==
    ASSUME TypeOK, NEW h \in Handlers, Stall(h)
    PROVE  /\ DeliveriesFreed /\ InboxFreed
           /\ UNCHANGED <<handler, legacy, cont, lock, inflight, posted, target, turn>>
<1>1. ASSUME NEW r \in Runs
      PROVE  LET y == [delivery[r] EXCEPT !.lapsed = TRUE]
                 i == [inbox[r] EXCEPT !.lapsed = TRUE]
             IN  /\ y \in DeliveryRow /\ y.status = delivery[r].status
                 /\ y.started = delivery[r].started /\ y.owner = delivery[r].owner
                 /\ i \in InboxRow /\ i.status = inbox[r].status
    <2>1. delivery[r] \in DeliveryRow /\ inbox[r] \in InboxRow
        BY DEF TypeOK
    <2>2. LET y == [delivery[r] EXCEPT !.lapsed = TRUE]
          IN  /\ y \in DeliveryRow /\ y.status = delivery[r].status
              /\ y.started = delivery[r].started /\ y.owner = delivery[r].owner
        BY <2>1 DEF DeliveryRow
    <2>3. LET i == [inbox[r] EXCEPT !.lapsed = TRUE]
          IN  i \in InboxRow /\ i.status = inbox[r].status
        BY <2>1 DEF InboxRow
    <2>. QED  BY <2>2, <2>3
<1>2. delivery' = Expired(delivery, h) /\ inbox' = Expired(inbox, h)
    BY DEF Stall
<1>3. delivery \in [Runs -> DeliveryRow] /\ inbox \in [Runs -> InboxRow]
    BY DEF TypeOK
<1>4. DeliveriesFreed
    <2>. DEFINE y(r) == [delivery[r] EXCEPT !.lapsed = TRUE]
    <2>1. \A r \in Runs : /\ y(r) \in DeliveryRow /\ y(r).status = delivery[r].status
                          /\ y(r).started = delivery[r].started /\ y(r).owner = delivery[r].owner
        BY <1>1
    <2>2. delivery' = [r \in Runs |-> IF delivery[r].owner = h THEN y(r) ELSE delivery[r]]
        BY <1>2 DEF Expired
    <2>. HIDE DEF y
    <2>. QED  BY <1>3, <2>1, <2>2 DEF DeliveriesFreed
<1>5. InboxFreed
    <2>. DEFINE i(r) == [inbox[r] EXCEPT !.lapsed = TRUE]
    <2>1. \A r \in Runs : i(r) \in InboxRow /\ i(r).status = inbox[r].status
        BY <1>1
    <2>2. inbox' = [r \in Runs |-> IF inbox[r].owner = h THEN i(r) ELSE inbox[r]]
        BY <1>2 DEF Expired
    <2>. HIDE DEF i
    <2>. QED  BY <1>3, <2>1, <2>2 DEF InboxFreed
<1>. QED  BY <1>4, <1>5 DEF Stall, runs, session

\* A failed request ends process_claimed with an error.
LEMMA HttpFailsEffect ==
    ASSUME TypeOK, NEW h \in Handlers, HttpFails(h)
    PROVE  /\ handler[h].pc # "idle" /\ handler[h].run \in Runs /\ Moved(h, "leave", "error")
           /\ UNCHANGED <<legacy, cont, delivery, inbox, lock, inflight, posted, target, turn>>
<1>1. Moved(h, "leave", "error")
    BY LeaveMoves DEF HttpFails, Outcome
<1>. QED  BY <1>1, RunOf DEF HttpFails, runs, rows, session

\* A lost connection frees the lock and the rows.
LEMMA DatabaseFailsEffect ==
    ASSUME TypeOK, NEW h \in Handlers, DatabaseFails(h)
    PROVE  /\ handler[h].pc # "idle" /\ handler[h].run \in Runs
           /\ Moved(h, "requeue", handler[h].next)
           /\ DeliveriesFreed /\ InboxFreed /\ lock' = IF lock = h THEN "none" ELSE lock
           /\ UNCHANGED <<legacy, cont, inflight, posted, target, turn>>
<1>1. Moved(h, "requeue", handler[h].next)
    BY GotoMoves DEF DatabaseFails, Pc
<1>2. DeliveriesFreed /\ InboxFreed
    BY ForgottenFrees DEF DatabaseFails
<1>. QED  BY <1>1, <1>2, RunOf DEF DatabaseFails, runs, session

\* claim_inbox: the message is another's, or this handler's to claim.
LEMMA claim_inboxEffect ==
    ASSUME TypeOK, NEW h \in Handlers, NEW r \in Runs, claim_inbox(h, r)
    PROVE  /\ handler[h].pc = "idle"
           /\ \/ UNCHANGED <<inbox, handler>>
              \/ /\ handler' \in [Handlers -> HandlerRow]
                 /\ \A g \in Handlers : g # h => handler'[g] = handler[g]
                 /\ handler'[h].pc \in {"requeue", "claim"} /\ handler'[h].run = r
                 /\ ~handler'[h].started
                 /\ inbox' = inbox \/ InboxChanged(r, "claimed")
           /\ inbox[r].status = "processed" => inbox' = inbox
           /\ UNCHANGED <<legacy, cont, delivery, lock, inflight, posted, target, turn>>
<1>. DEFINE y(pc) == [Idle EXCEPT !.pc = pc, !.run = r]
            i == [status |-> "claimed", owner |-> h, lapsed |-> FALSE]
<1>1. \A pc \in {"requeue", "claim"} :
         y(pc) \in HandlerRow /\ y(pc).pc = pc /\ y(pc).run = r /\ y(pc).started = FALSE
    BY DEF Idle, HandlerRow, Pc, DeliveryStatus
<1>2. i \in InboxRow /\ i.status = "claimed"
    BY DEF InboxRow
<1>3. handler \in [Handlers -> HandlerRow]
    BY DEF TypeOK
<1>4. \/ UNCHANGED <<inbox, handler>>
      \/ handler' = [handler EXCEPT ![h] = y("requeue")] /\ inbox' = inbox
      \/ /\ handler' = [handler EXCEPT ![h] = y("claim")] /\ inbox' = [inbox EXCEPT ![r] = i]
         /\ inbox[r].status # "processed"
    BY DEF claim_inbox
<1>5. /\ handler[h].pc = "idle"
      /\ UNCHANGED <<legacy, cont, delivery, lock, inflight, posted, target, turn>>
    BY DEF claim_inbox, At, runs, session
<1>. HIDE DEF y, i
<1>6. inbox' = [inbox EXCEPT ![r] = i] => InboxChanged(r, "claimed")
    BY <1>2, RowReplaced
<1>. QED  BY <1>1, <1>3, <1>4, <1>5, <1>6

\* A wake is made once, and never for a continuation that was cancelled.
LEMMA WakeEffect ==
    ASSUME TypeOK, NEW r \in Runs, Wake(r)
    PROVE  \/ /\ cont[r] \notin {"unbound", "cancelled"} /\ delivery[r].status = "none"
              /\ DeliveryChanged(r, "pending", delivery[r].owner)
              /\ delivery'[r].started = delivery[r].started
              /\ cont' = [cont EXCEPT ![r] = "wake_pending"]
           \/ UNCHANGED <<delivery, cont>>
<1>. DEFINE d == [delivery[r] EXCEPT !.status = "pending"]
<1>1. delivery[r] \in DeliveryRow
    BY DEF TypeOK
<1>2. /\ d \in DeliveryRow /\ d.status = "pending" /\ d.owner = delivery[r].owner
      /\ d.started = delivery[r].started
    BY <1>1 DEF DeliveryRow, DeliveryStatus
<1>3. \/ /\ cont[r] \notin {"unbound", "cancelled"} /\ delivery[r].status = "none"
         /\ delivery' = [delivery EXCEPT ![r] = d] /\ cont' = [cont EXCEPT ![r] = "wake_pending"]
      \/ UNCHANGED <<delivery, cont>>
    BY DEF Wake
<1>. HIDE DEF d
<1>. QED  BY <1>2, <1>3, RowReplaced

\* cancelContinuation buries a delivery that has not begun.
LEMMA cancelContinuationEffect ==
    ASSUME TypeOK, NEW r \in Runs, cancelContinuation(r)
    PROVE  /\ cont' = [cont EXCEPT ![r] = "cancelled"]
           /\ \/ /\ delivery[r].status \in {"pending", "claimed", "deferred"}
                 /\ DeliveryChanged(r, "dead", delivery[r].owner)
                 /\ delivery'[r].started = delivery[r].started
              \/ delivery' = delivery
           /\ UNCHANGED <<handler, legacy, inbox, lock, inflight, posted, target, turn>>
<1>. DEFINE d == [delivery[r] EXCEPT !.status = "dead"]
<1>1. delivery[r] \in DeliveryRow
    BY DEF TypeOK
<1>2. /\ d \in DeliveryRow /\ d.status = "dead" /\ d.owner = delivery[r].owner
      /\ d.started = delivery[r].started
    BY <1>1 DEF DeliveryRow, DeliveryStatus
<1>3. /\ cont' = [cont EXCEPT ![r] = "cancelled"]
      /\ \/ /\ delivery[r].status \in {"pending", "claimed", "deferred"}
            /\ delivery' = [delivery EXCEPT ![r] = d]
         \/ delivery' = delivery
      /\ UNCHANGED <<handler, legacy, inbox, lock, inflight, posted, target, turn>>
    BY DEF cancelContinuation, session
<1>. HIDE DEF d
<1>. QED  BY <1>2, <1>3, RowReplaced

\* A crash frees everything, and prompts under way may be lost.
LEMMA CrashEffect ==
    ASSUME TypeOK, Crash
    PROVE  /\ handler' = [h \in Handlers |-> Idle] /\ lock' = "none"
           /\ DeliveriesFreed /\ InboxFreed /\ inflight' \subseteq inflight
           /\ queue' \in [Runs -> Nat]
           /\ UNCHANGED <<legacy, cont, posted, target, turn>>
<1>1. /\ handler' = [h \in Handlers |-> Idle] /\ lock' = "none"
      /\ inflight' \subseteq inflight /\ UNCHANGED <<legacy, cont, posted, target, turn>>
    BY DEF Crash, runs
<1>2. InboxFreed
    BY ForgottenFrees DEF Crash
<1>3. DeliveriesFreed
    <2>. DEFINE y(r) == [Forgotten(delivery, Handlers)[r] EXCEPT !.due = TRUE]
    <2>1. delivery' = [r \in Runs |-> y(r)]
        BY DEF Crash
    <2>2. ASSUME NEW r \in Runs
          PROVE  /\ y(r) \in DeliveryRow
                 /\ y(r).status = delivery[r].status
                 /\ y(r).started = delivery[r].started
                 /\ y(r).owner \in {delivery[r].owner, "none", "lost"}
                 /\ delivery[r].owner = "none" => y(r).owner = "none"
        <3>. DEFINE x == Forgotten(delivery, Handlers)[r]
        <3>1. delivery[r] \in DeliveryRow /\ "none" \notin Handlers
            BY ContinuationAssumption DEF TypeOK
        <3>2. x = IF delivery[r].owner \in Handlers
                  THEN [delivery[r] EXCEPT !.owner = IF delivery[r].lapsed THEN "none" ELSE "lost",
                                           !.lapsed = FALSE]
                  ELSE delivery[r]
            BY DEF Forgotten
        <3>3. /\ x \in DeliveryRow /\ x.status = delivery[r].status
              /\ x.started = delivery[r].started
              /\ x.owner \in {delivery[r].owner, "none", "lost"}
              /\ delivery[r].owner = "none" => x.owner = "none"
            <4>1. CASE delivery[r].owner \in Handlers
                <5>. DEFINE o == IF delivery[r].lapsed THEN "none" ELSE "lost"
                            z == [delivery[r] EXCEPT !.owner = o, !.lapsed = FALSE]
                <5>1. x = z
                    BY <3>2, <4>1
                <5>2. o \in {"none", "lost"}
                    OBVIOUS
                <5>. HIDE DEF o, x
                <5>3. /\ z \in DeliveryRow /\ z.status = delivery[r].status
                      /\ z.started = delivery[r].started /\ z.owner = o
                    BY <3>1, <5>2 DEF DeliveryRow
                <5>. QED  BY <3>1, <4>1, <5>1, <5>2, <5>3
            <4>2. CASE delivery[r].owner \notin Handlers
                <5>1. x = delivery[r]
                    BY <3>2, <4>2
                <5>. QED  BY <3>1, <5>1
            <4>. QED  BY <4>1, <4>2
        <3>. HIDE DEF x
        <3>4. LET w == [x EXCEPT !.due = TRUE]
              IN  /\ w \in DeliveryRow /\ w.status = x.status /\ w.started = x.started
                  /\ w.owner = x.owner
            BY <3>3 DEF DeliveryRow
        <3>. QED  BY <3>3, <3>4 DEF x
    <2>. HIDE DEF y
    <2>. QED  BY <2>1, <2>2 DEF DeliveriesFreed
<1>4. queue' \in [Runs -> Nat]
    <2>. DEFINE Back(r) == {h \in Handlers : ~At(h, "idle") /\ handler[h].run = r}
    <2>1. \A r \in Runs : Cardinality(Back(r)) \in Nat
        BY FS_Subset, FS_CardinalityType, ContinuationAssumption
    <2>2. queue' = [r \in Runs |-> queue[r] + Cardinality(Back(r))]
        BY DEF Crash
    <2>3. queue \in [Runs -> Nat]
        BY DEF TypeOK
    <2>. HIDE DEF Back
    <2>. QED  BY <2>1, <2>2, <2>3
<1>. QED  BY <1>1, <1>2, <1>3, <1>4

\* A lease that lapses frees its row.
LEMMA LeasesLapseEffect ==
    ASSUME TypeOK, NEW r \in Runs, LeasesLapse(r)
    PROVE  /\ DeliveriesFreed /\ InboxFreed
           /\ UNCHANGED <<handler, legacy, cont, lock, inflight, posted, target, turn>>
<1>. DEFINE d == [delivery[r] EXCEPT !.owner = "none"]
            i == [inbox[r] EXCEPT !.owner = "none"]
<1>1. /\ delivery[r] \in DeliveryRow /\ inbox[r] \in InboxRow
      /\ delivery \in [Runs -> DeliveryRow] /\ inbox \in [Runs -> InboxRow]
    BY DEF TypeOK
<1>2. /\ d \in DeliveryRow /\ d.status = delivery[r].status /\ d.owner = "none"
      /\ d.started = delivery[r].started
    BY <1>1 DEF DeliveryRow
<1>3. i \in InboxRow /\ i.status = inbox[r].status
    BY <1>1 DEF InboxRow
<1>4. /\ delivery' \in {delivery, [delivery EXCEPT ![r] = d]}
      /\ inbox' \in {inbox, [inbox EXCEPT ![r] = i]}
      /\ UNCHANGED <<handler, legacy, cont, lock, inflight, posted, target, turn>>
    BY DEF LeasesLapse, Freed, runs, session
<1>. HIDE DEF d, i
<1>5. DeliveriesFreed
    BY <1>1, <1>2, <1>4 DEF DeliveriesFreed
<1>6. InboxFreed
    BY <1>1, <1>3, <1>4 DEF InboxFreed
<1>. QED  BY <1>4, <1>5, <1>6

\* Time alone changes neither status nor owner.
LEMMA DispatchAgesEffect ==
    ASSUME TypeOK, NEW r \in Runs, DispatchAges(r)
    PROVE  /\ DeliveriesFreed
           /\ UNCHANGED <<handler, legacy, cont, inbox, lock, inflight, posted, target, turn>>
<1>. DEFINE d == [delivery[r] EXCEPT !.age = delivery[r].age + 1]
<1>1. /\ delivery[r] \in DeliveryRow /\ delivery \in [Runs -> DeliveryRow]
      /\ delivery[r].age < 2
    BY DEF TypeOK, DispatchAges
<1>2. delivery[r].age + 1 \in 0 .. 2
    BY <1>1 DEF DeliveryRow
<1>3. /\ d \in DeliveryRow /\ d.status = delivery[r].status /\ d.owner = delivery[r].owner
      /\ d.started = delivery[r].started
    BY <1>1, <1>2 DEF DeliveryRow
<1>4. /\ delivery' = [delivery EXCEPT ![r] = d]
      /\ UNCHANGED <<handler, legacy, cont, inbox, lock, inflight, posted, target, turn>>
    BY DEF DispatchAges, runs, session
<1>. HIDE DEF d
<1>5. DeliveriesFreed
    BY <1>1, <1>3, <1>4 DEF DeliveriesFreed
<1>. QED  BY <1>4, <1>5

-----------------------------------------------------------------------------
(* Every step keeps every part of the invariant. *)

\* What the provers need of the types.
LEMMA Basics ==
    ASSUME TypeOK
    PROVE  /\ DOMAIN cont = Runs /\ cont = [r \in Runs |-> cont[r]]
           /\ posted \in [Runs -> Nat]
           /\ target \in [Runs -> {"absent", "pending", "match", "collision"}]
           /\ turn \in [Runs -> {"none", "running", "done", "failed"}]
           /\ \A h \in Handlers : handler[h].pc # "idle" => handler[h].run \in Runs
BY DEF TypeOK

\* The types of what is not a row.
RestOK ==
    /\ legacy \subseteq LegacyRuns /\ ended \in Seq(Runs)
    /\ cont \in [Runs -> {"unbound", "parked", "wake_pending", "delivered",
                          "cancelled", "manual_review"}]
    /\ caller \in [Runs -> {"none", "finalizer", "binder"}]
    /\ outbox \in [Runs -> {"none", "pending", "published"}]
    /\ queue \in [Runs -> Nat] /\ lock \in Handlers \cup {"none"}
    /\ inflight \subseteq Runs /\ posted \in [Runs -> Nat]
    /\ target \in [Runs -> {"absent", "pending", "match", "collision"}]
    /\ turn \in [Runs -> {"none", "running", "done", "failed"}]
    /\ busy \in BOOLEAN /\ disturbed \in 0 .. MaxDisturbances

\* Every step keeps the types of what is not a row.
LEMMA RestStep ==
    ASSUME Inv, [Next]_vars
    PROVE  RestOK'
<1>0. TypeOK /\ RestOK
    BY DEF Inv, TypeOK, RestOK
<1>1. CASE UNCHANGED vars
    BY <1>1, <1>0 DEF RestOK, vars
<1>2. ASSUME NEW h \in Handlers, load_and_claim_delivery(h) PROVE RestOK'
    BY <1>2, <1>0, ContinuationAssumption DEF RestOK, load_and_claim_delivery, runs, rows,
       session, Disturb, Quiet, At
<1>3. ASSUME NEW h \in Handlers, mark_inbox_processed_owned(h) PROVE RestOK'
    BY <1>3, <1>0, ContinuationAssumption DEF RestOK, mark_inbox_processed_owned, runs,
       rows, session, Disturb, Quiet, SettleInbox, At
<1>4. ASSUME NEW h \in Handlers, defer_inbox_owned(h) PROVE RestOK'
    BY <1>4, <1>0, ContinuationAssumption DEF RestOK, defer_inbox_owned, runs, rows,
       session, Disturb, Quiet, SettleInbox, At
<1>5. ASSUME NEW h \in Handlers, acquire_session_lock(h) PROVE RestOK'
    BY <1>5, <1>0, ContinuationAssumption DEF RestOK, acquire_session_lock, runs, rows,
       session, Disturb, Quiet, At
<1>6. ASSUME NEW h \in Handlers, get_target_message(h) PROVE RestOK'
    BY <1>6, <1>0, ContinuationAssumption DEF RestOK, get_target_message, runs, rows,
       session, Disturb, Quiet, At
<1>7. ASSUME NEW h \in Handlers, continuation_turn_state(h, "turn") PROVE RestOK'
    BY <1>7, <1>0, ContinuationAssumption DEF RestOK, continuation_turn_state, runs, rows,
       session, Disturb, Quiet, At
<1>8. ASSUME NEW h \in Handlers, continuation_turn_state(h, "follow") PROVE RestOK'
    BY <1>8, <1>0, ContinuationAssumption DEF RestOK, continuation_turn_state, runs, rows,
       session, Disturb, Quiet, At
<1>9. ASSUME NEW h \in Handlers, session_is_busy(h) PROVE RestOK'
    BY <1>9, <1>0, ContinuationAssumption DEF RestOK, session_is_busy, runs, rows,
       session, Disturb, Quiet, At
<1>10. ASSUME NEW h \in Handlers, mark_dispatching(h) PROVE RestOK'
    BY <1>10, <1>0, ContinuationAssumption DEF RestOK, mark_dispatching, runs, rows,
       session, Disturb, Quiet, At
<1>11. ASSUME NEW h \in Handlers, spawn_terminal_prompt(h) PROVE RestOK'
    <2>1. handler[h].run \in Runs
        BY <1>11, <1>0, spawn_terminal_promptEffect
    <2>0. posted \in [Runs -> Nat] /\ inflight \subseteq Runs
        BY <1>0 DEF RestOK
    <2>2. posted' \in [Runs -> Nat] /\ inflight' \subseteq Runs
        BY <1>11, <2>0, <2>1 DEF spawn_terminal_prompt
    <2>. QED  BY <1>11, <1>0, <2>2 DEF RestOK, spawn_terminal_prompt, runs, rows
<1>12. ASSUME NEW h \in Handlers, verify_after_dispatch(h) PROVE RestOK'
    BY <1>12, <1>0, ContinuationAssumption DEF RestOK, verify_after_dispatch, runs, rows,
       session, Disturb, Quiet, At
<1>13. ASSUME NEW h \in Handlers, mark_accepted(h) PROVE RestOK'
    BY <1>13, <1>0, ContinuationAssumption DEF RestOK, mark_accepted, runs, rows, session,
       Disturb, Quiet, At
<1>14. ASSUME NEW h \in Handlers, defer_delivery(h) PROVE RestOK'
    BY <1>14, <1>0, ContinuationAssumption DEF RestOK, defer_delivery, runs, rows, session,
       Disturb, Quiet, At
<1>15. ASSUME NEW h \in Handlers, mark_observed(h) PROVE RestOK'
    BY <1>15, <1>0, Basics, ContinuationAssumption DEF RestOK, mark_observed, runs, rows,
       session, Disturb, Quiet, At, OfCurrent
<1>16. ASSUME NEW h \in Handlers, release_session_lock(h) PROVE RestOK'
    BY <1>16, <1>0, ContinuationAssumption DEF RestOK, release_session_lock, runs, rows,
       session, Disturb, Quiet, At
<1>17. ASSUME NEW h \in Handlers, mark_delivery_ambiguous(h) PROVE RestOK'
    BY <1>17, <1>0, Basics, ContinuationAssumption DEF RestOK, mark_delivery_ambiguous,
       runs, rows, session, Disturb, Quiet, At, OfCurrent
<1>18. ASSUME NEW h \in Handlers, mark_delivery_dead(h) PROVE RestOK'
    BY <1>18, <1>0, ContinuationAssumption DEF RestOK, mark_delivery_dead, runs, rows,
       session, Disturb, Quiet, At
<1>19. ASSUME NEW h \in Handlers, release_claim_after_error(h) PROVE RestOK'
    BY <1>19, <1>0, ContinuationAssumption DEF RestOK, release_claim_after_error, runs,
       rows, session, Disturb, Quiet, At
<1>20. ASSUME NEW h \in Handlers, Nack(h) PROVE RestOK'
    BY <1>20, <1>0, Basics, ContinuationAssumption DEF RestOK, Nack, runs, rows, session,
       Disturb, Quiet, At
<1>21. ASSUME NEW h \in Handlers, Redeliver(h) PROVE RestOK'
    <2>1. handler[h].run \in Runs
        BY <1>21, <1>0, RunOf DEF Redeliver
    <2>2. queue' \in [Runs -> Nat]
        BY <1>21, <1>0, <2>1 DEF RestOK, Redeliver
    <2>3. disturbed' \in 0 .. MaxDisturbances
        BY <1>21, <1>0, ContinuationAssumption DEF RestOK, Redeliver, Disturb
    <2>. QED  BY <1>21, <1>0, <2>2, <2>3 DEF RestOK, Redeliver, runs, session
<1>22. ASSUME NEW h \in Handlers, Stall(h) PROVE RestOK'
    <2>1. handler[h].run \in Runs
        BY <1>22, <1>0, RunOf DEF Stall
    <2>2. queue' \in [Runs -> Nat]
        BY <1>22, <1>0, <2>1 DEF RestOK, Stall
    <2>3. disturbed' \in 0 .. MaxDisturbances
        BY <1>22, <1>0, ContinuationAssumption DEF RestOK, Stall, Disturb
    <2>. QED  BY <1>22, <1>0, <2>2, <2>3 DEF RestOK, Stall, runs, session
<1>23. ASSUME NEW h \in Handlers, HttpFails(h) PROVE RestOK'
    BY <1>23, <1>0, ContinuationAssumption DEF RestOK, HttpFails, runs, rows, session,
       Disturb, Quiet
<1>24. ASSUME NEW h \in Handlers, DatabaseFails(h) PROVE RestOK'
    BY <1>24, <1>0, ContinuationAssumption DEF RestOK, DatabaseFails, runs, rows, session,
       Disturb, Quiet
<1>25. ASSUME NEW h \in Handlers, NEW r \in Runs, claim_inbox(h, r) PROVE RestOK'
    BY <1>25, <1>0, ContinuationAssumption DEF RestOK, claim_inbox, runs, rows, session,
       Disturb, Quiet, At
<1>26. ASSUME NEW r \in Runs, EndRun(r) PROVE RestOK'
    BY <1>26, <1>0, ContinuationAssumption DEF RestOK, EndRun, runs, rows, session,
       Disturb, Quiet
<1>27. ASSUME NEW r \in Runs, BindContinuation(r) PROVE RestOK'
    BY <1>27, <1>0, ContinuationAssumption DEF RestOK, BindContinuation, runs, rows,
       session, Disturb, Quiet
<1>28. ASSUME NEW r \in Runs, registerContinuation(r) PROVE RestOK'
    BY <1>28, <1>0, ContinuationAssumption DEF RestOK, registerContinuation, runs, rows,
       session, Disturb, Quiet
<1>29. ASSUME NEW r \in Runs, EndWhileBinding(r) PROVE RestOK'
    BY <1>29, <1>0, ContinuationAssumption DEF RestOK, EndWhileBinding, runs, rows,
       session, Disturb, Quiet
<1>30. ASSUME NEW r \in Runs, materializeContinuationWake(r) PROVE RestOK'
    BY <1>30, <1>0, ContinuationAssumption DEF RestOK, materializeContinuationWake, runs,
       rows, session, Disturb, Quiet, Wake
<1>31. ASSUME NEW r \in Runs, repairTerminalContinuationWakes(r) PROVE RestOK'
    BY <1>31, <1>0, ContinuationAssumption DEF RestOK, repairTerminalContinuationWakes,
       runs, rows, session, Disturb, Quiet, Wake
<1>32. ASSUME NEW r \in Runs, cancelContinuation(r) PROVE RestOK'
    BY <1>32, <1>0, ContinuationAssumption DEF RestOK, cancelContinuation, runs, rows,
       session, Disturb, Quiet
<1>33. ASSUME NEW r \in Runs, WakeLost(r) PROVE RestOK'
    BY <1>33, <1>0, ContinuationAssumption DEF RestOK, WakeLost, runs, rows, session,
       Disturb, Quiet
<1>34. ASSUME NEW r \in Runs, Publish(r) PROVE RestOK'
    <2>0. queue \in [Runs -> Nat] /\ outbox \in [Runs -> {"none", "pending", "published"}]
        BY <1>0 DEF RestOK
    <2>1. queue' \in [Runs -> Nat] /\ outbox' \in [Runs -> {"none", "pending", "published"}]
        <3>1. queue' \in [Runs -> Nat]
            BY <1>34, <2>0 DEF Publish
        <3>2. outbox' \in [Runs -> {"none", "pending", "published"}]
            BY <1>34, <2>0 DEF Publish
        <3>. QED  BY <3>1, <3>2
    <2>2. disturbed' \in 0 .. MaxDisturbances
        BY <1>34, <1>0, ContinuationAssumption DEF RestOK, Publish, Disturb, Quiet
    <2>. QED  BY <1>34, <1>0, <2>1, <2>2 DEF RestOK, Publish, runs, session
<1>35. ASSUME NEW r \in Runs, LeasesLapse(r) PROVE RestOK'
    BY <1>35, <1>0, ContinuationAssumption DEF RestOK, LeasesLapse, runs, rows, session,
       Disturb, Quiet
<1>36. ASSUME NEW r \in Runs, DispatchAges(r) PROVE RestOK'
    BY <1>36, <1>0, ContinuationAssumption DEF RestOK, DispatchAges, runs, rows, session,
       Disturb, Quiet
<1>37. ASSUME NEW r \in Runs, PromptArrives(r) PROVE RestOK'
    BY <1>37, <1>0, ContinuationAssumption DEF RestOK, PromptArrives, runs, rows, session,
       Disturb, Quiet
<1>38. ASSUME NEW r \in Runs, TurnStarts(r) PROVE RestOK'
    BY <1>38, <1>0, ContinuationAssumption DEF RestOK, TurnStarts, runs, rows, session,
       Disturb, Quiet
<1>39. ASSUME NEW r \in Runs, TurnEnds(r) PROVE RestOK'
    BY <1>39, <1>0, ContinuationAssumption DEF RestOK, TurnEnds, runs, rows, session,
       Disturb, Quiet
<1>40. CASE Crash
    <2>1. disturbed' \in 0 .. MaxDisturbances
        BY <1>40, <1>0, ContinuationAssumption DEF RestOK, Crash, Disturb
    <2>2. UNCHANGED <<ended, caller, outbox, busy>>
        BY <1>40 DEF Crash, runs
    <2>. QED  BY <1>40, <1>0, <2>1, <2>2, CrashEffect DEF RestOK
<1>41. CASE OwnTurnEnds
    BY <1>41, <1>0, ContinuationAssumption DEF RestOK, OwnTurnEnds, runs, rows, session,
       Disturb, Quiet
<1>. QED  BY <1>1, <1>2, <1>3, <1>4, <1>5, <1>6, <1>7, <1>8, <1>9, <1>10, <1>11, <1>12,
          <1>13, <1>14, <1>15, <1>16, <1>17, <1>18, <1>19, <1>20, <1>21, <1>22, <1>23,
          <1>24, <1>25, <1>26, <1>27, <1>28, <1>29, <1>30, <1>31, <1>32, <1>33, <1>34,
          <1>35, <1>36, <1>37, <1>38, <1>39, <1>40, <1>41 DEF Next, HandlerStep,
          ControlStep, WorldStep

\* The types of the rows, and what a handler's position says of its row.
RowsOK ==
    /\ delivery \in [Runs -> DeliveryRow] /\ inbox \in [Runs -> InboxRow]
    /\ handler \in [Handlers -> HandlerRow]
    /\ \A h \in Handlers :
         /\ handler[h].pc # "idle" => handler[h].run \in Runs
         /\ handler[h].pc = "leave" => handler[h].next \in Outcome
         /\ handler[h].pc = "defer" =>
              handler[h].next \in {"deferred", "dispatching", "accepted"}

\* Every step keeps the types of the rows.
LEMMA RowsStep ==
    ASSUME Inv, [Next]_vars
    PROVE  RowsOK'
<1>0. TypeOK /\ RowsOK
    BY DEF Inv, TypeOK, RowsOK
<1>1. CASE UNCHANGED vars
    BY <1>1, <1>0 DEF RowsOK, vars
<1>2. ASSUME NEW h \in Handlers, load_and_claim_delivery(h) PROVE RowsOK'
    BY <1>2, <1>0, load_and_claim_deliveryEffect, VerdictFacts DEF RowsOK, Moved, Rested,
       DeliveryChanged, InboxChanged, DeliveriesFreed, InboxFreed, Outcome
<1>3. ASSUME NEW h \in Handlers, mark_inbox_processed_owned(h) PROVE RowsOK'
    BY <1>3, <1>0, SettleInboxEffect DEF RowsOK, Moved, Rested, DeliveryChanged,
       InboxChanged, DeliveriesFreed, InboxFreed, mark_inbox_processed_owned, Outcome
<1>4. ASSUME NEW h \in Handlers, defer_inbox_owned(h) PROVE RowsOK'
    BY <1>4, <1>0, SettleInboxEffect DEF RowsOK, Moved, Rested, DeliveryChanged,
       InboxChanged, DeliveriesFreed, InboxFreed, defer_inbox_owned, Outcome
<1>5. ASSUME NEW h \in Handlers, acquire_session_lock(h) PROVE RowsOK'
    BY <1>5, <1>0, acquire_session_lockEffect DEF RowsOK, Moved, Rested, DeliveryChanged,
       InboxChanged, DeliveriesFreed, InboxFreed, Outcome
<1>6. ASSUME NEW h \in Handlers, get_target_message(h) PROVE RowsOK'
    BY <1>6, <1>0, get_target_messageEffect DEF RowsOK, Moved, Rested, DeliveryChanged,
       InboxChanged, DeliveriesFreed, InboxFreed, Outcome
<1>7. ASSUME NEW h \in Handlers, continuation_turn_state(h, "turn") PROVE RowsOK'
    BY <1>7, <1>0, turnEffect DEF RowsOK, Moved, Rested, DeliveryChanged, InboxChanged,
       DeliveriesFreed, InboxFreed, Outcome
<1>8. ASSUME NEW h \in Handlers, continuation_turn_state(h, "follow") PROVE RowsOK'
    BY <1>8, <1>0, followEffect DEF RowsOK, Moved, Rested, DeliveryChanged, InboxChanged,
       DeliveriesFreed, InboxFreed, Outcome
<1>9. ASSUME NEW h \in Handlers, session_is_busy(h) PROVE RowsOK'
    BY <1>9, <1>0, session_is_busyEffect DEF RowsOK, Moved, Rested, DeliveryChanged,
       InboxChanged, DeliveriesFreed, InboxFreed, Outcome
<1>10. ASSUME NEW h \in Handlers, mark_dispatching(h) PROVE RowsOK'
    BY <1>10, <1>0, mark_dispatchingEffect DEF RowsOK, Moved, Rested, DeliveryChanged,
       InboxChanged, DeliveriesFreed, InboxFreed, Outcome
<1>11. ASSUME NEW h \in Handlers, spawn_terminal_prompt(h) PROVE RowsOK'
    BY <1>11, <1>0, spawn_terminal_promptEffect DEF RowsOK, Moved, Rested, DeliveryChanged,
       InboxChanged, DeliveriesFreed, InboxFreed, Outcome
<1>12. ASSUME NEW h \in Handlers, verify_after_dispatch(h) PROVE RowsOK'
    BY <1>12, <1>0, verify_after_dispatchEffect DEF RowsOK, Moved, Rested, DeliveryChanged,
       InboxChanged, DeliveriesFreed, InboxFreed, Outcome
<1>13. ASSUME NEW h \in Handlers, mark_accepted(h) PROVE RowsOK'
    BY <1>13, <1>0, mark_acceptedEffect DEF RowsOK, Moved, Rested, DeliveryChanged,
       InboxChanged, DeliveriesFreed, InboxFreed, Outcome
<1>14. ASSUME NEW h \in Handlers, defer_delivery(h) PROVE RowsOK'
    BY <1>14, <1>0, defer_deliveryEffect DEF RowsOK, Moved, Rested, DeliveryChanged,
       InboxChanged, DeliveriesFreed, InboxFreed, Outcome
<1>15. ASSUME NEW h \in Handlers, mark_observed(h) PROVE RowsOK'
    BY <1>15, <1>0, mark_observedEffect DEF RowsOK, Moved, Rested, DeliveryChanged,
       InboxChanged, DeliveriesFreed, InboxFreed, Outcome
<1>16. ASSUME NEW h \in Handlers, release_session_lock(h) PROVE RowsOK'
    BY <1>16, <1>0, release_session_lockEffect DEF RowsOK, Moved, Rested, DeliveryChanged,
       InboxChanged, DeliveriesFreed, InboxFreed, Outcome
<1>17. ASSUME NEW h \in Handlers, mark_delivery_ambiguous(h) PROVE RowsOK'
    BY <1>17, <1>0, mark_delivery_ambiguousEffect DEF RowsOK, Moved, Rested,
       DeliveryChanged, InboxChanged, DeliveriesFreed, InboxFreed, Outcome
<1>18. ASSUME NEW h \in Handlers, mark_delivery_dead(h) PROVE RowsOK'
    BY <1>18, <1>0, mark_delivery_deadEffect DEF RowsOK, Moved, Rested, DeliveryChanged,
       InboxChanged, DeliveriesFreed, InboxFreed, Outcome
<1>19. ASSUME NEW h \in Handlers, release_claim_after_error(h) PROVE RowsOK'
    BY <1>19, <1>0, release_claim_after_errorEffect DEF RowsOK, Moved, Rested,
       DeliveryChanged, InboxChanged, DeliveriesFreed, InboxFreed, Outcome
<1>20. ASSUME NEW h \in Handlers, Nack(h) PROVE RowsOK'
    BY <1>20, <1>0, NackEffect DEF RowsOK, Moved, Rested, DeliveryChanged, InboxChanged,
       DeliveriesFreed, InboxFreed, Outcome
<1>21. ASSUME NEW h \in Handlers, Redeliver(h) PROVE RowsOK'
    BY <1>21, <1>0 DEF RowsOK, Redeliver, runs, rows, session
<1>22. ASSUME NEW h \in Handlers, Stall(h) PROVE RowsOK'
    BY <1>22, <1>0, StallEffect DEF RowsOK, Moved, Rested, DeliveryChanged, InboxChanged,
       DeliveriesFreed, InboxFreed, Outcome
<1>23. ASSUME NEW h \in Handlers, HttpFails(h) PROVE RowsOK'
    BY <1>23, <1>0, HttpFailsEffect DEF RowsOK, Moved, Rested, DeliveryChanged,
       InboxChanged, DeliveriesFreed, InboxFreed, Outcome
<1>24. ASSUME NEW h \in Handlers, DatabaseFails(h) PROVE RowsOK'
    BY <1>24, <1>0, DatabaseFailsEffect DEF RowsOK, Moved, Rested, DeliveryChanged,
       InboxChanged, DeliveriesFreed, InboxFreed, Outcome
<1>25. ASSUME NEW h \in Handlers, NEW r \in Runs, claim_inbox(h, r) PROVE RowsOK'
    BY <1>25, <1>0, claim_inboxEffect DEF RowsOK, Moved, Rested, DeliveryChanged,
       InboxChanged, DeliveriesFreed, InboxFreed, Outcome
<1>26. ASSUME NEW r \in Runs, EndRun(r) PROVE RowsOK'
    BY <1>26, <1>0 DEF RowsOK, EndRun, runs, rows, session
<1>27. ASSUME NEW r \in Runs, BindContinuation(r) PROVE RowsOK'
    BY <1>27, <1>0 DEF RowsOK, BindContinuation, runs, rows, session
<1>28. ASSUME NEW r \in Runs, registerContinuation(r) PROVE RowsOK'
    BY <1>28, <1>0 DEF RowsOK, registerContinuation, runs, rows, session
<1>29. ASSUME NEW r \in Runs, EndWhileBinding(r) PROVE RowsOK'
    BY <1>29, <1>0 DEF RowsOK, EndWhileBinding, runs, rows, session
<1>30. ASSUME NEW r \in Runs, materializeContinuationWake(r) PROVE RowsOK'
    BY <1>30, <1>0, WakeEffect DEF RowsOK, Moved, Rested, DeliveryChanged, InboxChanged,
       DeliveriesFreed, InboxFreed, materializeContinuationWake, session, Outcome
<1>31. ASSUME NEW r \in Runs, repairTerminalContinuationWakes(r) PROVE RowsOK'
    BY <1>31, <1>0, WakeEffect DEF RowsOK, Moved, Rested, DeliveryChanged, InboxChanged,
       DeliveriesFreed, InboxFreed, repairTerminalContinuationWakes, session, Outcome
<1>32. ASSUME NEW r \in Runs, cancelContinuation(r) PROVE RowsOK'
    BY <1>32, <1>0, cancelContinuationEffect DEF RowsOK, Moved, Rested, DeliveryChanged,
       InboxChanged, DeliveriesFreed, InboxFreed, Outcome
<1>33. ASSUME NEW r \in Runs, WakeLost(r) PROVE RowsOK'
    BY <1>33, <1>0 DEF RowsOK, WakeLost, runs, rows, session
<1>34. ASSUME NEW r \in Runs, Publish(r) PROVE RowsOK'
    BY <1>34, <1>0 DEF RowsOK, Publish, runs, rows, session
<1>35. ASSUME NEW r \in Runs, LeasesLapse(r) PROVE RowsOK'
    BY <1>35, <1>0, LeasesLapseEffect DEF RowsOK, Moved, Rested, DeliveryChanged,
       InboxChanged, DeliveriesFreed, InboxFreed, Outcome
<1>36. ASSUME NEW r \in Runs, DispatchAges(r) PROVE RowsOK'
    BY <1>36, <1>0, DispatchAgesEffect DEF RowsOK, Moved, Rested, DeliveryChanged,
       InboxChanged, DeliveriesFreed, InboxFreed, Outcome
<1>37. ASSUME NEW r \in Runs, PromptArrives(r) PROVE RowsOK'
    BY <1>37, <1>0 DEF RowsOK, PromptArrives, runs, rows, session
<1>38. ASSUME NEW r \in Runs, TurnStarts(r) PROVE RowsOK'
    BY <1>38, <1>0 DEF RowsOK, TurnStarts, runs, rows, session
<1>39. ASSUME NEW r \in Runs, TurnEnds(r) PROVE RowsOK'
    BY <1>39, <1>0 DEF RowsOK, TurnEnds, runs, rows, session
<1>40. CASE Crash
    BY <1>40, <1>0, CrashEffect, IdleRow DEF RowsOK, Moved, Rested, DeliveryChanged,
       InboxChanged, DeliveriesFreed, InboxFreed, Outcome
<1>41. CASE OwnTurnEnds
    BY <1>41, <1>0 DEF RowsOK, OwnTurnEnds, runs, rows, session
<1>. QED  BY <1>1, <1>2, <1>3, <1>4, <1>5, <1>6, <1>7, <1>8, <1>9, <1>10, <1>11, <1>12,
          <1>13, <1>14, <1>15, <1>16, <1>17, <1>18, <1>19, <1>20, <1>21, <1>22, <1>23,
          <1>24, <1>25, <1>26, <1>27, <1>28, <1>29, <1>30, <1>31, <1>32, <1>33, <1>34,
          <1>35, <1>36, <1>37, <1>38, <1>39, <1>40, <1>41 DEF Next, HandlerStep,
          ControlStep, WorldStep

\* Every step keeps the types.
LEMMA TypeStep ==
    ASSUME Inv, [Next]_vars
    PROVE  TypeOK'
BY RestStep, RowsStep DEF TypeOK, RestOK, RowsOK

\* The lock is taken before the session is touched, and lost with the handler.
LEMMA LockStep ==
    ASSUME Inv, [Next]_vars
    PROVE  LockInv'
<1>0. TypeOK
    BY DEF Inv
<1>1. CASE UNCHANGED vars
    BY <1>1 DEF Inv, LockInv, UnderLock, vars
<1>2. ASSUME NEW h \in Handlers, load_and_claim_delivery(h) PROVE LockInv'
    <2>1. /\ handler'[h].pc = "lock" => handler'[h].run \notin legacy
          /\ handler'[h].pc \notin UnderLock
        BY <1>2, <1>0, load_and_claim_deliveryEffect, VerdictFacts DEF UnderLock
    <2>. QED  BY <1>2, <2>1, <1>0, load_and_claim_deliveryEffect DEF Inv, LockInv
<1>3. ASSUME NEW h \in Handlers, mark_inbox_processed_owned(h) PROVE LockInv'
    BY <1>3, <1>0, ContinuationAssumption, SettleInboxEffect DEF Inv, LockInv,
       UnderLock, Moved, Rested, DeliveryChanged, InboxChanged, DeliveriesFreed,
       InboxFreed, mark_inbox_processed_owned
<1>4. ASSUME NEW h \in Handlers, defer_inbox_owned(h) PROVE LockInv'
    BY <1>4, <1>0, ContinuationAssumption, SettleInboxEffect DEF Inv, LockInv,
       UnderLock, Moved, Rested, DeliveryChanged, InboxChanged, DeliveriesFreed,
       InboxFreed, defer_inbox_owned
<1>5. ASSUME NEW h \in Handlers, acquire_session_lock(h) PROVE LockInv'
    BY <1>5, <1>0, ContinuationAssumption, acquire_session_lockEffect DEF Inv,
       LockInv, UnderLock, Moved, Rested, DeliveryChanged, InboxChanged,
       DeliveriesFreed, InboxFreed
<1>6. ASSUME NEW h \in Handlers, get_target_message(h) PROVE LockInv'
    BY <1>6, <1>0, ContinuationAssumption, get_target_messageEffect DEF Inv, LockInv,
       UnderLock, Moved, Rested, DeliveryChanged, InboxChanged, DeliveriesFreed,
       InboxFreed
<1>7. ASSUME NEW h \in Handlers, continuation_turn_state(h, "turn") PROVE LockInv'
    BY <1>7, <1>0, ContinuationAssumption, turnEffect DEF Inv, LockInv, UnderLock,
       Moved, Rested, DeliveryChanged, InboxChanged, DeliveriesFreed, InboxFreed
<1>8. ASSUME NEW h \in Handlers, continuation_turn_state(h, "follow") PROVE LockInv'
    BY <1>8, <1>0, ContinuationAssumption, followEffect DEF Inv, LockInv, UnderLock,
       Moved, Rested, DeliveryChanged, InboxChanged, DeliveriesFreed, InboxFreed
<1>9. ASSUME NEW h \in Handlers, session_is_busy(h) PROVE LockInv'
    BY <1>9, <1>0, ContinuationAssumption, session_is_busyEffect DEF Inv, LockInv,
       UnderLock, Moved, Rested, DeliveryChanged, InboxChanged, DeliveriesFreed,
       InboxFreed
<1>10. ASSUME NEW h \in Handlers, mark_dispatching(h) PROVE LockInv'
    BY <1>10, <1>0, ContinuationAssumption, mark_dispatchingEffect DEF Inv, LockInv,
       UnderLock, Moved, Rested, DeliveryChanged, InboxChanged, DeliveriesFreed,
       InboxFreed
<1>11. ASSUME NEW h \in Handlers, spawn_terminal_prompt(h) PROVE LockInv'
    BY <1>11, <1>0, ContinuationAssumption, spawn_terminal_promptEffect DEF Inv,
       LockInv, UnderLock, Moved, Rested, DeliveryChanged, InboxChanged,
       DeliveriesFreed, InboxFreed
<1>12. ASSUME NEW h \in Handlers, verify_after_dispatch(h) PROVE LockInv'
    BY <1>12, <1>0, ContinuationAssumption, verify_after_dispatchEffect DEF Inv,
       LockInv, UnderLock, Moved, Rested, DeliveryChanged, InboxChanged,
       DeliveriesFreed, InboxFreed
<1>13. ASSUME NEW h \in Handlers, mark_accepted(h) PROVE LockInv'
    BY <1>13, <1>0, ContinuationAssumption, mark_acceptedEffect DEF Inv, LockInv,
       UnderLock, Moved, Rested, DeliveryChanged, InboxChanged, DeliveriesFreed,
       InboxFreed
<1>14. ASSUME NEW h \in Handlers, defer_delivery(h) PROVE LockInv'
    BY <1>14, <1>0, ContinuationAssumption, defer_deliveryEffect DEF Inv, LockInv,
       UnderLock, Moved, Rested, DeliveryChanged, InboxChanged, DeliveriesFreed,
       InboxFreed
<1>15. ASSUME NEW h \in Handlers, mark_observed(h) PROVE LockInv'
    BY <1>15, <1>0, ContinuationAssumption, mark_observedEffect DEF Inv, LockInv,
       UnderLock, Moved, Rested, DeliveryChanged, InboxChanged, DeliveriesFreed,
       InboxFreed
<1>16. ASSUME NEW h \in Handlers, release_session_lock(h) PROVE LockInv'
    BY <1>16, <1>0, ContinuationAssumption, release_session_lockEffect DEF Inv,
       LockInv, UnderLock, Moved, Rested, DeliveryChanged, InboxChanged,
       DeliveriesFreed, InboxFreed
<1>17. ASSUME NEW h \in Handlers, mark_delivery_ambiguous(h) PROVE LockInv'
    BY <1>17, <1>0, ContinuationAssumption, mark_delivery_ambiguousEffect DEF Inv,
       LockInv, UnderLock, Moved, Rested, DeliveryChanged, InboxChanged,
       DeliveriesFreed, InboxFreed
<1>18. ASSUME NEW h \in Handlers, mark_delivery_dead(h) PROVE LockInv'
    BY <1>18, <1>0, ContinuationAssumption, mark_delivery_deadEffect DEF Inv, LockInv,
       UnderLock, Moved, Rested, DeliveryChanged, InboxChanged, DeliveriesFreed,
       InboxFreed
<1>19. ASSUME NEW h \in Handlers, release_claim_after_error(h) PROVE LockInv'
    BY <1>19, <1>0, ContinuationAssumption, release_claim_after_errorEffect DEF Inv,
       LockInv, UnderLock, Moved, Rested, DeliveryChanged, InboxChanged,
       DeliveriesFreed, InboxFreed
<1>20. ASSUME NEW h \in Handlers, Nack(h) PROVE LockInv'
    BY <1>20, <1>0, ContinuationAssumption, NackEffect DEF Inv, LockInv, UnderLock,
       Moved, Rested, DeliveryChanged, InboxChanged, DeliveriesFreed, InboxFreed
<1>21. ASSUME NEW h \in Handlers, Redeliver(h) PROVE LockInv'
    BY <1>21, <1>0, ContinuationAssumption DEF Inv, LockInv, UnderLock, Redeliver,
       runs, rows, session, Disturb
<1>22. ASSUME NEW h \in Handlers, Stall(h) PROVE LockInv'
    BY <1>22, <1>0, ContinuationAssumption, StallEffect DEF Inv, LockInv, UnderLock,
       Moved, Rested, DeliveryChanged, InboxChanged, DeliveriesFreed, InboxFreed
<1>23. ASSUME NEW h \in Handlers, HttpFails(h) PROVE LockInv'
    BY <1>23, <1>0, ContinuationAssumption, HttpFailsEffect DEF Inv, LockInv,
       UnderLock, Moved, Rested, DeliveryChanged, InboxChanged, DeliveriesFreed,
       InboxFreed
<1>24. ASSUME NEW h \in Handlers, DatabaseFails(h) PROVE LockInv'
    BY <1>24, <1>0, ContinuationAssumption, DatabaseFailsEffect DEF Inv, LockInv,
       UnderLock, Moved, Rested, DeliveryChanged, InboxChanged, DeliveriesFreed,
       InboxFreed
<1>25. ASSUME NEW h \in Handlers, NEW r \in Runs, claim_inbox(h, r) PROVE LockInv'
    BY <1>25, <1>0, ContinuationAssumption, claim_inboxEffect DEF Inv, LockInv,
       UnderLock, Moved, Rested, DeliveryChanged, InboxChanged, DeliveriesFreed,
       InboxFreed
<1>26. ASSUME NEW r \in Runs, EndRun(r) PROVE LockInv'
    BY <1>26, <1>0, ContinuationAssumption DEF Inv, LockInv, UnderLock, EndRun, runs,
       rows, session
<1>27. ASSUME NEW r \in Runs, BindContinuation(r) PROVE LockInv'
    BY <1>27, <1>0, ContinuationAssumption DEF Inv, LockInv, UnderLock,
       BindContinuation, runs, rows, session
<1>28. ASSUME NEW r \in Runs, registerContinuation(r) PROVE LockInv'
    BY <1>28, <1>0, ContinuationAssumption DEF Inv, LockInv, UnderLock,
       registerContinuation, runs, rows, session
<1>29. ASSUME NEW r \in Runs, EndWhileBinding(r) PROVE LockInv'
    BY <1>29, <1>0, ContinuationAssumption DEF Inv, LockInv, UnderLock,
       EndWhileBinding, runs, rows, session
<1>30. ASSUME NEW r \in Runs, materializeContinuationWake(r) PROVE LockInv'
    BY <1>30, <1>0, ContinuationAssumption, WakeEffect DEF Inv, LockInv, UnderLock,
       Moved, Rested, DeliveryChanged, InboxChanged, DeliveriesFreed, InboxFreed,
       materializeContinuationWake, session
<1>31. ASSUME NEW r \in Runs, repairTerminalContinuationWakes(r) PROVE LockInv'
    BY <1>31, <1>0, ContinuationAssumption, WakeEffect DEF Inv, LockInv, UnderLock,
       Moved, Rested, DeliveryChanged, InboxChanged, DeliveriesFreed, InboxFreed,
       repairTerminalContinuationWakes, session
<1>32. ASSUME NEW r \in Runs, cancelContinuation(r) PROVE LockInv'
    BY <1>32, <1>0, ContinuationAssumption, cancelContinuationEffect DEF Inv, LockInv,
       UnderLock, Moved, Rested, DeliveryChanged, InboxChanged, DeliveriesFreed,
       InboxFreed
<1>33. ASSUME NEW r \in Runs, WakeLost(r) PROVE LockInv'
    BY <1>33, <1>0, ContinuationAssumption DEF Inv, LockInv, UnderLock, WakeLost, runs,
       rows, session, Disturb
<1>34. ASSUME NEW r \in Runs, Publish(r) PROVE LockInv'
    BY <1>34, <1>0, ContinuationAssumption DEF Inv, LockInv, UnderLock, Publish, runs,
       rows, session, Disturb, Quiet
<1>35. ASSUME NEW r \in Runs, LeasesLapse(r) PROVE LockInv'
    BY <1>35, <1>0, ContinuationAssumption, LeasesLapseEffect DEF Inv, LockInv,
       UnderLock, Moved, Rested, DeliveryChanged, InboxChanged, DeliveriesFreed,
       InboxFreed
<1>36. ASSUME NEW r \in Runs, DispatchAges(r) PROVE LockInv'
    BY <1>36, <1>0, ContinuationAssumption, DispatchAgesEffect DEF Inv, LockInv,
       UnderLock, Moved, Rested, DeliveryChanged, InboxChanged, DeliveriesFreed,
       InboxFreed
<1>37. ASSUME NEW r \in Runs, PromptArrives(r) PROVE LockInv'
    BY <1>37, <1>0, ContinuationAssumption DEF Inv, LockInv, UnderLock, PromptArrives,
       runs, rows, session, Disturb, Quiet
<1>38. ASSUME NEW r \in Runs, TurnStarts(r) PROVE LockInv'
    BY <1>38, <1>0, ContinuationAssumption DEF Inv, LockInv, UnderLock, TurnStarts,
       runs, rows, session
<1>39. ASSUME NEW r \in Runs, TurnEnds(r) PROVE LockInv'
    BY <1>39, <1>0, ContinuationAssumption DEF Inv, LockInv, UnderLock, TurnEnds, runs,
       rows, session
<1>40. CASE Crash
    BY <1>40, <1>0, ContinuationAssumption, CrashEffect DEF Inv, LockInv, UnderLock,
       Moved, Rested, DeliveryChanged, InboxChanged, DeliveriesFreed, InboxFreed, Idle
<1>41. CASE OwnTurnEnds
    BY <1>41, <1>0, ContinuationAssumption DEF Inv, LockInv, UnderLock, OwnTurnEnds,
       runs, rows, session
<1>. QED  BY <1>1, <1>2, <1>3, <1>4, <1>5, <1>6, <1>7, <1>8, <1>9, <1>10, <1>11, <1>12,
          <1>13, <1>14, <1>15, <1>16, <1>17, <1>18, <1>19, <1>20, <1>21, <1>22, <1>23,
          <1>24, <1>25, <1>26, <1>27, <1>28, <1>29, <1>30, <1>31, <1>32, <1>33, <1>34,
          <1>35, <1>36, <1>37, <1>38, <1>39, <1>40, <1>41 DEF Next, HandlerStep,
          ControlStep, WorldStep

\* A row a handler owns changes only by its hand.
LEMMA ReadStep ==
    ASSUME Inv, [Next]_vars
    PROVE  ReadInv'
<1>0. TypeOK
    BY DEF Inv
<1>1. CASE UNCHANGED vars
    BY <1>1 DEF Inv, ReadInv, vars
<1>2. ASSUME NEW h \in Handlers, load_and_claim_delivery(h) PROVE ReadInv'
    BY <1>2, <1>0, Basics, ContinuationAssumption, load_and_claim_deliveryEffect,
       VerdictFacts DEF Inv, ReadInv, Moved, Rested, DeliveryChanged, InboxChanged,
       DeliveriesFreed, InboxFreed
<1>3. ASSUME NEW h \in Handlers, mark_inbox_processed_owned(h) PROVE ReadInv'
    BY <1>3, <1>0, Basics, ContinuationAssumption, SettleInboxEffect DEF Inv, ReadInv,
       Moved, Rested, DeliveryChanged, InboxChanged, DeliveriesFreed, InboxFreed,
       mark_inbox_processed_owned
<1>4. ASSUME NEW h \in Handlers, defer_inbox_owned(h) PROVE ReadInv'
    BY <1>4, <1>0, Basics, ContinuationAssumption, SettleInboxEffect DEF Inv, ReadInv,
       Moved, Rested, DeliveryChanged, InboxChanged, DeliveriesFreed, InboxFreed,
       defer_inbox_owned
<1>5. ASSUME NEW h \in Handlers, acquire_session_lock(h) PROVE ReadInv'
    BY <1>5, <1>0, Basics, ContinuationAssumption, acquire_session_lockEffect DEF Inv,
       ReadInv, Moved, Rested, DeliveryChanged, InboxChanged, DeliveriesFreed,
       InboxFreed
<1>6. ASSUME NEW h \in Handlers, get_target_message(h) PROVE ReadInv'
    BY <1>6, <1>0, Basics, ContinuationAssumption, get_target_messageEffect DEF Inv,
       ReadInv, Moved, Rested, DeliveryChanged, InboxChanged, DeliveriesFreed,
       InboxFreed
<1>7. ASSUME NEW h \in Handlers, continuation_turn_state(h, "turn") PROVE ReadInv'
    BY <1>7, <1>0, Basics, ContinuationAssumption, turnEffect DEF Inv, ReadInv, Moved,
       Rested, DeliveryChanged, InboxChanged, DeliveriesFreed, InboxFreed
<1>8. ASSUME NEW h \in Handlers, continuation_turn_state(h, "follow") PROVE ReadInv'
    BY <1>8, <1>0, Basics, ContinuationAssumption, followEffect DEF Inv, ReadInv,
       Moved, Rested, DeliveryChanged, InboxChanged, DeliveriesFreed, InboxFreed
<1>9. ASSUME NEW h \in Handlers, session_is_busy(h) PROVE ReadInv'
    BY <1>9, <1>0, Basics, ContinuationAssumption, session_is_busyEffect DEF Inv,
       ReadInv, Moved, Rested, DeliveryChanged, InboxChanged, DeliveriesFreed,
       InboxFreed
<1>10. ASSUME NEW h \in Handlers, mark_dispatching(h) PROVE ReadInv'
    BY <1>10, <1>0, Basics, ContinuationAssumption, mark_dispatchingEffect DEF Inv,
       ReadInv, Moved, Rested, DeliveryChanged, InboxChanged, DeliveriesFreed,
       InboxFreed
<1>11. ASSUME NEW h \in Handlers, spawn_terminal_prompt(h) PROVE ReadInv'
    BY <1>11, <1>0, Basics, ContinuationAssumption, spawn_terminal_promptEffect DEF
       Inv, ReadInv, Moved, Rested, DeliveryChanged, InboxChanged, DeliveriesFreed,
       InboxFreed
<1>12. ASSUME NEW h \in Handlers, verify_after_dispatch(h) PROVE ReadInv'
    BY <1>12, <1>0, Basics, ContinuationAssumption, verify_after_dispatchEffect DEF
       Inv, ReadInv, Moved, Rested, DeliveryChanged, InboxChanged, DeliveriesFreed,
       InboxFreed
<1>13. ASSUME NEW h \in Handlers, mark_accepted(h) PROVE ReadInv'
    BY <1>13, <1>0, Basics, ContinuationAssumption, mark_acceptedEffect DEF Inv,
       ReadInv, Moved, Rested, DeliveryChanged, InboxChanged, DeliveriesFreed,
       InboxFreed
<1>14. ASSUME NEW h \in Handlers, defer_delivery(h) PROVE ReadInv'
    BY <1>14, <1>0, Basics, ContinuationAssumption, defer_deliveryEffect DEF Inv,
       ReadInv, Moved, Rested, DeliveryChanged, InboxChanged, DeliveriesFreed,
       InboxFreed
<1>15. ASSUME NEW h \in Handlers, mark_observed(h) PROVE ReadInv'
    BY <1>15, <1>0, Basics, ContinuationAssumption, mark_observedEffect DEF Inv,
       ReadInv, Moved, Rested, DeliveryChanged, InboxChanged, DeliveriesFreed,
       InboxFreed
<1>16. ASSUME NEW h \in Handlers, release_session_lock(h) PROVE ReadInv'
    BY <1>16, <1>0, Basics, ContinuationAssumption, release_session_lockEffect DEF Inv,
       ReadInv, Moved, Rested, DeliveryChanged, InboxChanged, DeliveriesFreed,
       InboxFreed
<1>17. ASSUME NEW h \in Handlers, mark_delivery_ambiguous(h) PROVE ReadInv'
    BY <1>17, <1>0, Basics, ContinuationAssumption, mark_delivery_ambiguousEffect DEF
       Inv, ReadInv, Moved, Rested, DeliveryChanged, InboxChanged, DeliveriesFreed,
       InboxFreed
<1>18. ASSUME NEW h \in Handlers, mark_delivery_dead(h) PROVE ReadInv'
    BY <1>18, <1>0, Basics, ContinuationAssumption, mark_delivery_deadEffect DEF Inv,
       ReadInv, Moved, Rested, DeliveryChanged, InboxChanged, DeliveriesFreed,
       InboxFreed
<1>19. ASSUME NEW h \in Handlers, release_claim_after_error(h) PROVE ReadInv'
    BY <1>19, <1>0, Basics, ContinuationAssumption, release_claim_after_errorEffect DEF
       Inv, ReadInv, Moved, Rested, DeliveryChanged, InboxChanged, DeliveriesFreed,
       InboxFreed
<1>20. ASSUME NEW h \in Handlers, Nack(h) PROVE ReadInv'
    BY <1>20, <1>0, Basics, ContinuationAssumption, NackEffect DEF Inv, ReadInv, Moved,
       Rested, DeliveryChanged, InboxChanged, DeliveriesFreed, InboxFreed
<1>21. ASSUME NEW h \in Handlers, Redeliver(h) PROVE ReadInv'
    BY <1>21, <1>0, Basics, ContinuationAssumption DEF Inv, ReadInv, Redeliver, runs,
       rows, session, Disturb
<1>22. ASSUME NEW h \in Handlers, Stall(h) PROVE ReadInv'
    BY <1>22, <1>0, Basics, ContinuationAssumption, StallEffect DEF Inv, ReadInv,
       Moved, Rested, DeliveryChanged, InboxChanged, DeliveriesFreed, InboxFreed
<1>23. ASSUME NEW h \in Handlers, HttpFails(h) PROVE ReadInv'
    BY <1>23, <1>0, Basics, ContinuationAssumption, HttpFailsEffect DEF Inv, ReadInv,
       Moved, Rested, DeliveryChanged, InboxChanged, DeliveriesFreed, InboxFreed
<1>24. ASSUME NEW h \in Handlers, DatabaseFails(h) PROVE ReadInv'
    BY <1>24, <1>0, Basics, ContinuationAssumption, DatabaseFailsEffect DEF Inv,
       ReadInv, Moved, Rested, DeliveryChanged, InboxChanged, DeliveriesFreed,
       InboxFreed
<1>25. ASSUME NEW h \in Handlers, NEW r \in Runs, claim_inbox(h, r) PROVE ReadInv'
    BY <1>25, <1>0, Basics, ContinuationAssumption, claim_inboxEffect DEF Inv, ReadInv,
       Moved, Rested, DeliveryChanged, InboxChanged, DeliveriesFreed, InboxFreed
<1>26. ASSUME NEW r \in Runs, EndRun(r) PROVE ReadInv'
    BY <1>26, <1>0, Basics, ContinuationAssumption DEF Inv, ReadInv, EndRun, runs,
       rows, session
<1>27. ASSUME NEW r \in Runs, BindContinuation(r) PROVE ReadInv'
    BY <1>27, <1>0, Basics, ContinuationAssumption DEF Inv, ReadInv, BindContinuation,
       runs, rows, session
<1>28. ASSUME NEW r \in Runs, registerContinuation(r) PROVE ReadInv'
    BY <1>28, <1>0, Basics, ContinuationAssumption DEF Inv, ReadInv,
       registerContinuation, runs, rows, session
<1>29. ASSUME NEW r \in Runs, EndWhileBinding(r) PROVE ReadInv'
    BY <1>29, <1>0, Basics, ContinuationAssumption DEF Inv, ReadInv, EndWhileBinding,
       runs, rows, session
<1>30. ASSUME NEW r \in Runs, materializeContinuationWake(r) PROVE ReadInv'
    BY <1>30, <1>0, Basics, ContinuationAssumption, WakeEffect DEF Inv, ReadInv, Moved,
       Rested, DeliveryChanged, InboxChanged, DeliveriesFreed, InboxFreed,
       materializeContinuationWake, session
<1>31. ASSUME NEW r \in Runs, repairTerminalContinuationWakes(r) PROVE ReadInv'
    BY <1>31, <1>0, Basics, ContinuationAssumption, WakeEffect DEF Inv, ReadInv, Moved,
       Rested, DeliveryChanged, InboxChanged, DeliveriesFreed, InboxFreed,
       repairTerminalContinuationWakes, session
<1>32. ASSUME NEW r \in Runs, cancelContinuation(r) PROVE ReadInv'
    BY <1>32, <1>0, Basics, ContinuationAssumption, cancelContinuationEffect DEF Inv,
       ReadInv, Moved, Rested, DeliveryChanged, InboxChanged, DeliveriesFreed,
       InboxFreed
<1>33. ASSUME NEW r \in Runs, WakeLost(r) PROVE ReadInv'
    BY <1>33, <1>0, Basics, ContinuationAssumption DEF Inv, ReadInv, WakeLost, runs,
       rows, session, Disturb
<1>34. ASSUME NEW r \in Runs, Publish(r) PROVE ReadInv'
    BY <1>34, <1>0, Basics, ContinuationAssumption DEF Inv, ReadInv, Publish, runs,
       rows, session, Disturb, Quiet
<1>35. ASSUME NEW r \in Runs, LeasesLapse(r) PROVE ReadInv'
    BY <1>35, <1>0, Basics, ContinuationAssumption, LeasesLapseEffect DEF Inv, ReadInv,
       Moved, Rested, DeliveryChanged, InboxChanged, DeliveriesFreed, InboxFreed
<1>36. ASSUME NEW r \in Runs, DispatchAges(r) PROVE ReadInv'
    BY <1>36, <1>0, Basics, ContinuationAssumption, DispatchAgesEffect DEF Inv,
       ReadInv, Moved, Rested, DeliveryChanged, InboxChanged, DeliveriesFreed,
       InboxFreed
<1>37. ASSUME NEW r \in Runs, PromptArrives(r) PROVE ReadInv'
    BY <1>37, <1>0, Basics, ContinuationAssumption DEF Inv, ReadInv, PromptArrives,
       runs, rows, session, Disturb, Quiet
<1>38. ASSUME NEW r \in Runs, TurnStarts(r) PROVE ReadInv'
    BY <1>38, <1>0, Basics, ContinuationAssumption DEF Inv, ReadInv, TurnStarts, runs,
       rows, session
<1>39. ASSUME NEW r \in Runs, TurnEnds(r) PROVE ReadInv'
    BY <1>39, <1>0, Basics, ContinuationAssumption DEF Inv, ReadInv, TurnEnds, runs,
       rows, session
<1>40. CASE Crash
    BY <1>40, <1>0, Basics, ContinuationAssumption, CrashEffect DEF Inv, ReadInv,
       Moved, Rested, DeliveryChanged, InboxChanged, DeliveriesFreed, InboxFreed, Idle
<1>41. CASE OwnTurnEnds
    BY <1>41, <1>0, Basics, ContinuationAssumption DEF Inv, ReadInv, OwnTurnEnds, runs,
       rows, session
<1>. QED  BY <1>1, <1>2, <1>3, <1>4, <1>5, <1>6, <1>7, <1>8, <1>9, <1>10, <1>11, <1>12,
          <1>13, <1>14, <1>15, <1>16, <1>17, <1>18, <1>19, <1>20, <1>21, <1>22, <1>23,
          <1>24, <1>25, <1>26, <1>27, <1>28, <1>29, <1>30, <1>31, <1>32, <1>33, <1>34,
          <1>35, <1>36, <1>37, <1>38, <1>39, <1>40, <1>41 DEF Next, HandlerStep,
          ControlStep, WorldStep

\* The dispatch is recorded once, and posted once by the handler that holds the lock.
LEMMA PostStep ==
    ASSUME Inv, [Next]_vars
    PROVE  PostInv'
<1>0. TypeOK
    BY DEF Inv
<1>1. CASE UNCHANGED vars
    BY <1>1 DEF Inv, LockInv, ReadInv, PostInv, UnderLock, vars
<1>2. ASSUME NEW h \in Handlers, load_and_claim_delivery(h) PROVE PostInv'
    BY <1>2, <1>0, Basics, load_and_claim_deliveryEffect, VerdictFacts DEF Inv,
       LockInv, ReadInv, PostInv, UnderLock, Moved, Rested, DeliveryChanged,
       InboxChanged, DeliveriesFreed, InboxFreed
<1>3. ASSUME NEW h \in Handlers, mark_inbox_processed_owned(h) PROVE PostInv'
    BY <1>3, <1>0, Basics, SettleInboxEffect DEF Inv, LockInv, ReadInv, PostInv,
       UnderLock, Moved, Rested, DeliveryChanged, InboxChanged, DeliveriesFreed,
       InboxFreed, mark_inbox_processed_owned
<1>4. ASSUME NEW h \in Handlers, defer_inbox_owned(h) PROVE PostInv'
    BY <1>4, <1>0, Basics, SettleInboxEffect DEF Inv, LockInv, ReadInv, PostInv,
       UnderLock, Moved, Rested, DeliveryChanged, InboxChanged, DeliveriesFreed,
       InboxFreed, defer_inbox_owned
<1>5. ASSUME NEW h \in Handlers, acquire_session_lock(h) PROVE PostInv'
    BY <1>5, <1>0, Basics, acquire_session_lockEffect DEF Inv, LockInv, ReadInv,
       PostInv, UnderLock, Moved, Rested, DeliveryChanged, InboxChanged,
       DeliveriesFreed, InboxFreed
<1>6. ASSUME NEW h \in Handlers, get_target_message(h) PROVE PostInv'
    BY <1>6, <1>0, Basics, get_target_messageEffect DEF Inv, LockInv, ReadInv,
       PostInv, UnderLock, Moved, Rested, DeliveryChanged, InboxChanged,
       DeliveriesFreed, InboxFreed
<1>7. ASSUME NEW h \in Handlers, continuation_turn_state(h, "turn") PROVE PostInv'
    BY <1>7, <1>0, Basics, turnEffect DEF Inv, LockInv, ReadInv, PostInv, UnderLock,
       Moved, Rested, DeliveryChanged, InboxChanged, DeliveriesFreed, InboxFreed
<1>8. ASSUME NEW h \in Handlers, continuation_turn_state(h, "follow") PROVE PostInv'
    BY <1>8, <1>0, Basics, followEffect DEF Inv, LockInv, ReadInv, PostInv, UnderLock,
       Moved, Rested, DeliveryChanged, InboxChanged, DeliveriesFreed, InboxFreed
<1>9. ASSUME NEW h \in Handlers, session_is_busy(h) PROVE PostInv'
    BY <1>9, <1>0, Basics, session_is_busyEffect DEF Inv, LockInv, ReadInv, PostInv,
       UnderLock, Moved, Rested, DeliveryChanged, InboxChanged, DeliveriesFreed,
       InboxFreed
<1>10. ASSUME NEW h \in Handlers, mark_dispatching(h) PROVE PostInv'
    BY <1>10, <1>0, Basics, mark_dispatchingEffect DEF Inv, LockInv, ReadInv, PostInv,
       UnderLock, Moved, Rested, DeliveryChanged, InboxChanged, DeliveriesFreed,
       InboxFreed
<1>11. ASSUME NEW h \in Handlers, spawn_terminal_prompt(h) PROVE PostInv'
    BY <1>11, <1>0, Basics, spawn_terminal_promptEffect DEF Inv, LockInv, ReadInv,
       PostInv, UnderLock, Moved, Rested, DeliveryChanged, InboxChanged,
       DeliveriesFreed, InboxFreed
<1>12. ASSUME NEW h \in Handlers, verify_after_dispatch(h) PROVE PostInv'
    BY <1>12, <1>0, Basics, verify_after_dispatchEffect DEF Inv, LockInv, ReadInv,
       PostInv, UnderLock, Moved, Rested, DeliveryChanged, InboxChanged,
       DeliveriesFreed, InboxFreed
<1>13. ASSUME NEW h \in Handlers, mark_accepted(h) PROVE PostInv'
    BY <1>13, <1>0, Basics, mark_acceptedEffect DEF Inv, LockInv, ReadInv, PostInv,
       UnderLock, Moved, Rested, DeliveryChanged, InboxChanged, DeliveriesFreed,
       InboxFreed
<1>14. ASSUME NEW h \in Handlers, defer_delivery(h) PROVE PostInv'
    BY <1>14, <1>0, Basics, defer_deliveryEffect DEF Inv, LockInv, ReadInv, PostInv,
       UnderLock, Moved, Rested, DeliveryChanged, InboxChanged, DeliveriesFreed,
       InboxFreed
<1>15. ASSUME NEW h \in Handlers, mark_observed(h) PROVE PostInv'
    BY <1>15, <1>0, Basics, mark_observedEffect DEF Inv, LockInv, ReadInv, PostInv,
       UnderLock, Moved, Rested, DeliveryChanged, InboxChanged, DeliveriesFreed,
       InboxFreed
<1>16. ASSUME NEW h \in Handlers, release_session_lock(h) PROVE PostInv'
    BY <1>16, <1>0, Basics, release_session_lockEffect DEF Inv, LockInv, ReadInv,
       PostInv, UnderLock, Moved, Rested, DeliveryChanged, InboxChanged,
       DeliveriesFreed, InboxFreed
<1>17. ASSUME NEW h \in Handlers, mark_delivery_ambiguous(h) PROVE PostInv'
    BY <1>17, <1>0, Basics, mark_delivery_ambiguousEffect DEF Inv, LockInv, ReadInv,
       PostInv, UnderLock, Moved, Rested, DeliveryChanged, InboxChanged,
       DeliveriesFreed, InboxFreed
<1>18. ASSUME NEW h \in Handlers, mark_delivery_dead(h) PROVE PostInv'
    BY <1>18, <1>0, Basics, mark_delivery_deadEffect DEF Inv, LockInv, ReadInv,
       PostInv, UnderLock, Moved, Rested, DeliveryChanged, InboxChanged,
       DeliveriesFreed, InboxFreed
<1>19. ASSUME NEW h \in Handlers, release_claim_after_error(h) PROVE PostInv'
    BY <1>19, <1>0, Basics, release_claim_after_errorEffect DEF Inv, LockInv, ReadInv,
       PostInv, UnderLock, Moved, Rested, DeliveryChanged, InboxChanged,
       DeliveriesFreed, InboxFreed
<1>20. ASSUME NEW h \in Handlers, Nack(h) PROVE PostInv'
    BY <1>20, <1>0, Basics, NackEffect DEF Inv, LockInv, ReadInv, PostInv, UnderLock,
       Moved, Rested, DeliveryChanged, InboxChanged, DeliveriesFreed, InboxFreed
<1>21. ASSUME NEW h \in Handlers, Redeliver(h) PROVE PostInv'
    BY <1>21, <1>0, Basics DEF Inv, LockInv, ReadInv, PostInv, UnderLock, Redeliver,
       runs, rows, session, Disturb
<1>22. ASSUME NEW h \in Handlers, Stall(h) PROVE PostInv'
    BY <1>22, <1>0, Basics, StallEffect DEF Inv, LockInv, ReadInv, PostInv, UnderLock,
       Moved, Rested, DeliveryChanged, InboxChanged, DeliveriesFreed, InboxFreed
<1>23. ASSUME NEW h \in Handlers, HttpFails(h) PROVE PostInv'
    BY <1>23, <1>0, Basics, HttpFailsEffect DEF Inv, LockInv, ReadInv, PostInv,
       UnderLock, Moved, Rested, DeliveryChanged, InboxChanged, DeliveriesFreed,
       InboxFreed
<1>24. ASSUME NEW h \in Handlers, DatabaseFails(h) PROVE PostInv'
    BY <1>24, <1>0, Basics, DatabaseFailsEffect DEF Inv, LockInv, ReadInv, PostInv,
       UnderLock, Moved, Rested, DeliveryChanged, InboxChanged, DeliveriesFreed,
       InboxFreed
<1>25. ASSUME NEW h \in Handlers, NEW r \in Runs, claim_inbox(h, r) PROVE PostInv'
    BY <1>25, <1>0, Basics, claim_inboxEffect DEF Inv, LockInv, ReadInv, PostInv,
       UnderLock, Moved, Rested, DeliveryChanged, InboxChanged, DeliveriesFreed,
       InboxFreed
<1>26. ASSUME NEW r \in Runs, EndRun(r) PROVE PostInv'
    BY <1>26, <1>0, Basics DEF Inv, LockInv, ReadInv, PostInv, UnderLock, EndRun, runs,
       rows, session
<1>27. ASSUME NEW r \in Runs, BindContinuation(r) PROVE PostInv'
    BY <1>27, <1>0, Basics DEF Inv, LockInv, ReadInv, PostInv, UnderLock,
       BindContinuation, runs, rows, session
<1>28. ASSUME NEW r \in Runs, registerContinuation(r) PROVE PostInv'
    BY <1>28, <1>0, Basics DEF Inv, LockInv, ReadInv, PostInv, UnderLock,
       registerContinuation, runs, rows, session
<1>29. ASSUME NEW r \in Runs, EndWhileBinding(r) PROVE PostInv'
    BY <1>29, <1>0, Basics DEF Inv, LockInv, ReadInv, PostInv, UnderLock,
       EndWhileBinding, runs, rows, session
<1>30. ASSUME NEW r \in Runs, materializeContinuationWake(r) PROVE PostInv'
    BY <1>30, <1>0, Basics, WakeEffect DEF Inv, LockInv, ReadInv, PostInv, UnderLock,
       Moved, Rested, DeliveryChanged, InboxChanged, DeliveriesFreed, InboxFreed,
       materializeContinuationWake, session
<1>31. ASSUME NEW r \in Runs, repairTerminalContinuationWakes(r) PROVE PostInv'
    BY <1>31, <1>0, Basics, WakeEffect DEF Inv, LockInv, ReadInv, PostInv, UnderLock,
       Moved, Rested, DeliveryChanged, InboxChanged, DeliveriesFreed, InboxFreed,
       repairTerminalContinuationWakes, session
<1>32. ASSUME NEW r \in Runs, cancelContinuation(r) PROVE PostInv'
    BY <1>32, <1>0, Basics, cancelContinuationEffect DEF Inv, LockInv, ReadInv,
       PostInv, UnderLock, Moved, Rested, DeliveryChanged, InboxChanged,
       DeliveriesFreed, InboxFreed
<1>33. ASSUME NEW r \in Runs, WakeLost(r) PROVE PostInv'
    BY <1>33, <1>0, Basics DEF Inv, LockInv, ReadInv, PostInv, UnderLock, WakeLost,
       runs, rows, session, Disturb
<1>34. ASSUME NEW r \in Runs, Publish(r) PROVE PostInv'
    BY <1>34, <1>0, Basics DEF Inv, LockInv, ReadInv, PostInv, UnderLock, Publish,
       runs, rows, session, Disturb, Quiet
<1>35. ASSUME NEW r \in Runs, LeasesLapse(r) PROVE PostInv'
    BY <1>35, <1>0, Basics, LeasesLapseEffect DEF Inv, LockInv, ReadInv, PostInv,
       UnderLock, Moved, Rested, DeliveryChanged, InboxChanged, DeliveriesFreed,
       InboxFreed
<1>36. ASSUME NEW r \in Runs, DispatchAges(r) PROVE PostInv'
    BY <1>36, <1>0, Basics, DispatchAgesEffect DEF Inv, LockInv, ReadInv, PostInv,
       UnderLock, Moved, Rested, DeliveryChanged, InboxChanged, DeliveriesFreed,
       InboxFreed
<1>37. ASSUME NEW r \in Runs, PromptArrives(r) PROVE PostInv'
    BY <1>37, <1>0, Basics DEF Inv, LockInv, ReadInv, PostInv, UnderLock,
       PromptArrives, runs, rows, session, Disturb, Quiet
<1>38. ASSUME NEW r \in Runs, TurnStarts(r) PROVE PostInv'
    BY <1>38, <1>0, Basics DEF Inv, LockInv, ReadInv, PostInv, UnderLock, TurnStarts,
       runs, rows, session
<1>39. ASSUME NEW r \in Runs, TurnEnds(r) PROVE PostInv'
    BY <1>39, <1>0, Basics DEF Inv, LockInv, ReadInv, PostInv, UnderLock, TurnEnds,
       runs, rows, session
<1>40. CASE Crash
    BY <1>40, <1>0, Basics, CrashEffect DEF Inv, LockInv, ReadInv, PostInv, UnderLock,
       Moved, Rested, DeliveryChanged, InboxChanged, DeliveriesFreed, InboxFreed, Idle
<1>41. CASE OwnTurnEnds
    BY <1>41, <1>0, Basics DEF Inv, LockInv, ReadInv, PostInv, UnderLock, OwnTurnEnds,
       runs, rows, session
<1>. QED  BY <1>1, <1>2, <1>3, <1>4, <1>5, <1>6, <1>7, <1>8, <1>9, <1>10, <1>11, <1>12,
          <1>13, <1>14, <1>15, <1>16, <1>17, <1>18, <1>19, <1>20, <1>21, <1>22, <1>23,
          <1>24, <1>25, <1>26, <1>27, <1>28, <1>29, <1>30, <1>31, <1>32, <1>33, <1>34,
          <1>35, <1>36, <1>37, <1>38, <1>39, <1>40, <1>41 DEF Next, HandlerStep,
          ControlStep, WorldStep

\* What stands in the session is what was posted.
LEMMA SessionStep ==
    ASSUME Inv, [Next]_vars
    PROVE  SessionInv'
<1>0. TypeOK
    BY DEF Inv
<1>1. CASE UNCHANGED vars
    BY <1>1 DEF Inv, LockInv, ReadInv, PostInv, SessionInv, UnderLock, vars
<1>2. ASSUME NEW h \in Handlers, load_and_claim_delivery(h) PROVE SessionInv'
    BY <1>2, <1>0, Basics, load_and_claim_deliveryEffect, VerdictFacts DEF Inv,
       LockInv, ReadInv, PostInv, SessionInv, UnderLock, Moved, Rested, DeliveryChanged,
       InboxChanged, DeliveriesFreed, InboxFreed
<1>3. ASSUME NEW h \in Handlers, mark_inbox_processed_owned(h) PROVE SessionInv'
    BY <1>3, <1>0, Basics, SettleInboxEffect DEF Inv, LockInv, ReadInv, PostInv,
       SessionInv, UnderLock, Moved, Rested, DeliveryChanged, InboxChanged,
       DeliveriesFreed, InboxFreed, mark_inbox_processed_owned
<1>4. ASSUME NEW h \in Handlers, defer_inbox_owned(h) PROVE SessionInv'
    BY <1>4, <1>0, Basics, SettleInboxEffect DEF Inv, LockInv, ReadInv, PostInv,
       SessionInv, UnderLock, Moved, Rested, DeliveryChanged, InboxChanged,
       DeliveriesFreed, InboxFreed, defer_inbox_owned
<1>5. ASSUME NEW h \in Handlers, acquire_session_lock(h) PROVE SessionInv'
    BY <1>5, <1>0, Basics, acquire_session_lockEffect DEF Inv, LockInv, ReadInv,
       PostInv, SessionInv, UnderLock, Moved, Rested, DeliveryChanged, InboxChanged,
       DeliveriesFreed, InboxFreed
<1>6. ASSUME NEW h \in Handlers, get_target_message(h) PROVE SessionInv'
    BY <1>6, <1>0, Basics, get_target_messageEffect DEF Inv, LockInv, ReadInv,
       PostInv, SessionInv, UnderLock, Moved, Rested, DeliveryChanged, InboxChanged,
       DeliveriesFreed, InboxFreed
<1>7. ASSUME NEW h \in Handlers, continuation_turn_state(h, "turn") PROVE SessionInv'
    BY <1>7, <1>0, Basics, turnEffect DEF Inv, LockInv, ReadInv, PostInv, SessionInv,
       UnderLock, Moved, Rested, DeliveryChanged, InboxChanged, DeliveriesFreed,
       InboxFreed
<1>8. ASSUME NEW h \in Handlers, continuation_turn_state(h, "follow") PROVE SessionInv'
    BY <1>8, <1>0, Basics, followEffect DEF Inv, LockInv, ReadInv, PostInv,
       SessionInv, UnderLock, Moved, Rested, DeliveryChanged, InboxChanged,
       DeliveriesFreed, InboxFreed
<1>9. ASSUME NEW h \in Handlers, session_is_busy(h) PROVE SessionInv'
    BY <1>9, <1>0, Basics, session_is_busyEffect DEF Inv, LockInv, ReadInv, PostInv,
       SessionInv, UnderLock, Moved, Rested, DeliveryChanged, InboxChanged,
       DeliveriesFreed, InboxFreed
<1>10. ASSUME NEW h \in Handlers, mark_dispatching(h) PROVE SessionInv'
    BY <1>10, <1>0, Basics, mark_dispatchingEffect DEF Inv, LockInv, ReadInv, PostInv,
       SessionInv, UnderLock, Moved, Rested, DeliveryChanged, InboxChanged,
       DeliveriesFreed, InboxFreed
<1>11. ASSUME NEW h \in Handlers, spawn_terminal_prompt(h) PROVE SessionInv'
    BY <1>11, <1>0, Basics, spawn_terminal_promptEffect DEF Inv, LockInv, ReadInv,
       PostInv, SessionInv, UnderLock, Moved, Rested, DeliveryChanged, InboxChanged,
       DeliveriesFreed, InboxFreed
<1>12. ASSUME NEW h \in Handlers, verify_after_dispatch(h) PROVE SessionInv'
    BY <1>12, <1>0, Basics, verify_after_dispatchEffect DEF Inv, LockInv, ReadInv,
       PostInv, SessionInv, UnderLock, Moved, Rested, DeliveryChanged, InboxChanged,
       DeliveriesFreed, InboxFreed
<1>13. ASSUME NEW h \in Handlers, mark_accepted(h) PROVE SessionInv'
    BY <1>13, <1>0, Basics, mark_acceptedEffect DEF Inv, LockInv, ReadInv, PostInv,
       SessionInv, UnderLock, Moved, Rested, DeliveryChanged, InboxChanged,
       DeliveriesFreed, InboxFreed
<1>14. ASSUME NEW h \in Handlers, defer_delivery(h) PROVE SessionInv'
    BY <1>14, <1>0, Basics, defer_deliveryEffect DEF Inv, LockInv, ReadInv, PostInv,
       SessionInv, UnderLock, Moved, Rested, DeliveryChanged, InboxChanged,
       DeliveriesFreed, InboxFreed
<1>15. ASSUME NEW h \in Handlers, mark_observed(h) PROVE SessionInv'
    BY <1>15, <1>0, Basics, mark_observedEffect DEF Inv, LockInv, ReadInv, PostInv,
       SessionInv, UnderLock, Moved, Rested, DeliveryChanged, InboxChanged,
       DeliveriesFreed, InboxFreed
<1>16. ASSUME NEW h \in Handlers, release_session_lock(h) PROVE SessionInv'
    BY <1>16, <1>0, Basics, release_session_lockEffect DEF Inv, LockInv, ReadInv,
       PostInv, SessionInv, UnderLock, Moved, Rested, DeliveryChanged, InboxChanged,
       DeliveriesFreed, InboxFreed
<1>17. ASSUME NEW h \in Handlers, mark_delivery_ambiguous(h) PROVE SessionInv'
    BY <1>17, <1>0, Basics, mark_delivery_ambiguousEffect DEF Inv, LockInv, ReadInv,
       PostInv, SessionInv, UnderLock, Moved, Rested, DeliveryChanged, InboxChanged,
       DeliveriesFreed, InboxFreed
<1>18. ASSUME NEW h \in Handlers, mark_delivery_dead(h) PROVE SessionInv'
    BY <1>18, <1>0, Basics, mark_delivery_deadEffect DEF Inv, LockInv, ReadInv,
       PostInv, SessionInv, UnderLock, Moved, Rested, DeliveryChanged, InboxChanged,
       DeliveriesFreed, InboxFreed
<1>19. ASSUME NEW h \in Handlers, release_claim_after_error(h) PROVE SessionInv'
    BY <1>19, <1>0, Basics, release_claim_after_errorEffect DEF Inv, LockInv, ReadInv,
       PostInv, SessionInv, UnderLock, Moved, Rested, DeliveryChanged, InboxChanged,
       DeliveriesFreed, InboxFreed
<1>20. ASSUME NEW h \in Handlers, Nack(h) PROVE SessionInv'
    BY <1>20, <1>0, Basics, NackEffect DEF Inv, LockInv, ReadInv, PostInv, SessionInv,
       UnderLock, Moved, Rested, DeliveryChanged, InboxChanged, DeliveriesFreed,
       InboxFreed
<1>21. ASSUME NEW h \in Handlers, Redeliver(h) PROVE SessionInv'
    BY <1>21, <1>0, Basics DEF Inv, LockInv, ReadInv, PostInv, SessionInv, UnderLock,
       Redeliver, runs, rows, session, Disturb
<1>22. ASSUME NEW h \in Handlers, Stall(h) PROVE SessionInv'
    BY <1>22, <1>0, Basics, StallEffect DEF Inv, LockInv, ReadInv, PostInv, SessionInv,
       UnderLock, Moved, Rested, DeliveryChanged, InboxChanged, DeliveriesFreed,
       InboxFreed
<1>23. ASSUME NEW h \in Handlers, HttpFails(h) PROVE SessionInv'
    BY <1>23, <1>0, Basics, HttpFailsEffect DEF Inv, LockInv, ReadInv, PostInv,
       SessionInv, UnderLock, Moved, Rested, DeliveryChanged, InboxChanged,
       DeliveriesFreed, InboxFreed
<1>24. ASSUME NEW h \in Handlers, DatabaseFails(h) PROVE SessionInv'
    BY <1>24, <1>0, Basics, DatabaseFailsEffect DEF Inv, LockInv, ReadInv, PostInv,
       SessionInv, UnderLock, Moved, Rested, DeliveryChanged, InboxChanged,
       DeliveriesFreed, InboxFreed
<1>25. ASSUME NEW h \in Handlers, NEW r \in Runs, claim_inbox(h, r) PROVE SessionInv'
    BY <1>25, <1>0, Basics, claim_inboxEffect DEF Inv, LockInv, ReadInv, PostInv,
       SessionInv, UnderLock, Moved, Rested, DeliveryChanged, InboxChanged,
       DeliveriesFreed, InboxFreed
<1>26. ASSUME NEW r \in Runs, EndRun(r) PROVE SessionInv'
    BY <1>26, <1>0, Basics DEF Inv, LockInv, ReadInv, PostInv, SessionInv, UnderLock,
       EndRun, runs, rows, session
<1>27. ASSUME NEW r \in Runs, BindContinuation(r) PROVE SessionInv'
    BY <1>27, <1>0, Basics DEF Inv, LockInv, ReadInv, PostInv, SessionInv, UnderLock,
       BindContinuation, runs, rows, session
<1>28. ASSUME NEW r \in Runs, registerContinuation(r) PROVE SessionInv'
    BY <1>28, <1>0, Basics DEF Inv, LockInv, ReadInv, PostInv, SessionInv, UnderLock,
       registerContinuation, runs, rows, session
<1>29. ASSUME NEW r \in Runs, EndWhileBinding(r) PROVE SessionInv'
    BY <1>29, <1>0, Basics DEF Inv, LockInv, ReadInv, PostInv, SessionInv, UnderLock,
       EndWhileBinding, runs, rows, session
<1>30. ASSUME NEW r \in Runs, materializeContinuationWake(r) PROVE SessionInv'
    BY <1>30, <1>0, Basics, WakeEffect DEF Inv, LockInv, ReadInv, PostInv, SessionInv,
       UnderLock, Moved, Rested, DeliveryChanged, InboxChanged, DeliveriesFreed,
       InboxFreed, materializeContinuationWake, session
<1>31. ASSUME NEW r \in Runs, repairTerminalContinuationWakes(r) PROVE SessionInv'
    BY <1>31, <1>0, Basics, WakeEffect DEF Inv, LockInv, ReadInv, PostInv, SessionInv,
       UnderLock, Moved, Rested, DeliveryChanged, InboxChanged, DeliveriesFreed,
       InboxFreed, repairTerminalContinuationWakes, session
<1>32. ASSUME NEW r \in Runs, cancelContinuation(r) PROVE SessionInv'
    BY <1>32, <1>0, Basics, cancelContinuationEffect DEF Inv, LockInv, ReadInv,
       PostInv, SessionInv, UnderLock, Moved, Rested, DeliveryChanged, InboxChanged,
       DeliveriesFreed, InboxFreed
<1>33. ASSUME NEW r \in Runs, WakeLost(r) PROVE SessionInv'
    BY <1>33, <1>0, Basics DEF Inv, LockInv, ReadInv, PostInv, SessionInv, UnderLock,
       WakeLost, runs, rows, session, Disturb
<1>34. ASSUME NEW r \in Runs, Publish(r) PROVE SessionInv'
    BY <1>34, <1>0, Basics DEF Inv, LockInv, ReadInv, PostInv, SessionInv, UnderLock,
       Publish, runs, rows, session, Disturb, Quiet
<1>35. ASSUME NEW r \in Runs, LeasesLapse(r) PROVE SessionInv'
    BY <1>35, <1>0, Basics, LeasesLapseEffect DEF Inv, LockInv, ReadInv, PostInv,
       SessionInv, UnderLock, Moved, Rested, DeliveryChanged, InboxChanged,
       DeliveriesFreed, InboxFreed
<1>36. ASSUME NEW r \in Runs, DispatchAges(r) PROVE SessionInv'
    BY <1>36, <1>0, Basics, DispatchAgesEffect DEF Inv, LockInv, ReadInv, PostInv,
       SessionInv, UnderLock, Moved, Rested, DeliveryChanged, InboxChanged,
       DeliveriesFreed, InboxFreed
<1>37. ASSUME NEW r \in Runs, PromptArrives(r) PROVE SessionInv'
    BY <1>37, <1>0, Basics DEF Inv, LockInv, ReadInv, PostInv, SessionInv, UnderLock,
       PromptArrives, runs, rows, session, Disturb, Quiet
<1>38. ASSUME NEW r \in Runs, TurnStarts(r) PROVE SessionInv'
    BY <1>38, <1>0, Basics DEF Inv, LockInv, ReadInv, PostInv, SessionInv, UnderLock,
       TurnStarts, runs, rows, session
<1>39. ASSUME NEW r \in Runs, TurnEnds(r) PROVE SessionInv'
    BY <1>39, <1>0, Basics DEF Inv, LockInv, ReadInv, PostInv, SessionInv, UnderLock,
       TurnEnds, runs, rows, session
<1>40. CASE Crash
    BY <1>40, <1>0, Basics, CrashEffect DEF Inv, LockInv, ReadInv, PostInv, SessionInv,
       UnderLock, Moved, Rested, DeliveryChanged, InboxChanged, DeliveriesFreed,
       InboxFreed, Idle
<1>41. CASE OwnTurnEnds
    BY <1>41, <1>0, Basics DEF Inv, LockInv, ReadInv, PostInv, SessionInv, UnderLock,
       OwnTurnEnds, runs, rows, session
<1>. QED  BY <1>1, <1>2, <1>3, <1>4, <1>5, <1>6, <1>7, <1>8, <1>9, <1>10, <1>11, <1>12,
          <1>13, <1>14, <1>15, <1>16, <1>17, <1>18, <1>19, <1>20, <1>21, <1>22, <1>23,
          <1>24, <1>25, <1>26, <1>27, <1>28, <1>29, <1>30, <1>31, <1>32, <1>33, <1>34,
          <1>35, <1>36, <1>37, <1>38, <1>39, <1>40, <1>41 DEF Next, HandlerStep,
          ControlStep, WorldStep

\* A settled delivery stays settled.
LEMMA SettledStep ==
    ASSUME Inv, [Next]_vars
    PROVE  SettledInv'
<1>0. TypeOK
    BY DEF Inv
<1>1. CASE UNCHANGED vars
    BY <1>1 DEF Inv, SettledInv, RowsTellTheTruth, ObservedIsReal, vars
<1>2. ASSUME NEW h \in Handlers, load_and_claim_delivery(h) PROVE SettledInv'
    BY <1>2, <1>0, Basics, ContinuationAssumption, load_and_claim_deliveryEffect,
       VerdictFacts DEF Inv, SettledInv, RowsTellTheTruth, ObservedIsReal, Moved,
       Rested, DeliveryChanged, InboxChanged, DeliveriesFreed, InboxFreed
<1>3. ASSUME NEW h \in Handlers, mark_inbox_processed_owned(h) PROVE SettledInv'
    BY <1>3, <1>0, Basics, ContinuationAssumption, SettleInboxEffect DEF Inv,
       SettledInv, RowsTellTheTruth, ObservedIsReal, Moved, Rested, DeliveryChanged,
       InboxChanged, DeliveriesFreed, InboxFreed, mark_inbox_processed_owned
<1>4. ASSUME NEW h \in Handlers, defer_inbox_owned(h) PROVE SettledInv'
    BY <1>4, <1>0, Basics, ContinuationAssumption, SettleInboxEffect DEF Inv,
       SettledInv, RowsTellTheTruth, ObservedIsReal, Moved, Rested, DeliveryChanged,
       InboxChanged, DeliveriesFreed, InboxFreed, defer_inbox_owned
<1>5. ASSUME NEW h \in Handlers, acquire_session_lock(h) PROVE SettledInv'
    BY <1>5, <1>0, Basics, ContinuationAssumption, acquire_session_lockEffect DEF Inv,
       SettledInv, RowsTellTheTruth, ObservedIsReal, Moved, Rested, DeliveryChanged,
       InboxChanged, DeliveriesFreed, InboxFreed
<1>6. ASSUME NEW h \in Handlers, get_target_message(h) PROVE SettledInv'
    BY <1>6, <1>0, Basics, ContinuationAssumption, get_target_messageEffect DEF Inv,
       SettledInv, RowsTellTheTruth, ObservedIsReal, Moved, Rested, DeliveryChanged,
       InboxChanged, DeliveriesFreed, InboxFreed
<1>7. ASSUME NEW h \in Handlers, continuation_turn_state(h, "turn") PROVE SettledInv'
    BY <1>7, <1>0, Basics, ContinuationAssumption, turnEffect DEF Inv, SettledInv,
       RowsTellTheTruth, ObservedIsReal, Moved, Rested, DeliveryChanged, InboxChanged,
       DeliveriesFreed, InboxFreed
<1>8. ASSUME NEW h \in Handlers, continuation_turn_state(h, "follow") PROVE SettledInv'
    BY <1>8, <1>0, Basics, ContinuationAssumption, followEffect DEF Inv, SettledInv,
       RowsTellTheTruth, ObservedIsReal, Moved, Rested, DeliveryChanged, InboxChanged,
       DeliveriesFreed, InboxFreed
<1>9. ASSUME NEW h \in Handlers, session_is_busy(h) PROVE SettledInv'
    BY <1>9, <1>0, Basics, ContinuationAssumption, session_is_busyEffect DEF Inv,
       SettledInv, RowsTellTheTruth, ObservedIsReal, Moved, Rested, DeliveryChanged,
       InboxChanged, DeliveriesFreed, InboxFreed
<1>10. ASSUME NEW h \in Handlers, mark_dispatching(h) PROVE SettledInv'
    BY <1>10, <1>0, Basics, ContinuationAssumption, mark_dispatchingEffect DEF Inv,
       SettledInv, RowsTellTheTruth, ObservedIsReal, Moved, Rested, DeliveryChanged,
       InboxChanged, DeliveriesFreed, InboxFreed
<1>11. ASSUME NEW h \in Handlers, spawn_terminal_prompt(h) PROVE SettledInv'
    BY <1>11, <1>0, Basics, ContinuationAssumption, spawn_terminal_promptEffect DEF
       Inv, SettledInv, RowsTellTheTruth, ObservedIsReal, Moved, Rested,
       DeliveryChanged, InboxChanged, DeliveriesFreed, InboxFreed
<1>12. ASSUME NEW h \in Handlers, verify_after_dispatch(h) PROVE SettledInv'
    BY <1>12, <1>0, Basics, ContinuationAssumption, verify_after_dispatchEffect DEF
       Inv, SettledInv, RowsTellTheTruth, ObservedIsReal, Moved, Rested,
       DeliveryChanged, InboxChanged, DeliveriesFreed, InboxFreed
<1>13. ASSUME NEW h \in Handlers, mark_accepted(h) PROVE SettledInv'
    BY <1>13, <1>0, Basics, ContinuationAssumption, mark_acceptedEffect DEF Inv,
       SettledInv, RowsTellTheTruth, ObservedIsReal, Moved, Rested, DeliveryChanged,
       InboxChanged, DeliveriesFreed, InboxFreed
<1>14. ASSUME NEW h \in Handlers, defer_delivery(h) PROVE SettledInv'
    BY <1>14, <1>0, Basics, ContinuationAssumption, defer_deliveryEffect DEF Inv,
       SettledInv, RowsTellTheTruth, ObservedIsReal, Moved, Rested, DeliveryChanged,
       InboxChanged, DeliveriesFreed, InboxFreed
<1>15. ASSUME NEW h \in Handlers, mark_observed(h) PROVE SettledInv'
    BY <1>15, <1>0, Basics, ContinuationAssumption, mark_observedEffect DEF Inv,
       SettledInv, RowsTellTheTruth, ObservedIsReal, Moved, Rested, DeliveryChanged,
       InboxChanged, DeliveriesFreed, InboxFreed
<1>16. ASSUME NEW h \in Handlers, release_session_lock(h) PROVE SettledInv'
    BY <1>16, <1>0, Basics, ContinuationAssumption, release_session_lockEffect DEF Inv,
       SettledInv, RowsTellTheTruth, ObservedIsReal, Moved, Rested, DeliveryChanged,
       InboxChanged, DeliveriesFreed, InboxFreed
<1>17. ASSUME NEW h \in Handlers, mark_delivery_ambiguous(h) PROVE SettledInv'
    BY <1>17, <1>0, Basics, ContinuationAssumption, mark_delivery_ambiguousEffect DEF
       Inv, SettledInv, RowsTellTheTruth, ObservedIsReal, Moved, Rested,
       DeliveryChanged, InboxChanged, DeliveriesFreed, InboxFreed
<1>18. ASSUME NEW h \in Handlers, mark_delivery_dead(h) PROVE SettledInv'
    BY <1>18, <1>0, Basics, ContinuationAssumption, mark_delivery_deadEffect DEF Inv,
       SettledInv, RowsTellTheTruth, ObservedIsReal, Moved, Rested, DeliveryChanged,
       InboxChanged, DeliveriesFreed, InboxFreed
<1>19. ASSUME NEW h \in Handlers, release_claim_after_error(h) PROVE SettledInv'
    BY <1>19, <1>0, Basics, ContinuationAssumption, release_claim_after_errorEffect DEF
       Inv, SettledInv, RowsTellTheTruth, ObservedIsReal, Moved, Rested,
       DeliveryChanged, InboxChanged, DeliveriesFreed, InboxFreed
<1>20. ASSUME NEW h \in Handlers, Nack(h) PROVE SettledInv'
    BY <1>20, <1>0, Basics, ContinuationAssumption, NackEffect DEF Inv, SettledInv,
       RowsTellTheTruth, ObservedIsReal, Moved, Rested, DeliveryChanged, InboxChanged,
       DeliveriesFreed, InboxFreed
<1>21. ASSUME NEW h \in Handlers, Redeliver(h) PROVE SettledInv'
    BY <1>21, <1>0, Basics, ContinuationAssumption DEF Inv, SettledInv,
       RowsTellTheTruth, ObservedIsReal, Redeliver, runs, rows, session, Disturb
<1>22. ASSUME NEW h \in Handlers, Stall(h) PROVE SettledInv'
    BY <1>22, <1>0, Basics, ContinuationAssumption, StallEffect DEF Inv, SettledInv,
       RowsTellTheTruth, ObservedIsReal, Moved, Rested, DeliveryChanged, InboxChanged,
       DeliveriesFreed, InboxFreed
<1>23. ASSUME NEW h \in Handlers, HttpFails(h) PROVE SettledInv'
    BY <1>23, <1>0, Basics, ContinuationAssumption, HttpFailsEffect DEF Inv,
       SettledInv, RowsTellTheTruth, ObservedIsReal, Moved, Rested, DeliveryChanged,
       InboxChanged, DeliveriesFreed, InboxFreed
<1>24. ASSUME NEW h \in Handlers, DatabaseFails(h) PROVE SettledInv'
    BY <1>24, <1>0, Basics, ContinuationAssumption, DatabaseFailsEffect DEF Inv,
       SettledInv, RowsTellTheTruth, ObservedIsReal, Moved, Rested, DeliveryChanged,
       InboxChanged, DeliveriesFreed, InboxFreed
<1>25. ASSUME NEW h \in Handlers, NEW r \in Runs, claim_inbox(h, r) PROVE SettledInv'
    BY <1>25, <1>0, Basics, ContinuationAssumption, claim_inboxEffect DEF Inv,
       SettledInv, RowsTellTheTruth, ObservedIsReal, Moved, Rested, DeliveryChanged,
       InboxChanged, DeliveriesFreed, InboxFreed
<1>26. ASSUME NEW r \in Runs, EndRun(r) PROVE SettledInv'
    BY <1>26, <1>0, Basics, ContinuationAssumption DEF Inv, SettledInv,
       RowsTellTheTruth, ObservedIsReal, EndRun, runs, rows, session
<1>27. ASSUME NEW r \in Runs, BindContinuation(r) PROVE SettledInv'
    BY <1>27, <1>0, Basics, ContinuationAssumption DEF Inv, SettledInv,
       RowsTellTheTruth, ObservedIsReal, BindContinuation, runs, rows, session
<1>28. ASSUME NEW r \in Runs, registerContinuation(r) PROVE SettledInv'
    BY <1>28, <1>0, Basics, ContinuationAssumption DEF Inv, SettledInv,
       RowsTellTheTruth, ObservedIsReal, registerContinuation, runs, rows, session
<1>29. ASSUME NEW r \in Runs, EndWhileBinding(r) PROVE SettledInv'
    BY <1>29, <1>0, Basics, ContinuationAssumption DEF Inv, SettledInv,
       RowsTellTheTruth, ObservedIsReal, EndWhileBinding, runs, rows, session
<1>30. ASSUME NEW r \in Runs, materializeContinuationWake(r) PROVE SettledInv'
    BY <1>30, <1>0, Basics, ContinuationAssumption, WakeEffect DEF Inv, SettledInv,
       RowsTellTheTruth, ObservedIsReal, Moved, Rested, DeliveryChanged, InboxChanged,
       DeliveriesFreed, InboxFreed, materializeContinuationWake, session
<1>31. ASSUME NEW r \in Runs, repairTerminalContinuationWakes(r) PROVE SettledInv'
    BY <1>31, <1>0, Basics, ContinuationAssumption, WakeEffect DEF Inv, SettledInv,
       RowsTellTheTruth, ObservedIsReal, Moved, Rested, DeliveryChanged, InboxChanged,
       DeliveriesFreed, InboxFreed, repairTerminalContinuationWakes, session
<1>32. ASSUME NEW r \in Runs, cancelContinuation(r) PROVE SettledInv'
    BY <1>32, <1>0, Basics, ContinuationAssumption, cancelContinuationEffect DEF Inv,
       SettledInv, RowsTellTheTruth, ObservedIsReal, Moved, Rested, DeliveryChanged,
       InboxChanged, DeliveriesFreed, InboxFreed
<1>33. ASSUME NEW r \in Runs, WakeLost(r) PROVE SettledInv'
    BY <1>33, <1>0, Basics, ContinuationAssumption DEF Inv, SettledInv,
       RowsTellTheTruth, ObservedIsReal, WakeLost, runs, rows, session, Disturb
<1>34. ASSUME NEW r \in Runs, Publish(r) PROVE SettledInv'
    BY <1>34, <1>0, Basics, ContinuationAssumption DEF Inv, SettledInv,
       RowsTellTheTruth, ObservedIsReal, Publish, runs, rows, session, Disturb, Quiet
<1>35. ASSUME NEW r \in Runs, LeasesLapse(r) PROVE SettledInv'
    BY <1>35, <1>0, Basics, ContinuationAssumption, LeasesLapseEffect DEF Inv,
       SettledInv, RowsTellTheTruth, ObservedIsReal, Moved, Rested, DeliveryChanged,
       InboxChanged, DeliveriesFreed, InboxFreed
<1>36. ASSUME NEW r \in Runs, DispatchAges(r) PROVE SettledInv'
    BY <1>36, <1>0, Basics, ContinuationAssumption, DispatchAgesEffect DEF Inv,
       SettledInv, RowsTellTheTruth, ObservedIsReal, Moved, Rested, DeliveryChanged,
       InboxChanged, DeliveriesFreed, InboxFreed
<1>37. ASSUME NEW r \in Runs, PromptArrives(r) PROVE SettledInv'
    BY <1>37, <1>0, Basics, ContinuationAssumption DEF Inv, SettledInv,
       RowsTellTheTruth, ObservedIsReal, PromptArrives, runs, rows, session, Disturb,
       Quiet
<1>38. ASSUME NEW r \in Runs, TurnStarts(r) PROVE SettledInv'
    BY <1>38, <1>0, Basics, ContinuationAssumption DEF Inv, SettledInv,
       RowsTellTheTruth, ObservedIsReal, TurnStarts, runs, rows, session
<1>39. ASSUME NEW r \in Runs, TurnEnds(r) PROVE SettledInv'
    BY <1>39, <1>0, Basics, ContinuationAssumption DEF Inv, SettledInv,
       RowsTellTheTruth, ObservedIsReal, TurnEnds, runs, rows, session
<1>40. CASE Crash
    BY <1>40, <1>0, Basics, ContinuationAssumption, CrashEffect DEF Inv, SettledInv,
       RowsTellTheTruth, ObservedIsReal, Moved, Rested, DeliveryChanged, InboxChanged,
       DeliveriesFreed, InboxFreed, Idle
<1>41. CASE OwnTurnEnds
    BY <1>41, <1>0, Basics, ContinuationAssumption DEF Inv, SettledInv,
       RowsTellTheTruth, ObservedIsReal, OwnTurnEnds, runs, rows, session
<1>. QED  BY <1>1, <1>2, <1>3, <1>4, <1>5, <1>6, <1>7, <1>8, <1>9, <1>10, <1>11, <1>12,
          <1>13, <1>14, <1>15, <1>16, <1>17, <1>18, <1>19, <1>20, <1>21, <1>22, <1>23,
          <1>24, <1>25, <1>26, <1>27, <1>28, <1>29, <1>30, <1>31, <1>32, <1>33, <1>34,
          <1>35, <1>36, <1>37, <1>38, <1>39, <1>40, <1>41 DEF Next, HandlerStep,
          ControlStep, WorldStep

\* What the rows call finished is.
LEMMA TruthStep ==
    ASSUME Inv, [Next]_vars
    PROVE  RowsTellTheTruth'
<1>0. TypeOK
    BY DEF Inv
<1>1. CASE UNCHANGED vars
    BY <1>1 DEF Inv, SettledInv, SessionInv, RowsTellTheTruth, AckedIsSettled,
       ObservedIsReal, vars
<1>2. ASSUME NEW h \in Handlers, load_and_claim_delivery(h) PROVE RowsTellTheTruth'
    BY <1>2, <1>0, Basics, ContinuationAssumption, load_and_claim_deliveryEffect,
       VerdictFacts DEF Inv, SettledInv, SessionInv, RowsTellTheTruth, AckedIsSettled,
       ObservedIsReal, Moved, Rested, DeliveryChanged, InboxChanged, DeliveriesFreed,
       InboxFreed
<1>3. ASSUME NEW h \in Handlers, mark_inbox_processed_owned(h) PROVE RowsTellTheTruth'
    BY <1>3, <1>0, Basics, ContinuationAssumption, SettleInboxEffect DEF Inv,
       SettledInv, SessionInv, RowsTellTheTruth, AckedIsSettled, ObservedIsReal, Moved,
       Rested, DeliveryChanged, InboxChanged, DeliveriesFreed, InboxFreed,
       mark_inbox_processed_owned
<1>4. ASSUME NEW h \in Handlers, defer_inbox_owned(h) PROVE RowsTellTheTruth'
    BY <1>4, <1>0, Basics, ContinuationAssumption, SettleInboxEffect DEF Inv,
       SettledInv, SessionInv, RowsTellTheTruth, AckedIsSettled, ObservedIsReal, Moved,
       Rested, DeliveryChanged, InboxChanged, DeliveriesFreed, InboxFreed,
       defer_inbox_owned
<1>5. ASSUME NEW h \in Handlers, acquire_session_lock(h) PROVE RowsTellTheTruth'
    BY <1>5, <1>0, Basics, ContinuationAssumption, acquire_session_lockEffect DEF Inv,
       SettledInv, SessionInv, RowsTellTheTruth, AckedIsSettled, ObservedIsReal, Moved,
       Rested, DeliveryChanged, InboxChanged, DeliveriesFreed, InboxFreed
<1>6. ASSUME NEW h \in Handlers, get_target_message(h) PROVE RowsTellTheTruth'
    BY <1>6, <1>0, Basics, ContinuationAssumption, get_target_messageEffect DEF Inv,
       SettledInv, SessionInv, RowsTellTheTruth, AckedIsSettled, ObservedIsReal, Moved,
       Rested, DeliveryChanged, InboxChanged, DeliveriesFreed, InboxFreed
<1>7. ASSUME NEW h \in Handlers, continuation_turn_state(h, "turn") PROVE RowsTellTheTruth'
    BY <1>7, <1>0, Basics, ContinuationAssumption, turnEffect DEF Inv, SettledInv,
       SessionInv, RowsTellTheTruth, AckedIsSettled, ObservedIsReal, Moved, Rested,
       DeliveryChanged, InboxChanged, DeliveriesFreed, InboxFreed
<1>8. ASSUME NEW h \in Handlers, continuation_turn_state(h, "follow")
      PROVE  RowsTellTheTruth'
    BY <1>8, <1>0, Basics, ContinuationAssumption, followEffect DEF Inv, SettledInv,
       SessionInv, RowsTellTheTruth, AckedIsSettled, ObservedIsReal, Moved, Rested,
       DeliveryChanged, InboxChanged, DeliveriesFreed, InboxFreed
<1>9. ASSUME NEW h \in Handlers, session_is_busy(h) PROVE RowsTellTheTruth'
    BY <1>9, <1>0, Basics, ContinuationAssumption, session_is_busyEffect DEF Inv,
       SettledInv, SessionInv, RowsTellTheTruth, AckedIsSettled, ObservedIsReal, Moved,
       Rested, DeliveryChanged, InboxChanged, DeliveriesFreed, InboxFreed
<1>10. ASSUME NEW h \in Handlers, mark_dispatching(h) PROVE RowsTellTheTruth'
    BY <1>10, <1>0, Basics, ContinuationAssumption, mark_dispatchingEffect DEF Inv,
       SettledInv, SessionInv, RowsTellTheTruth, AckedIsSettled, ObservedIsReal, Moved,
       Rested, DeliveryChanged, InboxChanged, DeliveriesFreed, InboxFreed
<1>11. ASSUME NEW h \in Handlers, spawn_terminal_prompt(h) PROVE RowsTellTheTruth'
    BY <1>11, <1>0, Basics, ContinuationAssumption, spawn_terminal_promptEffect DEF
       Inv, SettledInv, SessionInv, RowsTellTheTruth, AckedIsSettled, ObservedIsReal,
       Moved, Rested, DeliveryChanged, InboxChanged, DeliveriesFreed, InboxFreed
<1>12. ASSUME NEW h \in Handlers, verify_after_dispatch(h) PROVE RowsTellTheTruth'
    BY <1>12, <1>0, Basics, ContinuationAssumption, verify_after_dispatchEffect DEF
       Inv, SettledInv, SessionInv, RowsTellTheTruth, AckedIsSettled, ObservedIsReal,
       Moved, Rested, DeliveryChanged, InboxChanged, DeliveriesFreed, InboxFreed
<1>13. ASSUME NEW h \in Handlers, mark_accepted(h) PROVE RowsTellTheTruth'
    BY <1>13, <1>0, Basics, ContinuationAssumption, mark_acceptedEffect DEF Inv,
       SettledInv, SessionInv, RowsTellTheTruth, AckedIsSettled, ObservedIsReal, Moved,
       Rested, DeliveryChanged, InboxChanged, DeliveriesFreed, InboxFreed
<1>14. ASSUME NEW h \in Handlers, defer_delivery(h) PROVE RowsTellTheTruth'
    BY <1>14, <1>0, Basics, ContinuationAssumption, defer_deliveryEffect DEF Inv,
       SettledInv, SessionInv, RowsTellTheTruth, AckedIsSettled, ObservedIsReal, Moved,
       Rested, DeliveryChanged, InboxChanged, DeliveriesFreed, InboxFreed
<1>15. ASSUME NEW h \in Handlers, mark_observed(h) PROVE RowsTellTheTruth'
    BY <1>15, <1>0, Basics, ContinuationAssumption, mark_observedEffect DEF Inv,
       SettledInv, SessionInv, RowsTellTheTruth, AckedIsSettled, ObservedIsReal, Moved,
       Rested, DeliveryChanged, InboxChanged, DeliveriesFreed, InboxFreed
<1>16. ASSUME NEW h \in Handlers, release_session_lock(h) PROVE RowsTellTheTruth'
    BY <1>16, <1>0, Basics, ContinuationAssumption, release_session_lockEffect DEF Inv,
       SettledInv, SessionInv, RowsTellTheTruth, AckedIsSettled, ObservedIsReal, Moved,
       Rested, DeliveryChanged, InboxChanged, DeliveriesFreed, InboxFreed
<1>17. ASSUME NEW h \in Handlers, mark_delivery_ambiguous(h) PROVE RowsTellTheTruth'
    BY <1>17, <1>0, Basics, ContinuationAssumption, mark_delivery_ambiguousEffect DEF
       Inv, SettledInv, SessionInv, RowsTellTheTruth, AckedIsSettled, ObservedIsReal,
       Moved, Rested, DeliveryChanged, InboxChanged, DeliveriesFreed, InboxFreed
<1>18. ASSUME NEW h \in Handlers, mark_delivery_dead(h) PROVE RowsTellTheTruth'
    BY <1>18, <1>0, Basics, ContinuationAssumption, mark_delivery_deadEffect DEF Inv,
       SettledInv, SessionInv, RowsTellTheTruth, AckedIsSettled, ObservedIsReal, Moved,
       Rested, DeliveryChanged, InboxChanged, DeliveriesFreed, InboxFreed
<1>19. ASSUME NEW h \in Handlers, release_claim_after_error(h) PROVE RowsTellTheTruth'
    <2>1. \A r \in Runs : inbox'[r].status = "processed" => inbox[r].status = "processed"
        BY <1>19, <1>0, release_claim_after_errorEffect DEF InboxFreed, InboxChanged
    <2>. QED  BY <1>19, <2>1, <1>0, release_claim_after_errorEffect
              DEF Inv, RowsTellTheTruth, AckedIsSettled, ObservedIsReal, DeliveriesFreed
<1>20. ASSUME NEW h \in Handlers, Nack(h) PROVE RowsTellTheTruth'
    BY <1>20, <1>0, Basics, ContinuationAssumption, NackEffect DEF Inv, SettledInv,
       SessionInv, RowsTellTheTruth, AckedIsSettled, ObservedIsReal, Moved, Rested,
       DeliveryChanged, InboxChanged, DeliveriesFreed, InboxFreed
<1>21. ASSUME NEW h \in Handlers, Redeliver(h) PROVE RowsTellTheTruth'
    BY <1>21, <1>0, Basics, ContinuationAssumption DEF Inv, SettledInv, SessionInv,
       RowsTellTheTruth, AckedIsSettled, ObservedIsReal, Redeliver, runs, rows, session,
       Disturb
<1>22. ASSUME NEW h \in Handlers, Stall(h) PROVE RowsTellTheTruth'
    BY <1>22, <1>0, Basics, ContinuationAssumption, StallEffect DEF Inv, SettledInv,
       SessionInv, RowsTellTheTruth, AckedIsSettled, ObservedIsReal, Moved, Rested,
       DeliveryChanged, InboxChanged, DeliveriesFreed, InboxFreed
<1>23. ASSUME NEW h \in Handlers, HttpFails(h) PROVE RowsTellTheTruth'
    BY <1>23, <1>0, Basics, ContinuationAssumption, HttpFailsEffect DEF Inv,
       SettledInv, SessionInv, RowsTellTheTruth, AckedIsSettled, ObservedIsReal, Moved,
       Rested, DeliveryChanged, InboxChanged, DeliveriesFreed, InboxFreed
<1>24. ASSUME NEW h \in Handlers, DatabaseFails(h) PROVE RowsTellTheTruth'
    BY <1>24, <1>0, Basics, ContinuationAssumption, DatabaseFailsEffect DEF Inv,
       SettledInv, SessionInv, RowsTellTheTruth, AckedIsSettled, ObservedIsReal, Moved,
       Rested, DeliveryChanged, InboxChanged, DeliveriesFreed, InboxFreed
<1>25. ASSUME NEW h \in Handlers, NEW r \in Runs, claim_inbox(h, r) PROVE RowsTellTheTruth'
    BY <1>25, <1>0, Basics, ContinuationAssumption, claim_inboxEffect DEF Inv,
       SettledInv, SessionInv, RowsTellTheTruth, AckedIsSettled, ObservedIsReal, Moved,
       Rested, DeliveryChanged, InboxChanged, DeliveriesFreed, InboxFreed
<1>26. ASSUME NEW r \in Runs, EndRun(r) PROVE RowsTellTheTruth'
    BY <1>26, <1>0, Basics, ContinuationAssumption DEF Inv, SettledInv, SessionInv,
       RowsTellTheTruth, AckedIsSettled, ObservedIsReal, EndRun, runs, rows, session
<1>27. ASSUME NEW r \in Runs, BindContinuation(r) PROVE RowsTellTheTruth'
    BY <1>27, <1>0, Basics, ContinuationAssumption DEF Inv, SettledInv, SessionInv,
       RowsTellTheTruth, AckedIsSettled, ObservedIsReal, BindContinuation, runs, rows,
       session
<1>28. ASSUME NEW r \in Runs, registerContinuation(r) PROVE RowsTellTheTruth'
    BY <1>28, <1>0, Basics, ContinuationAssumption DEF Inv, SettledInv, SessionInv,
       RowsTellTheTruth, AckedIsSettled, ObservedIsReal, registerContinuation, runs,
       rows, session
<1>29. ASSUME NEW r \in Runs, EndWhileBinding(r) PROVE RowsTellTheTruth'
    BY <1>29, <1>0, Basics, ContinuationAssumption DEF Inv, SettledInv, SessionInv,
       RowsTellTheTruth, AckedIsSettled, ObservedIsReal, EndWhileBinding, runs, rows,
       session
<1>30. ASSUME NEW r \in Runs, materializeContinuationWake(r) PROVE RowsTellTheTruth'
    BY <1>30, <1>0, Basics, ContinuationAssumption, WakeEffect DEF Inv, SettledInv,
       SessionInv, RowsTellTheTruth, AckedIsSettled, ObservedIsReal, Moved, Rested,
       DeliveryChanged, InboxChanged, DeliveriesFreed, InboxFreed,
       materializeContinuationWake, session
<1>31. ASSUME NEW r \in Runs, repairTerminalContinuationWakes(r) PROVE RowsTellTheTruth'
    BY <1>31, <1>0, Basics, ContinuationAssumption, WakeEffect DEF Inv, SettledInv,
       SessionInv, RowsTellTheTruth, AckedIsSettled, ObservedIsReal, Moved, Rested,
       DeliveryChanged, InboxChanged, DeliveriesFreed, InboxFreed,
       repairTerminalContinuationWakes, session
<1>32. ASSUME NEW r \in Runs, cancelContinuation(r) PROVE RowsTellTheTruth'
    BY <1>32, <1>0, Basics, ContinuationAssumption, cancelContinuationEffect DEF Inv,
       SettledInv, SessionInv, RowsTellTheTruth, AckedIsSettled, ObservedIsReal, Moved,
       Rested, DeliveryChanged, InboxChanged, DeliveriesFreed, InboxFreed
<1>33. ASSUME NEW r \in Runs, WakeLost(r) PROVE RowsTellTheTruth'
    BY <1>33, <1>0, Basics, ContinuationAssumption DEF Inv, SettledInv, SessionInv,
       RowsTellTheTruth, AckedIsSettled, ObservedIsReal, WakeLost, runs, rows, session,
       Disturb
<1>34. ASSUME NEW r \in Runs, Publish(r) PROVE RowsTellTheTruth'
    BY <1>34, <1>0, Basics, ContinuationAssumption DEF Inv, SettledInv, SessionInv,
       RowsTellTheTruth, AckedIsSettled, ObservedIsReal, Publish, runs, rows, session,
       Disturb, Quiet
<1>35. ASSUME NEW r \in Runs, LeasesLapse(r) PROVE RowsTellTheTruth'
    BY <1>35, <1>0, Basics, ContinuationAssumption, LeasesLapseEffect DEF Inv,
       SettledInv, SessionInv, RowsTellTheTruth, AckedIsSettled, ObservedIsReal, Moved,
       Rested, DeliveryChanged, InboxChanged, DeliveriesFreed, InboxFreed
<1>36. ASSUME NEW r \in Runs, DispatchAges(r) PROVE RowsTellTheTruth'
    BY <1>36, <1>0, Basics, ContinuationAssumption, DispatchAgesEffect DEF Inv,
       SettledInv, SessionInv, RowsTellTheTruth, AckedIsSettled, ObservedIsReal, Moved,
       Rested, DeliveryChanged, InboxChanged, DeliveriesFreed, InboxFreed
<1>37. ASSUME NEW r \in Runs, PromptArrives(r) PROVE RowsTellTheTruth'
    BY <1>37, <1>0, Basics, ContinuationAssumption DEF Inv, SettledInv, SessionInv,
       RowsTellTheTruth, AckedIsSettled, ObservedIsReal, PromptArrives, runs, rows,
       session, Disturb, Quiet
<1>38. ASSUME NEW r \in Runs, TurnStarts(r) PROVE RowsTellTheTruth'
    BY <1>38, <1>0, Basics, ContinuationAssumption DEF Inv, SettledInv, SessionInv,
       RowsTellTheTruth, AckedIsSettled, ObservedIsReal, TurnStarts, runs, rows, session
<1>39. ASSUME NEW r \in Runs, TurnEnds(r) PROVE RowsTellTheTruth'
    BY <1>39, <1>0, Basics, ContinuationAssumption DEF Inv, SettledInv, SessionInv,
       RowsTellTheTruth, AckedIsSettled, ObservedIsReal, TurnEnds, runs, rows, session
<1>40. CASE Crash
    BY <1>40, <1>0, Basics, ContinuationAssumption, CrashEffect DEF Inv, SettledInv,
       SessionInv, RowsTellTheTruth, AckedIsSettled, ObservedIsReal, Moved, Rested,
       DeliveryChanged, InboxChanged, DeliveriesFreed, InboxFreed, Idle
<1>41. CASE OwnTurnEnds
    BY <1>41, <1>0, Basics, ContinuationAssumption DEF Inv, SettledInv, SessionInv,
       RowsTellTheTruth, AckedIsSettled, ObservedIsReal, OwnTurnEnds, runs, rows,
       session
<1>. QED  BY <1>1, <1>2, <1>3, <1>4, <1>5, <1>6, <1>7, <1>8, <1>9, <1>10, <1>11, <1>12,
          <1>13, <1>14, <1>15, <1>16, <1>17, <1>18, <1>19, <1>20, <1>21, <1>22, <1>23,
          <1>24, <1>25, <1>26, <1>27, <1>28, <1>29, <1>30, <1>31, <1>32, <1>33, <1>34,
          <1>35, <1>36, <1>37, <1>38, <1>39, <1>40, <1>41 DEF Next, HandlerStep,
          ControlStep, WorldStep

-----------------------------------------------------------------------------
\* The invariant holds at the start.
LEMMA InvInit ==
    ASSUME Init
    PROVE  Inv
<1>1. Idle \in HandlerRow /\ NoDelivery \in DeliveryRow /\ NoInbox \in InboxRow
    BY DEF Idle, NoDelivery, NoInbox, HandlerRow, DeliveryRow, InboxRow, Pc, DeliveryStatus
<1>2. /\ Idle.pc = "idle" /\ Idle.started = FALSE /\ NoDelivery.status = "none"
      /\ NoDelivery.owner = "none" /\ NoInbox.status = "none"
    BY DEF Idle, NoDelivery, NoInbox
<1>3. TypeOK
    BY <1>1, <1>2, ContinuationAssumption, EndsAssumption DEF Init, TypeOK
<1>4. /\ \A h \in Handlers : handler[h].pc = "idle"
      /\ \A r \in Runs : /\ delivery[r].status = "none" /\ delivery[r].owner = "none"
                         /\ inbox[r].status = "none" /\ cont[r] # "manual_review"
                         /\ posted[r] = 0 /\ target[r] = "absent" /\ turn[r] = "none"
      /\ inflight = {}
    BY <1>2 DEF Init
<1>. QED
    BY <1>3, <1>4 DEF Inv, LockInv, ReadInv, PostInv, SessionInv, SettledInv,
       RowsTellTheTruth, AckedIsSettled, ObservedIsReal, UnderLock

\* The inductive invariant holds: sessions are worked on under their lock, a
\* handler's reading of a delivery it still owns is current, prompts are posted
\* behind their record, and settled rows belong to nobody (process_claimed).
THEOREM InvHolds == Spec => []Inv
<1>1. Init => Inv
    BY InvInit
<1>2. Inv /\ [Next]_vars => Inv'
    <2>. SUFFICES ASSUME Inv, [Next]_vars
                  PROVE  Inv'
        OBVIOUS
    <2>. QED  BY TypeStep, LockStep, ReadStep, PostStep, SessionStep, SettledStep, TruthStep
              DEF Inv
<1>. QED  BY <1>1, <1>2, PTL DEF Spec

\* Rows, sessions and handlers keep their types.
THEOREM TypeCorrect == Spec => []TypeOK
<1>1. Inv => TypeOK
    BY DEF Inv
<1>. QED  BY <1>1, InvHolds, PTL

\* However many handlers claim a wake, stall, fail and crash, its prompt is
\* posted at most once, and never without a prompt identity (mark_dispatching
\* fences the post, and a dispatch that has begun is never begun again).
THEOREM PromptedOnce == Spec => []PromptOnce
<1>1. Inv => PromptOnce
    BY Basics DEF Inv, PostInv, PromptOnce
<1>. QED  BY <1>1, InvHolds, PTL

\* A message is acknowledged only when nothing is left to do, and what the
\* tables say was seen in the session is there (mark_observed,
\* mark_delivery_ambiguous, mark_inbox_processed_owned).
THEOREM RowsAreTrue == Spec => []RowsTellTheTruth
<1>1. Inv => RowsTellTheTruth
    BY DEF Inv
<1>. QED  BY <1>1, InvHolds, PTL
====
