------------------------------ MODULE Execution -----------------------------
(***************************************************************************)
(* The order path: the execution gateway, the exchange adapter behind it,  *)
(* the buffer of myOrder fills and the execution reconciler, composed with *)
(* the risk engine that approves the orders and keeps their budget.        *)
(*                                                                         *)
(* executeAsync runs without interruption up to its await; the promise is  *)
(* resolved by a later step, and anything may happen in between: a HALT,   *)
(* the kill switch, another call, a fill that overtakes the response.      *)
(*                                                                         *)
(* The venue (the exchange and the network to it) is external: it accepts  *)
(* or refuses an order, may lose the response, trades in parts up to the   *)
(* order's size, and repeats and reorders its fill messages.               *)
(*                                                                         *)
(* The process can crash: placeOrder drops the promise of its submission,  *)
(* so that one the venue refuses is an unhandled rejection.  The venue     *)
(* goes on without it.  Nothing of the path is persisted; a process        *)
(* started again knows nothing of the orders and is not modelled.          *)
(***************************************************************************)
EXTENDS RiskEngine

CONSTANTS
    Orders,       \* client_order_ids
    OrderOf,      \* the order each request's approval is used for
    SyncRequests, \* requests whose caller uses execute; the others, executeAsync
    MaxCalls,     \* bound: gateway calls, by request (1: the caller never retries)
    MaxTrades,    \* bound: trades per order
    VenueFaults   \* subset of {"reject", "throw", "lost_response"}

ASSUME OrderAssumption == OrderOf \in [Requests -> Orders] /\ SyncRequests \subseteq Requests
ASSUME CallAssumption == MaxCalls \in [Requests -> Nat] /\ MaxTrades \in Nat
ASSUME FaultAssumption == VenueFaults \subseteq {"reject", "throw", "lost_response"}

VARIABLES
    killEngaged,  \* KillSwitch.isEngaged()
    done,         \* ExecutionGateway.done
    calls,        \* gateway calls made so far, by request
    post,         \* the submission of a request on its way
    okCalls,      \* requests with an executeAsync call that returned ok: true
    refusedCalls, \* requests with one that returned ok: false
    sent,         \* adapter calls made, by order
    venue,        \* the exchange's side of each order
    buffer,       \* MyOrderFillBuffer.byOrder, in arrival order
    settled,      \* ExecutionReconciler.settled
    crashed       \* the process has ended in an unhandled rejection

gatewayVars == <<killEngaged, done, calls, post, okCalls, refusedCalls, sent, crashed>>
execVars == <<gatewayVars, venue, buffer, settled>>
vars == <<riskVars, execVars>>

\* A submission is "none", then "sync" or "posted" while the venue has not seen it
\* (made by execute and by executeAsync), "accepted" or "refused" while its
\* response is on its way, and "resolved".
Statuses == {"FILLED", "PARTIALLY_FILLED", "CANCELLED", "REJECTED"}
Unsettled == [status |-> "none", request |-> "none", filled |-> 0,
              risk_confirmed |-> FALSE, risk_released |-> FALSE]

Approved(r) == decisions[r].status = "approved"
token(r) == decisions[r].token
reservationOf(r) == reservations[decisions[r].reservation]

ExecInit ==
    /\ Init
    /\ killEngaged = FALSE
    /\ done = {}
    /\ calls = [r \in Requests |-> 0]
    /\ post = [r \in Requests |-> "none"]
    /\ okCalls = {}
    /\ refusedCalls = {}
    /\ sent = [c \in Orders |-> 0]
    /\ venue = [c \in Orders |-> [status |-> "none", size |-> 0, trades |-> << >>]]
    /\ buffer = [c \in Orders |-> << >>]
    /\ settled = [c \in Orders |-> Unsettled]
    /\ crashed = FALSE

-----------------------------------------------------------------------------
(* The gateway. *)

\* The common part of execute and executeAsync.  Each return of the code
\* before the adapter is called is a disjunct: already done, kill switch
\* engaged (the token is left alone), token not usable.
AlreadyDone(r) == OrderOf[r] \in done

\* Mutant: the token is not spent (and so not checked) by the gateway.
SendsWithoutToken(r) ==
    /\ ~AlreadyDone(r)
    /\ ~killEngaged
    /\ sent' = [sent EXCEPT ![OrderOf[r]] = @ + 1]
    /\ UNCHANGED riskVars

Blocked(r) ==
    /\ ~AlreadyDone(r)
    /\ killEngaged \/ ~isUsable(token(r))

Sends(r) ==
    /\ ~AlreadyDone(r)
    /\ ~killEngaged
    /\ AuthorizeExecution(token(r))
    /\ sent' = [sent EXCEPT ![OrderOf[r]] = @ + 1]

Call(r) ==
    /\ ~crashed
    /\ Approved(r)
    /\ calls[r] < MaxCalls[r]
    /\ calls' = [calls EXCEPT ![r] = @ + 1]

ExecuteAsync(r) ==
    /\ r \notin SyncRequests
    /\ Call(r)
    /\ \/ /\ AlreadyDone(r)
          /\ okCalls' = okCalls \cup {r}
          /\ UNCHANGED <<riskVars, refusedCalls, post, sent>>
       \/ /\ Blocked(r)
          /\ refusedCalls' = refusedCalls \cup {r}
          /\ UNCHANGED <<riskVars, okCalls, post, sent>>
       \/ /\ Sends(r)
          /\ post' = [post EXCEPT ![r] = "posted"]
          /\ UNCHANGED <<okCalls, refusedCalls>>
    /\ UNCHANGED <<killEngaged, done, venue, buffer, settled, crashed>>

\* The rest of executeAsync once the adapter's promise settles.
Resolve(r) == post' = [post EXCEPT ![r] = "resolved"]

SubmissionAccepted(r) ==
    /\ post[r] = "accepted"
    /\ Resolve(r)
    /\ done' = done \cup {OrderOf[r]}
    /\ okCalls' = okCalls \cup {r}
    /\ UNCHANGED <<riskVars, killEngaged, calls, refusedCalls, sent, venue, buffer, settled,
                   crashed>>

\* The adapter reports every failed request as REJECTED, one whose response
\* was lost after the venue took the order included.
SubmissionRejected(r) ==
    /\ \/ post[r] = "refused"
       \/ post[r] = "accepted" /\ "lost_response" \in VenueFaults
    /\ Resolve(r)
    /\ done' = done \cup {OrderOf[r]}
    /\ refusedCalls' = refusedCalls \cup {r}
    /\ UNCHANGED <<riskVars, killEngaged, calls, okCalls, sent, venue, buffer, settled,
                   crashed>>

\* submitOrder throws (the simulated venue's 'throw' mode): the order is not done.
\* Mutant: the exception is swallowed and the call never returns to its caller.
SubmissionThrowsSilently(r) ==
    /\ post[r] = "posted" /\ "throw" \in VenueFaults
    /\ Resolve(r)
    /\ UNCHANGED <<riskVars, killEngaged, done, calls, okCalls, refusedCalls, sent, venue,
                   buffer, settled, crashed>>

SubmissionThrows(r) ==
    /\ post[r] = "posted" /\ "throw" \in VenueFaults
    /\ Resolve(r)
    /\ refusedCalls' = refusedCalls \cup {r}
    /\ UNCHANGED <<riskVars, killEngaged, done, calls, okCalls, sent, venue, buffer, settled,
                   crashed>>

\* execute, the orchestrator's path: the adapter's placeOrder posts the order
\* without waiting for it, and nobody reconciles the order afterwards.
ExecuteSync(r) ==
    /\ r \in SyncRequests
    /\ Call(r)
    /\ \/ /\ AlreadyDone(r) \/ Blocked(r)
          /\ UNCHANGED <<riskVars, done, post, sent>>
       \/ /\ Sends(r)
          /\ done' = done \cup {OrderOf[r]}
          /\ post' = [post EXCEPT ![r] = "sync"]
    /\ UNCHANGED <<killEngaged, okCalls, refusedCalls, venue, buffer, settled, crashed>>

ToggleKillSwitch ==
    /\ ~crashed
    /\ killEngaged' = ~killEngaged
    /\ UNCHANGED <<riskVars, done, calls, post, okCalls, refusedCalls, sent,
                   venue, buffer, settled, crashed>>

-----------------------------------------------------------------------------
(* The venue. *)

\* The client_order_id is sent as the venue's identifier: a second order
\* under the same one is refused.
VenueAccepts(r) ==
    /\ post[r] \in {"posted", "sync"}
    /\ venue[OrderOf[r]].status = "none"
    /\ venue' = [venue EXCEPT ![OrderOf[r]].status = "live",
                              ![OrderOf[r]].size = reservationOf(r).amount]
    /\ post' = [post EXCEPT ![r] = IF @ = "sync" THEN "resolved" ELSE "accepted"]
    /\ crashed' \in {crashed, crashed \/ (post[r] = "sync" /\ "lost_response" \in VenueFaults)}
    /\ UNCHANGED <<riskVars, killEngaged, done, calls, okCalls, refusedCalls, sent,
                   buffer, settled>>

\* An error of the request: the answer is not ok, or there is none.  submitOrder
\* catches what privatePost throws; placeOrder has dropped its promise, nothing
\* handles the rejection, and Node ends the process.
VenueRefuses(r) ==
    /\ post[r] \in {"posted", "sync"}
    /\ venue[OrderOf[r]].status = "none" => "reject" \in VenueFaults
    /\ post' = [post EXCEPT ![r] = IF @ = "sync" THEN "resolved" ELSE "refused"]
    /\ crashed' = (crashed \/ post[r] = "sync")
    /\ UNCHANGED <<riskVars, killEngaged, done, calls, okCalls, refusedCalls, sent,
                   venue, buffer, settled>>

Traded(c) == SumFunction(venue[c].trades)

VenueTrades(c, amount) ==
    /\ venue[c].status = "live"
    /\ Len(venue[c].trades) < MaxTrades
    /\ amount > 0 /\ Traded(c) + amount <= venue[c].size
    /\ venue' = [venue EXCEPT ![c].trades = Append(@, amount)]
    /\ UNCHANGED <<riskVars, gatewayVars, buffer, settled>>

\* Wholly filled, or cancelled with or without fills.
VenueCloses(c) ==
    /\ venue[c].status = "live"
    /\ venue' = [venue EXCEPT ![c].status = "closed"]
    /\ UNCHANGED <<riskVars, gatewayVars, buffer, settled>>

-----------------------------------------------------------------------------
(* The fill buffer and the reconciler. *)

\* The fill message of trade t (its trade_uuid) arrives, in any order and any
\* number of times.
\* Mutant: no deduplication by trade_uuid.
IngestEveryMessage(c, t) ==
    /\ Len(buffer[c]) < 2 * MaxTrades
    /\ buffer' = [buffer EXCEPT ![c] = Append(@, [trade |-> t, amount |-> venue[c].trades[t]])]

Ingest(c, t) ==
    /\ \A k \in DOMAIN buffer[c] : buffer[c][k].trade # t
    /\ buffer' = [buffer EXCEPT ![c] = Append(@, [trade |-> t, amount |-> venue[c].trades[t]])]

DeliverFill(c, t) ==
    /\ Ingest(c, t)
    /\ UNCHANGED <<riskVars, gatewayVars, venue, settled>>

filledNotional(c) == SumFunction([k \in DOMAIN buffer[c] |-> buffer[c][k].amount])

deriveStatus(requested, filled, rejected) ==
    IF rejected THEN "REJECTED"
    ELSE IF filled <= 0 THEN "CANCELLED"
    ELSE IF filled >= requested THEN "FILLED"
    ELSE "PARTIALLY_FILLED"

\* reconcile: at most once per order.  confirmFill and release are no-ops
\* that return false when the reservation is not in a state they apply to.
\* Mutant: a partial fill gives back the whole reservation.
ReconcileReleasingRemainder(r, rejected) ==
    LET c == OrderOf[r]
        filled == filledNotional(c)
        res == decisions[r].reservation
        confirm == ~rejected /\ filled >= reservations[res].amount
    IN  /\ settled[c].status = "none"
        /\ \/ confirm /\ ConfirmFill(res)
           \/ ~confirm /\ Release(res)
        /\ settled' = [settled EXCEPT ![c] =
              [status |-> deriveStatus(reservations[res].amount, filled, rejected),
               request |-> r, filled |-> filled,
               risk_confirmed |-> confirm, risk_released |-> ~confirm]]
        /\ UNCHANGED <<gatewayVars, venue, buffer>>

ReconcileOrder(r, rejected) ==
    LET c == OrderOf[r]
        filled == filledNotional(c)
        res == decisions[r].reservation
        confirm == ~rejected /\ filled > 0
        effective == IF confirm THEN reservations[res].state = "reserved"
                                ELSE reservations[res].state # "released"
    IN  /\ settled[c].status = "none"
        /\ \/ effective /\ confirm /\ ConfirmFill(res)
           \/ effective /\ ~confirm /\ Release(res)
           \/ ~effective /\ UNCHANGED riskVars
        /\ settled' = [settled EXCEPT ![c] =
              [status |-> deriveStatus(reservations[res].amount, filled, rejected),
               request |-> r, filled |-> filled,
               risk_confirmed |-> confirm /\ effective,
               risk_released |-> ~confirm /\ effective]]
        /\ UNCHANGED <<gatewayVars, venue, buffer>>

\* The caller of executeAsync reconciles a refused submission at once, and an
\* accepted one when the venue is done with it and its fills have arrived.
AllFillsSeen(c) ==
    /\ venue[c].status = "closed"
    /\ \A t \in DOMAIN venue[c].trades : \E k \in DOMAIN buffer[c] : buffer[c][k].trade = t

CallerReconciles(r) ==
    /\ ~crashed
    /\ \/ r \in refusedCalls /\ ReconcileOrder(r, TRUE)
       \/ r \in okCalls /\ AllFillsSeen(OrderOf[r]) /\ ReconcileOrder(r, FALSE)

-----------------------------------------------------------------------------
RiskStep ==
    /\ ~crashed
    /\ \/ Lifecycle
       \/ Check
       \/ EmergencyHalt
       \/ StartRecovery("pass")
    /\ UNCHANGED execVars

VenueResponds(r) == VenueAccepts(r) \/ VenueRefuses(r)
GatewayResumes(r) ==
    /\ ~crashed
    /\ SubmissionAccepted(r) \/ SubmissionRejected(r) \/ SubmissionThrows(r)

VenueWorks(c) == VenueCloses(c) \/ \E amount \in Notionals : VenueTrades(c, amount)
FillsArrive(c) == ~crashed /\ \E t \in DOMAIN venue[c].trades : DeliverFill(c, t)

ExecNext ==
    \/ RiskStep
    \/ ToggleKillSwitch
    \/ \E r \in Requests : \/ ExecuteAsync(r) \/ ExecuteSync(r)
                           \/ VenueResponds(r) \/ GatewayResumes(r)
                           \/ CallerReconciles(r)
    \/ \E c \in Orders : VenueWorks(c) \/ FillsArrive(c)

ExecSpec == ExecInit /\ [][ExecNext]_vars

\* The venue answers, the event loop resumes the awaiting call, orders do not
\* stay open for ever, fill messages arrive, and the caller reconciles.
Fairness ==
    /\ \A r \in Requests : /\ WF_vars(VenueResponds(r))
                           /\ WF_vars(GatewayResumes(r))
                           /\ WF_vars(CallerReconciles(r))
    /\ \A c \in Orders : WF_vars(VenueCloses(c)) /\ WF_vars(FillsArrive(c))

FairExecSpec == ExecSpec /\ Fairness

-----------------------------------------------------------------------------
(* Properties. *)

Held(r) == Approved(r) /\ reservationOf(r).state \in {"reserved", "consumed"}

\* The reconciler's budget model ("avoid under-counting live risk"): whatever
\* the venue has traded for an order is still covered by a reservation, held
\* or consumed, of a request sent for it, before and after reconciliation.  A
\* process that has crashed keeps no budget.
LiveRiskCovered ==
    \A c \in Orders :
        Traded(c) > 0 /\ ~crashed =>
            \E r \in Requests : /\ OrderOf[r] = c
                                /\ post[r] \notin {"none", "refused"}
                                /\ Held(r)
                                /\ reservationOf(r).amount >= Traded(c)

\* INV-R13: the settled outcome of an order reports what the venue traded,
\* once each, under repeated and reordered fill messages.
OutcomeMatchesVenue ==
    \A c \in Orders :
        settled[c].status \in Statuses \ {"REJECTED"} =>
            /\ settled[c].filled = Traded(c)
            /\ settled[c].status = "FILLED" <=> Traded(c) = venue[c].size
            /\ settled[c].status = "CANCELLED" <=> Traded(c) = 0

\* INV-R14, INV-R16: reconciliation decides the fate of the reservation and
\* nothing undoes it: consumed for as long as the order counts as filled,
\* released exactly when it does not, never both.
OutcomeMatchesBudget ==
    \A c \in Orders :
        settled[c].status # "none" =>
            reservationOf(settled[c].request).state =
                IF settled[c].status \in {"FILLED", "PARTIALLY_FILLED"}
                   THEN "consumed" ELSE "released"

\* INV-R15: executeAsync never answers ok: true for an order the exchange did
\* not take.
OkMeansAccepted == \A r \in okCalls : venue[OrderOf[r]].status # "none"

\* What the callers, the reconciler and the risk budget say of an order agrees
\* with what the venue did with it, whatever the order of answers, fill messages,
\* halts and reconciliations.
OutcomesAreTruthful == OutcomeMatchesVenue /\ OutcomeMatchesBudget /\ OkMeansAccepted

Sending(c) == sent'[c] > sent[c]

\* INV-R1, INV-R2, INV-R5, INV-R7, INV-R12: an order leaves for the exchange at
\* most once, only in a step that spends a token usable at that moment, while
\* the budget for it is reserved, never outside RUN and SAFE_MODE and never with
\* the kill switch engaged.
SendsAreAuthorized ==
    [][\A c \in Orders : Sending(c) =>
          /\ sent'[c] = 1
          /\ ~killEngaged
          /\ riskState \in Trading
          /\ \E r \in Requests : /\ OrderOf[r] = c /\ Approved(r)
                                 /\ isUsable(token(r)) /\ ~isUsable(token(r))'
                                 /\ reservationOf(r).state = "reserved"]_vars

\* Every order executeAsync has sent is eventually settled, so that its
\* reservation is eventually consumed or released, unless a refused order of
\* the synchronous path (execute, placeOrder) ends the process: then the order
\* stays as the venue has it and nobody settles it.  An order of the synchronous
\* path itself is settled by nobody.
SentOrdersSettle ==
    \A r \in Requests :
        (post[r] \in {"posted", "accepted", "refused"})
            ~> (settled[OrderOf[r]].status # "none" \/ crashed)
=============================================================================
