---------------------------- MODULE LiveSession -----------------------------
(***************************************************************************)
(* What an operator sees and does: the live runtime records a frame per    *)
(* decision in a bounded ring, the publisher turns frames into snapshots   *)
(* and patches, the browser adapter sends them over a connection that      *)
(* comes and goes, the browser folds them into its view, and the control   *)
(* panel passes commands to the risk engine whose state the next frames    *)
(* show.                                                                   *)
(*   packages/runtime/src/{live-runtime,ring-buffer,realtime-publisher,    *)
(*     providers,control}.ts                                               *)
(*   packages/presentation/src/{browser-adapter,patch-codec,frame-view}.ts *)
(* The publisher is called by the surrounding program; a call is a step.   *)
(***************************************************************************)
EXTENDS TradingCore

CONSTANTS Capacity,        \* recordingCapacity of the ring
          MaxFrames,       \* bound: frames recorded
          MaxCommands,     \* bound: control commands
          MaxStarts,       \* bound: start() calls of the adapter
          Slots,           \* transports that may be alive at the same time
          Nets             \* net signal strengths a tick may meet

ASSUME SessionAssumption == /\ Capacity \in Nat \ {0}
                            /\ {MaxFrames, MaxCommands, MaxStarts} \subseteq Nat /\ "none" \notin Slots
                            /\ Nets \subseteq Int

VARIABLES ring, frameSeq, ticking,          \* LiveRuntime
          lastIndex,                        \* RealtimePublisher
          socket, transport, heartbeat, stopped, starts,   \* BrowserAdapter: its connections;
          timer, orphans,                   \* the reconnect timer it holds, those it has lost track of
          browser,                          \* the folded view: [frames, history]
          intact, shifted, upTo,            \* ghosts, since its last snapshot: nothing was lost;
                                            \* the ring dropped a frame; frames at the last publish
          overlapped,                       \* ghost: the last start() met an earlier connection
          decidedAfter,                     \* ghost: commands on record when each frame was decided
          risk, commands                    \* the engine's state; ControlCommand events

runtime == <<ring, frameSeq, ticking, decidedAfter>>
adapter == <<socket, transport, heartbeat, stopped, starts, timer, orphans, overlapped>>
control == <<risk, commands>>
ghosts == <<intact, shifted, upTo>>
vars == <<runtime, lastIndex, adapter, browser, ghosts, control>>

EmptyView == [frames |-> <<>>, history |-> <<>>]

Init ==
  /\ ring = <<>> /\ frameSeq = 0 /\ ticking = FALSE /\ decidedAfter = <<>>
  /\ lastIndex = -1
  /\ socket = [s \in Slots |-> "free"] /\ transport = "none"
  /\ heartbeat = FALSE /\ stopped = FALSE /\ starts = 0
  /\ timer = FALSE /\ orphans = 0 /\ overlapped = FALSE
  /\ browser = EmptyView /\ intact = FALSE /\ shifted = FALSE /\ upTo = 0
  /\ risk = "RUN" /\ commands = <<>>

-----------------------------------------------------------------------------
(* LiveRuntime and its providers *)

\* createRiskProvider
RiskSnapshot == [halted |-> risk \in {"HALT", "FROZEN"}, budget_available |-> 1]
PortfolioSnapshot == [exposure |-> 0, max_exposure |-> 1]

RingPush(frame) == IF Len(ring) < Capacity THEN Append(ring, frame) ELSE Tail(Append(ring, frame))

StartRuntime == ticking' = TRUE /\ UNCHANGED <<ring, frameSeq, decidedAfter, lastIndex, adapter, browser, ghosts, control>>
StopRuntime == ticking' = FALSE /\ UNCHANGED <<ring, frameSeq, decidedAfter, lastIndex, adapter, browser, ghosts, control>>

\* Mutated form of FrameAction: the risk snapshot is ignored.
FrameActionUngated(net) == Action(net, [halted |-> FALSE, budget_available |-> 1], PortfolioSnapshot)
FrameAction(net) == Action(net, RiskSnapshot, PortfolioSnapshot)

\* tick(): a decision, made under the current risk state, is recorded.
TickRecords(net) ==
  /\ ticking /\ frameSeq < MaxFrames
  /\ ring' = RingPush([index |-> frameSeq, risk |-> RiskSnapshot, action |-> FrameAction(net)])
  /\ frameSeq' = frameSeq + 1 /\ decidedAfter' = Append(decidedAfter, Len(commands))
  /\ shifted' = IF Len(ring) = Capacity THEN TRUE ELSE shifted
  /\ UNCHANGED <<ticking, lastIndex, adapter, browser, intact, upTo, control>>

-----------------------------------------------------------------------------
(* Views *)

frameView(frame) == [index |-> frame.index, action |-> frame.action]
\* dashboardView: the frame and whether its explainability panel gives a reason
\* for a rejection.  The risk state of a frame is not part of what is published.
View(frame) == [index |-> frameView(frame).index, action |-> frameView(frame).action,
                rejected |-> frame.action \in {"HOLD", "WAIT"}]
HistoryItem(frame) == [index |-> frame.index, action |-> frame.action]
presentSession(frames) == [frames |-> [i \in DOMAIN frames |-> View(frames[i])],
                           history |-> [i \in DOMAIN frames |-> HistoryItem(frames[i])]]

applyPatch(view, patch) ==
  IF patch.op = "reset" THEN patch.session
  ELSE [frames |-> Append(view.frames, patch.frame), history |-> Append(view.history, patch.history)]

-----------------------------------------------------------------------------
(* RealtimePublisher through safeSend: what goes to no transport, or to a  *)
(* socket its peer has left, is lost without an error.                     *)

Delivers == transport # "none" /\ socket[transport] = "open"

PublishSnapshot ==
  /\ lastIndex' = Len(ring) - 1
  /\ \/ /\ Delivers /\ intact' = TRUE
        /\ browser' = applyPatch(browser, [op |-> "reset", session |-> presentSession(ring)])
     \/ ~Delivers /\ intact' = FALSE /\ UNCHANGED browser
  /\ shifted' = FALSE /\ upTo' = frameSeq
  /\ UNCHANGED <<runtime, adapter, control>>

\* Mutated form of NewFrames: one frame too far.
NewFramesSkipping == SubSeq(ring, lastIndex + 3, Len(ring))
\* The frames at positions after lastIndex.
NewFrames == SubSeq(ring, lastIndex + 2, Len(ring))

PublishNew ==
  /\ lastIndex' = Len(ring) - 1
  /\ \/ /\ Delivers /\ UNCHANGED intact
        /\ browser' = FoldLeft(LAMBDA v, f : applyPatch(v, [op |-> "append-frame", frame |-> View(f),
                                                            history |-> HistoryItem(f)]),
                               browser, NewFrames)
     \/ ~Delivers /\ intact' = (IF NewFrames = <<>> THEN intact ELSE FALSE) /\ UNCHANGED browser
  /\ upTo' = frameSeq
  /\ UNCHANGED <<runtime, adapter, shifted, control>>

-----------------------------------------------------------------------------
(* BrowserAdapter *)

Connect ==
  \E s \in Slots : /\ socket[s] = "free"
                   /\ socket' = [socket EXCEPT ![s] = "open"]
                   /\ transport' = s /\ heartbeat' = TRUE

Live == {s \in Slots : socket[s] # "free"}

\* start() looks at nothing: an earlier connection, its close event or its timer
\* may still be about.
StartAdapter ==
  /\ starts < MaxStarts
  /\ starts' = starts + 1 /\ stopped' = FALSE
  /\ overlapped' = (Live # {} \/ timer \/ orphans > 0)
  /\ Connect
  /\ UNCHANGED <<runtime, lastIndex, timer, orphans, browser, ghosts, control>>

\* The browser or the network goes away; the close event comes later.
PeerLeaves(s) ==
  /\ socket[s] = "open" /\ socket' = [socket EXCEPT ![s] = "gone"]
  /\ UNCHANGED <<runtime, lastIndex, transport, heartbeat, stopped, starts, timer, orphans, overlapped,
                 browser, ghosts, control>>

\* Mutated form of HandleClose: nothing schedules the next connection.
HandleCloseForGood(s) ==
  /\ socket[s] = "gone" /\ socket' = [socket EXCEPT ![s] = "free"]
  /\ heartbeat' = FALSE /\ transport' = "none"
  /\ UNCHANGED <<runtime, lastIndex, stopped, starts, timer, orphans, overlapped, browser, ghosts, control>>
\* The close event of any connection, of one already replaced too: it drops the
\* current transport, and the timer it sets takes the place of the one held.
HandleClose(s) ==
  /\ socket[s] = "gone" /\ socket' = [socket EXCEPT ![s] = "free"]
  /\ heartbeat' = FALSE /\ transport' = "none"
  /\ timer' = (timer \/ ~stopped)
  /\ orphans' = IF timer /\ ~stopped THEN orphans + 1 ELSE orphans
  /\ UNCHANGED <<runtime, lastIndex, stopped, starts, overlapped, browser, ghosts, control>>

\* Timers of one delay fire in the order they were set.
ReconnectFires ==
  /\ \/ orphans > 0 /\ orphans' = orphans - 1 /\ UNCHANGED timer
     \/ orphans = 0 /\ timer /\ timer' = FALSE /\ UNCHANGED orphans
  /\ Connect
  /\ UNCHANGED <<runtime, lastIndex, stopped, starts, overlapped, browser, ghosts, control>>

\* Mutated form of StopAdapter: the reconnect timer is left running.
StopAdapterKeepingTimer ==
  /\ stopped' = TRUE
  /\ heartbeat' = FALSE /\ transport' = "none"
  /\ socket' = [s \in Slots |-> IF s = transport THEN "gone" ELSE socket[s]]
  /\ UNCHANGED <<runtime, lastIndex, starts, timer, orphans, overlapped, browser, ghosts, control>>
StopAdapter ==
  /\ stopped' = TRUE
  /\ heartbeat' = FALSE /\ timer' = FALSE /\ transport' = "none"
  /\ socket' = [s \in Slots |-> IF s = transport THEN "gone" ELSE socket[s]]
  /\ UNCHANGED <<runtime, lastIndex, starts, orphans, overlapped, browser, ghosts, control>>

-----------------------------------------------------------------------------
(* ControlPanel.  The port (external) carries a command out or throws.     *)

Target == [run |-> "RUN", stop |-> "SAFE_MODE", emergency_exit |-> "HALT"]

Recorded(kind, accepted) == IF accepted THEN Append(commands, kind) ELSE commands

Command(kind, accepted) ==
  /\ Len(commands) < MaxCommands
  /\ risk' = IF accepted THEN Target[kind] ELSE risk
  /\ commands' = Recorded(kind, accepted)
  /\ UNCHANGED <<runtime, lastIndex, adapter, browser, ghosts>>

Next ==
  \/ StartRuntime \/ StopRuntime
  \/ \E net \in Nets : TickRecords(net)
  \/ PublishSnapshot \/ PublishNew
  \/ StartAdapter \/ ReconnectFires \/ StopAdapter
  \/ \E s \in Slots : PeerLeaves(s) \/ HandleClose(s)
  \/ \E kind \in DOMAIN Target, accepted \in BOOLEAN : Command(kind, accepted)

(* Timers fire and a connection that is gone reports its close. *)
Fairness == WF_vars(ReconnectFires) /\ \A s \in Slots : WF_vars(HandleClose(s))
Spec == Init /\ [][Next]_vars /\ Fairness

-----------------------------------------------------------------------------

(* The ring always holds the newest frames, without a hole, whatever the   *)
(* runtime does after it is full: the history a replay would be given.     *)
RingHoldsNewest ==
  /\ Len(ring) = Min({frameSeq, Capacity})
  /\ \A i \in DOMAIN ring : ring[i].index = frameSeq - Len(ring) + i - 1

(* A browser that has lost nothing since its last snapshot shows exactly   *)
(* the frames published, in the frames and in the history, through          *)
(* disconnections and repeated publishing: as long as the ring has dropped  *)
(* no frame since that snapshot.  After that nothing is promised, frames    *)
(* are then left out on a connection that works (PublishNewIsCurrent).      *)
BrowserIsComplete == intact /\ ~shifted => browser = presentSession(SubSeq(ring, 1, lastIndex + 1))

(* Frames never appear twice or out of order in the browser, even when     *)
(* patches were lost in between or the ring has dropped frames.            *)
BrowserIsOrdered ==
  \A i \in 2..Len(browser.frames) : browser.frames[i - 1].index < browser.frames[i].index

(* The browser follows the ring: always in order, without a gap until the  *)
(* ring drops its first frame after the snapshot.                          *)
BrowserFollowsRing == RingHoldsNewest /\ BrowserIsOrdered /\ BrowserIsComplete

(* Whatever the order of start(), stop(), closes and timers, each start()  *)
(* accounts for at most one connection or timer, also when the close event *)
(* of an old connection hits a new one; and where start() met no earlier   *)
(* connection there is only one of them, and none once it is stopped.      *)
(* A start() before the last close event does give two.                    *)
ConnectionsPerStart ==
  /\ Cardinality(Live) + orphans + (IF timer THEN 1 ELSE 0) <= starts
  /\ heartbeat <=> transport # "none"
  /\ ~overlapped => /\ Cardinality(Live) + orphans + (IF timer THEN 1 ELSE 0) <= 1
                    /\ stopped => ~timer /\ orphans = 0 /\ transport = "none"

(* A frame decided when the last command on record was an emergency exit   *)
(* reaches the browser as a WAIT with a reason for its rejection.  (That   *)
(* the engine is halted is not itself published.)                          *)
ExitedFramesWait ==
  \A v \in ToSet(browser.frames) :
    LET n == decidedAfter[v.index + 1]
    IN  n > 0 /\ commands[n] = "emergency_exit" => v.action = "WAIT" /\ v.rejected

(* The log of control commands tells the truth: the engine is in the state *)
(* the last recorded command put it in, also when the engine refused one.  *)
ControlIsAudited == risk = IF commands = <<>> THEN "RUN" ELSE Target[Last(commands)]

(* An operator's command is on record exactly when it took effect, and an  *)
(* emergency exit stops the decisions the browser is shown.                *)
CommandsTakeEffect == ExitedFramesWait /\ ControlIsAudited

(* A started adapter that is not stopped always gets its connection back.  *)
AdapterReconnects == (starts > 0) ~> (transport # "none" \/ stopped)

(* "emit an append-frame patch for each frame newer than the last publish" *)
(* (realtime-publisher.ts:37): a browser that has lost nothing since its   *)
(* snapshot ends with the newest frame there was at the last publish.      *)
PublishNewIsCurrent ==
  intact /\ upTo > 0 => browser.frames # <<>> /\ Last(browser.frames).index = upTo - 1
=============================================================================
