------------------------------ MODULE EventLog ------------------------------
(***************************************************************************)
(* The event log in use: it grows, an entry is altered behind its back,    *)
(* replay sessions over slices of it are created, moved about and run to   *)
(* the end, and an incident replays all of it.  An operator plays a        *)
(* recording; since that shares no state with the log, a behaviour either  *)
(* opens a recording or works on the log.                                  *)
(*   packages/replay-engine/src/{engine,session,audit,console-session,     *)
(*     replay-state-machine}.ts                                            *)
(*   packages/ops/src/failure-automation.ts                                *)
(*   packages/research-platform/src/replay-ext.ts                          *)
(***************************************************************************)
EXTENDS EventStore

CONSTANTS MaxLog,        \* bound: events appended
          MaxSessions,   \* bound: replay sessions created
          MaxReplay,     \* bound: events in the replay log
          FrameCounts,   \* lengths of the recording the operator may open
          Closed         \* no recording is open

ASSUME EventLogAssumption == {MaxLog, MaxSessions, MaxReplay} \cup FrameCounts \subseteq Nat /\ Closed \notin Nat

VARIABLES log, sealed,     \* the store; ghost: as it was sealed
          sessions,        \* sequence of ReplaySessions, in the order of their ids
          replayLog,       \* the replay engine's own events
          incidents,       \* reports of FailureAutomation
          frames, console  \* the recording; OperatorReplaySession: [state, cursor]

source == <<log, sealed>>
replay == <<sessions, replayLog, incidents>>
vars == <<source, replay, frames, console>>

Init ==
  /\ log = <<>> /\ sealed = <<>>
  /\ sessions = <<>> /\ replayLog = <<>> /\ incidents = <<>>
  /\ frames \in FrameCounts \cup {Closed} /\ console = [state |-> "IDLE", cursor |-> 0]

-----------------------------------------------------------------------------
(* The source log *)

Inputs == {Event("MarketData.trade", "c2", "", 1, 2, <<"t">>),
           Event("Decision.outcome", "c1", "s1", 2, 1, <<"buy">>),
           Event("Decision.outcome", "c2", "", 2, 1, <<"sell">>)}

AppendEvent(input) ==
  /\ Len(log) < MaxLog /\ decisionClassValid(input)
  /\ log' = append(log, input) /\ sealed' = append(sealed, input)
  /\ UNCHANGED <<replay, frames, console>>

\* Something writes to an entry that all() handed out.
Tamper(i) ==
  /\ log = sealed
  /\ log' = [log EXCEPT ![i].payload = <<"altered">>]
  /\ UNCHANGED <<sealed, replay, frames, console>>

-----------------------------------------------------------------------------
(* ReplayEngine.  A session holds references to the events of its slice,   *)
(* here their seq; idx is the number of events applied.                    *)

Windows == {[asOf |-> 2, from |-> 1, to |-> MaxLog],      \* the whole log
            [asOf |-> 1, from |-> 1, to |-> MaxLog],      \* as of a time
            [asOf |-> 2, from |-> 2, to |-> MaxLog]}      \* by seq
slice(w) ==
  Filter([i \in DOMAIN log |-> i],
         {i \in DOMAIN log : log[i].event_time <= w.asOf /\ i >= w.from /\ i <= w.to})

\* The rolling hash works on the stored hashes of the events.
rolled(hashes) ==
  LET h[k \in 0 .. Len(hashes)] == IF k = 0 THEN <<>> ELSE chainHash(h[k - 1], hashes[k])
  IN h[Len(hashes)]
hashesOf(positions) == [k \in DOMAIN positions |-> log[positions[k]].hash]
foldHash(positions) == rolled(hashesOf(positions))
AppliedBy(s) == SubSeq(s.slice, 1, s.idx)
appliedEvents(s) == [k \in 1..s.idx |-> log[s.slice[k]]]
stateHash(s) == foldHash(AppliedBy(s))

ReplayEvent(type, id) == [type |-> type, session |-> id]
CanReplay == Len(replayLog) < MaxReplay

CreateSession(w) ==
  /\ CanReplay /\ Len(sessions) < MaxSessions
  /\ sessions' = Append(sessions, [slice |-> slice(w), idx |-> 0, status |-> "running"])
  /\ replayLog' = Append(replayLog, ReplayEvent("started", Len(sessions) + 1))
  /\ UNCHANGED <<source, incidents, frames, console>>

Paused(s) == IF s.status = "running" THEN [s EXCEPT !.status = "paused"] ELSE s
\* Mutated form of Resumed: whatever the status.
ResumedAlways(s) == [s EXCEPT !.status = "running"]
Resumed(s) == IF s.status = "paused" THEN [s EXCEPT !.status = "running"] ELSE s
\* Before the start when the slice does not have the event.
Sought(s, toSeq) == [s EXCEPT !.idx = IF toSeq \in ToSet(s.slice)
                                      THEN CHOOSE k \in DOMAIN s.slice : s.slice[k] = toSeq ELSE 0]

\* Each call records its event, whether or not the session changed.
Control(id, type, after) ==
  /\ CanReplay
  /\ sessions' = [sessions EXCEPT ![id] = after]
  /\ replayLog' = Append(replayLog, ReplayEvent(type, id))
  /\ UNCHANGED <<source, incidents, frames, console>>
Pause(id) == Control(id, "paused", Paused(sessions[id]))
Resume(id) == Control(id, "resumed", Resumed(sessions[id]))
Seek(id, toSeq) == Control(id, "seeked", Sought(sessions[id], toSeq))

\* applyNext until it returns null: from wherever the session stands.
Finished(s) == [s EXCEPT !.idx = Len(s.slice), !.status = "finished"]
FinishedEvent(s, id) ==
  [type |-> "finished", session |-> id, hash |-> stateHash(s), applied |-> Len(appliedEvents(s))]

RunToEnd(id) ==
  /\ CanReplay
  /\ sessions' = [sessions EXCEPT ![id] = Finished(@)]
  /\ replayLog' = Append(replayLog, FinishedEvent(Finished(sessions[id]), id))
  /\ UNCHANGED <<source, incidents, frames, console>>

\* known is a ghost: the length of the log then.
Incident(s, id) ==
  [session |-> id, decisions |-> {d.decision_id : d \in decisionRecords(appliedEvents(s))}, known |-> Len(log)]

\* FailureAutomation.onFailure: a session over the whole log, run to the end.
OnFailure ==
  LET id == Len(sessions) + 1
      s == Finished([slice |-> slice([asOf |-> 2, from |-> 1, to |-> MaxLog]), idx |-> 0, status |-> "running"])
  IN /\ Len(replayLog) + 1 < MaxReplay /\ id <= MaxSessions
     /\ sessions' = Append(sessions, s)
     /\ replayLog' = replayLog \o <<ReplayEvent("started", id), FinishedEvent(s, id)>>
     /\ incidents' = Append(incidents, Incident(s, id))
     /\ UNCHANGED <<source, frames, console>>

\* replayAuditProjection over the events of one session.
audit(id) ==
  LET count(type) == Cardinality({k \in DOMAIN replayLog : replayLog[k].session = id /\ replayLog[k].type = type})
  IN [pauses |-> count("paused"), resumes |-> count("resumed"), seeks |-> count("seeked"),
      finished |-> count("finished") > 0]

\* diffSessions: do two sessions show the same state?
SameState(s, t) == stateHash(s) = stateHash(t)

-----------------------------------------------------------------------------
(* OperatorReplaySession.  A call the state does not allow throws and      *)
(* changes nothing.                                                        *)

REPLAY_TRANSITIONS ==
  [IDLE |-> {"LOADED"}, LOADED |-> {"PLAYING", "LOADED"}, PLAYING |-> {"PAUSED", "COMPLETED", "STOPPED"},
   PAUSED |-> {"PLAYING", "STOPPED", "PAUSED"}, STOPPED |-> {"LOADED"}, COMPLETED |-> {"LOADED"}]

Quiet == UNCHANGED <<source, replay, frames>>
Moved(i) == IF i \in 0..frames - 1 THEN i ELSE console.cursor

\* load() and reset(): the state has changed when an empty recording makes
\* the cursor throw.
Load ==
  /\ "LOADED" \in REPLAY_TRANSITIONS[console.state]
  /\ console' = [state |-> "LOADED", cursor |-> Moved(0)] /\ Quiet
\* play(), pause() and stop()
Transport(to) ==
  /\ to \in REPLAY_TRANSITIONS[console.state]
  /\ console' = [console EXCEPT !.state = to] /\ Quiet
\* seek(), step() and seekToDecision()
Navigate(i) ==
  /\ console.state \in {"LOADED", "PAUSED"} /\ i \in 0..frames - 1
  /\ console' = [console EXCEPT !.cursor = i] /\ Quiet

AdvancedState(next) == IF next >= frames - 1 THEN "COMPLETED" ELSE "PLAYING"
\* Mutated form of Advance: the cursor is moved back at the last frame.
AdvanceLooping ==
  /\ console.state = "PLAYING"
  /\ console' = [console EXCEPT !.cursor = IF @ + 1 < frames THEN @ + 1 ELSE 0] /\ Quiet
Advance ==
  /\ console.state = "PLAYING"
  /\ console' = [state |-> AdvancedState(console.cursor + 1), cursor |-> Moved(console.cursor + 1)] /\ Quiet

ByLog ==
  \/ \E input \in Inputs : AppendEvent(input)
  \/ \E i \in DOMAIN log : Tamper(i)
  \/ \E w \in Windows : CreateSession(w)
  \/ \E id \in DOMAIN sessions : \/ Pause(id) \/ Resume(id) \/ RunToEnd(id)
                                 \/ \E toSeq \in 1..MaxLog : Seek(id, toSeq)
  \/ OnFailure
ByOperator ==
  \/ Load \/ Advance
  \/ \E to \in {"PLAYING", "PAUSED", "STOPPED"} : Transport(to)
  \/ \E i \in 0..frames - 1 : Navigate(i)
Next == (frames = Closed /\ ByLog) \/ (frames # Closed /\ ByOperator)

(* The interface calls advance() on a timer while it plays. *)
Spec == Init /\ [][Next]_vars /\ WF_vars(frames # Closed /\ Advance)

-----------------------------------------------------------------------------

(* INV-E1: verifyChain answers true exactly when every entry is still what *)
(* was sealed, whichever entry was altered and whatever came after it.     *)
ChainDetectsTampering == verifyChain(log) <=> (log = sealed)

\* Schema migrations that may be registered, in any order.
Migrations == {[from |-> 1, to |-> 2], [from |-> 2, to |-> 3]}

(* An event read through the registry has the current version whenever the *)
(* steps from its own version on are there, in whatever order they were    *)
(* registered, and each of them was applied once and in ascending order.   *)
UpcastReachesCurrent ==
  \A e \in ToSet(sealed), order \in SetToAllKPermutations(Migrations) :
    LET steps == FoldLeft(register, <<>>, order)
        current == currentVersion(steps, e.schema_version)
        below == {v \in 1..2 : e.schema_version <= v /\ v < current}
    IN below \subseteq {s.from : s \in ToSet(steps)} =>
         upcast(steps, e) = [e EXCEPT !.schema_version = Max({current, @}),
                                      !.payload = @ \o Filter(<<1, 2>>, below)]

(* History is read as it was written: tampering shows, and old schema      *)
(* versions are brought to the current one.                                *)
HistoryIsIntact == ChainDetectsTampering /\ UpcastReachesCurrent

(* Whatever pauses and seeks came before, a replay that reports its end    *)
(* has applied every event of its slice, and the hash it records is that   *)
(* of the whole slice.                                                     *)
FinishedIsWhole ==
  \A r \in ToSet(replayLog) : r.type = "finished" =>
    r.applied = Len(sessions[r.session].slice) /\ r.hash = foldHash(sessions[r.session].slice)

(* The audit of a session, derived from the replay log, says finished      *)
(* exactly when the session is, however often it was sought or resumed.    *)
AuditIsTruthful ==
  \A id \in DOMAIN sessions : audit(id).finished <=> sessions[id].status = "finished"

(* Two sessions compare equal exactly when they have applied the same      *)
(* events: a difference in what was replayed is never hidden.              *)
DiffTellsSessionsApart ==
  \A s, t \in ToSet(sessions) : SameState(s, t) <=> AppliedBy(s) = AppliedBy(t)

(* An incident report names the decisions of every cycle in the log at the *)
(* time of the failure, events of interleaved cycles included.             *)
IncidentCoversLog ==
  \A r \in ToSet(incidents) : r.decisions = Correlations(SubSeq(log, 1, r.known))

(* A recording is complete only at its last frame.                         *)
CompletedMeansLast == console.state = "COMPLETED" => console.cursor = Max({0, frames - 1})

(* A replay tells what it did: its end, its audit, its comparison with     *)
(* another, its incident report and the console over it.                   *)
ReplayIsTruthful ==
  /\ FinishedIsWhole /\ AuditIsTruthful /\ DiffTellsSessionsApart
  /\ IncidentCoversLog /\ CompletedMeansLast

(* Playback ends: at the last frame or by the operator's hand.             *)
PlaybackEnds == (console.state = "PLAYING") ~> (console.state # "PLAYING")
=============================================================================
