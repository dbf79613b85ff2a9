------------------------- MODULE LiveSessionProofs --------------------------
(***************************************************************************)
(* Proofs about LiveSession, for every ring capacity, every number of      *)
(* frames, commands, starts and transports.                                *)
(***************************************************************************)
EXTENDS LiveSession, FoldTheorems

(***************************************************************************)
(* The connections.  Every live connection and every pending timer goes    *)
(* back to one start(): a close turns a connection into at most one timer, *)
(* a timer into one connection.  Where the last start() met nothing, there *)
(* is one of them at most, and the transport is that connection.           *)
(***************************************************************************)
AdapterTyped ==
    /\ socket \in [Slots -> {"free", "open", "gone"}]
    /\ transport \in Slots \cup {"none"}
    /\ heartbeat \in BOOLEAN /\ stopped \in BOOLEAN /\ timer \in BOOLEAN /\ overlapped \in BOOLEAN
    /\ starts \in Nat /\ orphans \in Nat

Timers == orphans + (IF timer THEN 1 ELSE 0)

Alone ==
    /\ orphans = 0
    /\ \/ Cardinality(Live) = 0
       \/ Cardinality(Live) = 1 /\ ~timer
    /\ stopped => ~timer /\ transport = "none"
    /\ ~stopped => \A s \in Slots : socket[s] # "free" => transport = s

AdapterInv ==
    /\ AdapterTyped
    /\ IsFiniteSet(Live) /\ Cardinality(Live) + Timers <= starts
    /\ heartbeat <=> transport # "none"
    /\ transport # "none" => socket[transport] # "free"
    /\ ~overlapped => Alone

\* Nothing is connected or scheduled at first.
LEMMA AdapterInitInv == Init => AdapterInv
<1> SUFFICES ASSUME Init PROVE AdapterInv
  OBVIOUS
<1>1. /\ socket = [s \in Slots |-> "free"] /\ transport = "none" /\ starts = 0 /\ orphans = 0
      /\ heartbeat = FALSE /\ stopped = FALSE /\ timer = FALSE /\ overlapped = FALSE
  BY DEF Init
<1>2. AdapterTyped
  BY <1>1 DEF AdapterTyped
<1>3. Live = {}
  BY <1>1 DEF Live
<1>4. IsFiniteSet(Live) /\ Cardinality(Live) = 0
  BY <1>3, FS_EmptySet
<1> QED
  BY <1>1, <1>2, <1>4 DEF AdapterInv, Alone, Timers

\* Connecting adds a live connection; a close takes one away; leaving and
\* stopping keep them all.
LEMMA LiveSockets ==
    ASSUME AdapterInv
    PROVE  /\ IsFiniteSet(Live) /\ Cardinality(Live) \in Nat
           /\ \A s \in Slots : socket[s] = "free" /\ socket' = [socket EXCEPT ![s] = "open"] =>
                 /\ IsFiniteSet(Live') /\ Cardinality(Live') = Cardinality(Live) + 1
                 /\ Live' = Live \cup {s}
           /\ \A s \in Slots : socket[s] = "gone" /\ socket' = [socket EXCEPT ![s] = "free"] =>
                 /\ IsFiniteSet(Live') /\ Cardinality(Live') = Cardinality(Live) - 1
                 /\ Cardinality(Live) >= 1 /\ Live' = Live \ {s}
           /\ (\A s \in Slots : socket'[s] # "free" <=> socket[s] # "free") => Live' = Live
<1>0. socket \in [Slots -> {"free", "open", "gone"}] /\ IsFiniteSet(Live)
  BY DEF AdapterInv, AdapterTyped
<1>1. Cardinality(Live) \in Nat
  BY <1>0, FS_CardinalityType
<1>2. ASSUME NEW s \in Slots, socket[s] = "free", socket' = [socket EXCEPT ![s] = "open"]
      PROVE  /\ IsFiniteSet(Live') /\ Cardinality(Live') = Cardinality(Live) + 1
             /\ Live' = Live \cup {s}
  <2>1. Live' = Live \cup {s} /\ s \notin Live
    BY <1>0, <1>2 DEF Live
  <2> QED
    BY <1>0, <2>1, FS_AddElement
<1>3. ASSUME NEW s \in Slots, socket[s] = "gone", socket' = [socket EXCEPT ![s] = "free"]
      PROVE  /\ IsFiniteSet(Live') /\ Cardinality(Live') = Cardinality(Live) - 1
             /\ Cardinality(Live) >= 1 /\ Live' = Live \ {s}
  <2>1. Live' = Live \ {s} /\ s \in Live
    BY <1>0, <1>3 DEF Live
  <2>2. IsFiniteSet(Live') /\ Cardinality(Live') = Cardinality(Live) - 1
    BY <1>0, <2>1, FS_RemoveElement
  <2>3. Cardinality(Live') \in Nat
    BY <2>2, FS_CardinalityType
  <2> QED
    BY <2>1, <2>2, <2>3, <1>1
<1>4. ASSUME \A s \in Slots : socket'[s] # "free" <=> socket[s] # "free" PROVE Live' = Live
  BY <1>4 DEF Live
<1> QED
  BY <1>0, <1>1, <1>2, <1>3, <1>4

\* What one step of the adapter, or of anything else, keeps.
LEMMA AdapterStepInv == AdapterInv /\ [Next]_vars => AdapterInv'
<1> SUFFICES ASSUME AdapterInv, [Next]_vars PROVE AdapterInv'
  OBVIOUS
<1>0. "none" \notin Slots
  BY SessionAssumption
<1>t. AdapterTyped
  BY DEF AdapterInv
<1>s. /\ IsFiniteSet(Live) /\ Cardinality(Live) \in Nat /\ Timers \in Nat
      /\ Cardinality(Live) + Timers <= starts
  BY <1>t, LiveSockets DEF AdapterInv, AdapterTyped, Timers
<1>1. CASE UNCHANGED adapter
  BY <1>1 DEF AdapterInv, AdapterTyped, Alone, Timers, Live, adapter
<1>2. CASE StartAdapter
  <2>1. PICK s \in Slots : /\ socket[s] = "free" /\ socket' = [socket EXCEPT ![s] = "open"]
                           /\ transport' = s /\ heartbeat' = TRUE
    BY <1>2 DEF StartAdapter, Connect
  <2>2. /\ starts' = starts + 1 /\ stopped' = FALSE /\ timer' = timer /\ orphans' = orphans
        /\ overlapped' = (Live # {} \/ timer \/ orphans > 0)
    BY <1>2 DEF StartAdapter
  <2>3. AdapterTyped'
    <3>1. socket' \in [Slots -> {"free", "open", "gone"}]
      BY <1>t, <2>1 DEF AdapterTyped
    <3>2. overlapped' \in BOOLEAN
      BY <2>2, Zenon
    <3>3. starts' \in Nat /\ orphans' \in Nat
      BY <1>t, <2>1, <2>2 DEF AdapterTyped
    <3>4. /\ transport' \in Slots \cup {"none"} /\ heartbeat' \in BOOLEAN /\ stopped' \in BOOLEAN
          /\ timer' \in BOOLEAN
      BY <1>t, <2>1, <2>2, Zenon DEF AdapterTyped
    <3> QED
      BY <3>1, <3>2, <3>3, <3>4 DEF AdapterTyped
  <2>4. /\ IsFiniteSet(Live') /\ Cardinality(Live') = Cardinality(Live) + 1 /\ Live' = Live \cup {s}
    BY <2>1, LiveSockets
  <2>5. Timers' = Timers /\ Cardinality(Live') + Timers' <= starts'
    BY <2>2, <2>4, <1>s, <1>t DEF Timers, AdapterTyped
  <2>6. transport' # "none" /\ socket'[transport'] # "free"
    BY <2>1, <1>0, <1>t DEF AdapterTyped
  <2>7. ASSUME ~overlapped' PROVE Alone'
    <3>1. Live = {} /\ ~timer /\ ~(orphans > 0)
      BY <2>2, <2>7
    <3>2. orphans' = 0 /\ ~timer' /\ ~stopped'
      BY <2>2, <3>1, <1>t DEF AdapterTyped
    <3>3. Cardinality(Live') = 1
      BY <3>1, <2>4, FS_EmptySet
    <3>4. \A r \in Slots : socket'[r] # "free" => r = s
      BY <3>1, <2>4 DEF Live
    <3> QED
      BY <3>2, <3>3, <3>4, <2>1 DEF Alone
  <2> QED
    BY <2>1, <2>3, <2>4, <2>5, <2>6, <2>7 DEF AdapterInv
<1>3. CASE ReconnectFires
  <2>1. PICK s \in Slots : /\ socket[s] = "free" /\ socket' = [socket EXCEPT ![s] = "open"]
                           /\ transport' = s /\ heartbeat' = TRUE
    BY <1>3 DEF ReconnectFires, Connect
  <2>2. /\ \/ orphans > 0 /\ orphans' = orphans - 1 /\ timer' = timer
           \/ orphans = 0 /\ timer /\ timer' = FALSE /\ orphans' = orphans
        /\ stopped' = stopped /\ starts' = starts /\ overlapped' = overlapped
    BY <1>3 DEF ReconnectFires
  <2>3. AdapterTyped'
    <3>1. socket' \in [Slots -> {"free", "open", "gone"}]
      BY <1>t, <2>1 DEF AdapterTyped
    <3>2. orphans' \in Nat
      BY <1>t, <2>2 DEF AdapterTyped
    <3>3. timer' \in BOOLEAN
      BY <1>t, <2>2, Zenon DEF AdapterTyped
    <3>4. /\ transport' \in Slots \cup {"none"} /\ heartbeat' \in BOOLEAN /\ stopped' \in BOOLEAN
          /\ starts' \in Nat /\ overlapped' \in BOOLEAN
      BY <1>t, <2>1, <2>2, Zenon DEF AdapterTyped
    <3> QED
      BY <3>1, <3>2, <3>3, <3>4, Zenon DEF AdapterTyped
  <2>4. /\ IsFiniteSet(Live') /\ Cardinality(Live') = Cardinality(Live) + 1 /\ Live' = Live \cup {s}
    BY <2>1, LiveSockets
  <2>5. Timers' = Timers - 1
    BY <2>2, <1>t DEF Timers, AdapterTyped
  <2>6. Cardinality(Live') + Timers' <= starts'
    BY <2>2, <2>4, <2>5, <1>s, <1>t DEF AdapterTyped
  <2>7. transport' # "none" /\ socket'[transport'] # "free"
    BY <2>1, <1>0, <1>t DEF AdapterTyped
  <2>8. ASSUME ~overlapped' PROVE Alone'
    <3>1. Alone
      BY <2>2, <2>8 DEF AdapterInv
    <3>2. orphans = 0 /\ timer /\ timer' = FALSE /\ orphans' = 0
      BY <2>2, <3>1, <1>t DEF Alone, AdapterTyped
    <3>3. Cardinality(Live) = 0 /\ ~stopped /\ ~stopped'
      BY <2>2, <3>1, <3>2 DEF Alone
    <3>4. Live = {}
      BY <3>3, <1>s, FS_EmptySet
    <3>5. Cardinality(Live') = 1
      BY <3>3, <2>4
    <3>6. \A r \in Slots : socket'[r] # "free" => r = s
      BY <3>4, <2>4 DEF Live
    <3> QED
      BY <3>2, <3>3, <3>5, <3>6, <2>1 DEF Alone
  <2> QED
    BY <2>1, <2>3, <2>4, <2>6, <2>7, <2>8 DEF AdapterInv
<1>4. CASE StopAdapter
  <2>1. /\ stopped' = TRUE /\ starts' = starts /\ orphans' = orphans /\ overlapped' = overlapped
        /\ heartbeat' = FALSE /\ timer' = FALSE /\ transport' = "none"
        /\ socket' = [s \in Slots |-> IF s = transport THEN "gone" ELSE socket[s]]
    BY <1>4 DEF StopAdapter
  <2>2. AdapterTyped'
    <3>1. socket' \in [Slots -> {"free", "open", "gone"}] /\ orphans' \in Nat
      BY <1>t, <2>1 DEF AdapterTyped
    <3>2. /\ transport' \in Slots \cup {"none"} /\ heartbeat' \in BOOLEAN /\ stopped' \in BOOLEAN
          /\ starts' \in Nat /\ overlapped' \in BOOLEAN /\ timer' \in BOOLEAN
      BY <1>t, <2>1, Zenon DEF AdapterTyped
    <3> QED
      BY <3>1, <3>2, Zenon DEF AdapterTyped
  <2>3. \A s \in Slots : socket'[s] # "free" <=> socket[s] # "free"
    <3> TAKE s \in Slots
    <3>1. socket'[s] = IF s = transport THEN "gone" ELSE socket[s]
      BY <2>1
    <3>2. s = transport => socket[s] # "free"
      BY <1>0 DEF AdapterInv
    <3> QED
      BY <3>1, <3>2
  <2>4. Live' = Live
    BY <2>3, LiveSockets
  <2>5. Timers' <= Timers /\ Timers' \in Nat
    BY <2>1, <1>t DEF Timers, AdapterTyped
  <2>6. Cardinality(Live') + Timers' <= starts'
    BY <2>1, <2>4, <2>5, <1>s, <1>t DEF AdapterTyped
  <2>7. ~overlapped' => Alone'
    BY <2>1, <2>4 DEF AdapterInv, Alone
  <2> QED
    BY <2>1, <2>2, <2>4, <2>6, <2>7, <1>s DEF AdapterInv
<1>5. ASSUME NEW s \in Slots, PeerLeaves(s) PROVE AdapterInv'
  <2>1. /\ socket[s] = "open" /\ socket' = [socket EXCEPT ![s] = "gone"]
        /\ UNCHANGED <<transport, heartbeat, stopped, starts, timer, orphans, overlapped>>
    BY <1>5 DEF PeerLeaves
  <2>2. AdapterTyped' /\ \A r \in Slots : socket'[r] # "free" <=> socket[r] # "free"
    BY <1>t, <2>1 DEF AdapterTyped
  <2>3. Live' = Live /\ Timers' = Timers
    BY <2>1, <2>2, LiveSockets DEF Timers
  <2>4. Alone => Alone'
    BY <2>1, <2>2, <2>3 DEF Alone
  <2> QED
    BY <2>1, <2>2, <2>3, <2>4, <1>t DEF AdapterInv, AdapterTyped
<1>6. ASSUME NEW s \in Slots, HandleClose(s) PROVE AdapterInv'
  <2>1. /\ socket[s] = "gone" /\ socket' = [socket EXCEPT ![s] = "free"]
        /\ heartbeat' = FALSE /\ transport' = "none"
        /\ timer' = (timer \/ ~stopped)
        /\ orphans' = IF timer /\ ~stopped THEN orphans + 1 ELSE orphans
        /\ UNCHANGED <<stopped, starts, overlapped>>
    BY <1>6 DEF HandleClose
  <2>2. AdapterTyped'
    <3>1. socket' \in [Slots -> {"free", "open", "gone"}] /\ orphans' \in Nat
      BY <1>t, <2>1 DEF AdapterTyped
    <3>2. timer' \in BOOLEAN
      BY <2>1, Zenon
    <3>3. /\ transport' \in Slots \cup {"none"} /\ heartbeat' \in BOOLEAN /\ stopped' \in BOOLEAN
          /\ starts' \in Nat /\ overlapped' \in BOOLEAN
      BY <1>t, <2>1, Zenon DEF AdapterTyped
    <3> QED
      BY <3>1, <3>2, <3>3, Zenon DEF AdapterTyped
  <2>3. /\ IsFiniteSet(Live') /\ Cardinality(Live') = Cardinality(Live) - 1
        /\ Cardinality(Live) >= 1 /\ Live' = Live \ {s}
    BY <2>1, LiveSockets
  <2>4. Timers' <= Timers + 1 /\ Timers' \in Nat
    BY <2>1, <1>t DEF Timers, AdapterTyped
  <2>5. Cardinality(Live') + Timers' <= starts'
    BY <2>1, <2>3, <2>4, <1>s, <1>t DEF AdapterTyped
  <2>6. ASSUME ~overlapped' PROVE Alone'
    <3>1. Alone
      BY <2>1, <2>6 DEF AdapterInv
    <3>2. Cardinality(Live) = 1 /\ ~timer /\ orphans = 0
      BY <2>3, <3>1, <1>s DEF Alone
    <3>3. orphans' = 0 /\ Cardinality(Live') = 0
      BY <2>1, <2>3, <3>2
    <3>4. Live' = {}
      BY <2>3, <3>3, FS_EmptySet
    <3>5. \A r \in Slots : socket'[r] = "free"
      BY <3>4 DEF Live
    <3>6. stopped' => ~timer'
      BY <2>1, <3>2
    <3> QED
      BY <3>3, <3>5, <3>6, <2>1 DEF Alone
  <2> QED
    BY <2>1, <2>2, <2>3, <2>5, <2>6 DEF AdapterInv
<1>7. Next => \/ UNCHANGED adapter \/ StartAdapter \/ ReconnectFires \/ StopAdapter
              \/ \E s \in Slots : PeerLeaves(s) \/ HandleClose(s)
  <2>1. StartRuntime \/ StopRuntime => UNCHANGED adapter
    BY DEF StartRuntime, StopRuntime
  <2>2. ASSUME NEW net \in Nets, TickRecords(net) PROVE UNCHANGED adapter
    BY <2>2 DEF TickRecords
  <2>3. PublishSnapshot => UNCHANGED adapter
    BY DEF PublishSnapshot
  <2>4. PublishNew => UNCHANGED adapter
    BY Zenon DEF PublishNew
  <2>5. ASSUME NEW kind \in DOMAIN Target, NEW accepted \in BOOLEAN, Command(kind, accepted)
        PROVE UNCHANGED adapter
    BY <2>5 DEF Command
  <2> QED
    BY <2>1, <2>2, <2>3, <2>4, <2>5 DEF Next
<1>8. UNCHANGED vars => UNCHANGED adapter
  BY DEF vars
<1> QED
  BY <1>1, <1>2, <1>3, <1>4, <1>5, <1>6, <1>7, <1>8

\* The invariant bounds the connections and timers.
LEMMA AdapterInvIsEnough == AdapterInv => ConnectionsPerStart
<1> SUFFICES ASSUME AdapterInv PROVE ConnectionsPerStart
  OBVIOUS
<1>1. Cardinality(Live) \in Nat /\ orphans \in Nat /\ starts \in Nat
  BY LiveSockets DEF AdapterInv, AdapterTyped
<1>2. Cardinality(Live) + orphans + (IF timer THEN 1 ELSE 0) <= starts
  BY <1>1 DEF AdapterInv, Timers
<1>3. ASSUME ~overlapped
      PROVE  /\ Cardinality(Live) + orphans + (IF timer THEN 1 ELSE 0) <= 1
             /\ stopped => ~timer /\ orphans = 0 /\ transport = "none"
  BY <1>1, <1>3 DEF AdapterInv, Alone
<1> QED
  BY <1>2, <1>3 DEF ConnectionsPerStart, AdapterInv

\* Each start() accounts for at most one connection or reconnect timer, whatever
\* the order in which peers leave, closes are reported, timers fire and start()
\* and stop() are called; a start() that meets no earlier connection has only one.
THEOREM AdapterConnections == Spec => []ConnectionsPerStart
<1>1. Spec => []AdapterInv
  BY AdapterInitInv, AdapterStepInv, PTL DEF Spec
<1> QED
  BY <1>1, AdapterInvIsEnough, PTL

(***************************************************************************)
(* The frames.  A frame of the ring was decided under the risk state it    *)
(* records, and what a browser holds are views of such frames.             *)
(***************************************************************************)
Frames == {f \in [index : Nat, risk : [halted : BOOLEAN, budget_available : {1}],
                  action : {"WAIT", "HOLD", "BUY", "SELL"}] : f.risk.halted => f.action = "WAIT"}
Views == {View(f) : f \in Frames}
Items == {HistoryItem(f) : f \in Frames}
Browsers == [frames : Seq(Views), history : Seq(Items)]

\* The append-frame patch publishNew sends for a frame, and what a browser makes
\* of the patches of a sequence of frames.
Patch(f) == [op |-> "append-frame", frame |-> View(f), history |-> HistoryItem(f)]
Folded(v, s) ==
    FoldLeft(LAMBDA a, f : applyPatch(a, [op |-> "append-frame", frame |-> View(f),
                                          history |-> HistoryItem(f)]), v, s)

\* A patch appends its frame's view and history item.
LEMMA PatchAppends ==
    ASSUME NEW a, NEW f
    PROVE  applyPatch(a, Patch(f)) = [frames |-> Append(a.frames, View(f)),
                                      history |-> Append(a.history, HistoryItem(f))]
  BY DEF applyPatch, Patch

\* Folding patches passes through the browser's states one patch at a time.
LEMMA FoldedSteps ==
    ASSUME NEW v \in Browsers, NEW s \in Seq(Frames)
    PROVE  \E h : /\ h[0] = v
                  /\ \A k \in 0 .. Len(s) - 1 : h[k + 1] = applyPatch(h[k], Patch(s[k + 1]))
                  /\ h[Len(s)] = Folded(v, s)
<1> DEFINE n == Len(s)
           F == [a \in Browsers |-> [i \in 1 .. n |-> applyPatch(a, Patch(s[i]))]]
           E(it) == [u \in SUBSET (DOMAIN s) |->
                        IF u = {} THEN v ELSE applyPatch(it[u \ {Max(u)}], Patch(s[Max(u)]))]
           ch == CHOOSE it : it = E(it)
<1>1. n \in Nat /\ DOMAIN s = 1 .. n
  OBVIOUS
<1>2. ASSUME NEW a \in Browsers, NEW i \in 1 .. n PROVE F[a][i] \in Browsers
  <2>1. s[i] \in Frames
    BY <1>1
  <2>2. View(s[i]) \in Views /\ HistoryItem(s[i]) \in Items
    BY <2>1 DEF Views, Items
  <2>3. a.frames \in Seq(Views) /\ a.history \in Seq(Items)
    BY DEF Browsers
  <2>4. Append(a.frames, View(s[i])) \in Seq(Views) /\ Append(a.history, HistoryItem(s[i])) \in Seq(Items)
    BY <2>2, <2>3
  <2>5. F[a][i] = [frames |-> Append(a.frames, View(s[i])), history |-> Append(a.history, HistoryItem(s[i]))]
    BY PatchAppends
  <2> HIDE DEF F
  <2> QED
    BY <2>4, <2>5 DEF Browsers
<1> HIDE DEF n
<1>3. PICK it : /\ FoldsTo(it, F, v, SUBSET (1 .. n))
                /\ \A u \in SUBSET (1 .. n) : it[u] \in Browsers
  <2> HIDE DEF F
  <2> QED
    BY <1>1, <1>2, FoldExists
<1>4. it = E(it)
  <2>1. it = [u \in SUBSET (1 .. n) |-> IF u = {} THEN v ELSE F[it[u \ {Max(u)}]][Max(u)]]
    BY <1>3 DEF FoldsTo
  <2>2. \A u \in SUBSET (1 .. n) : u # {} => Max(u) \in 1 .. n /\ it[u \ {Max(u)}] \in Browsers
    <3> TAKE u \in SUBSET (1 .. n)
    <3> HAVE u # {}
    <3>1. Max(u) \in u
      BY <1>1, MaxIsMember
    <3> QED
      BY <3>1, <1>3
  <2>3. \A u \in SUBSET (1 .. n) : u # {} =>
           F[it[u \ {Max(u)}]][Max(u)] = applyPatch(it[u \ {Max(u)}], Patch(s[Max(u)]))
    <3> HIDE DEF Max
    <3> QED
      BY <2>2
  <2> QED
    <3> HIDE DEF F, Max
    <3> QED
      BY <2>1, <2>3, <1>1
<1>5. ch = E(ch)
  <2> HIDE DEF E
  <2> QED
    BY <1>4
<1>6. Folded(v, s) = ch[DOMAIN s]
  BY DEF Folded, FoldLeft, MapThenFoldSet, Patch
<1> HIDE DEF ch
<1>7. ch[{}] = v
  BY <1>5
<1>8. ASSUME NEW k \in 0 .. n - 1 PROVE ch[1 .. k + 1] = applyPatch(ch[1 .. k], Patch(s[k + 1]))
  <2>0. k \in Nat /\ \A i \in 1 .. k + 1 : i \in 1 .. n
    BY <1>1
  <2>1. k \in Nat /\ 1 .. k + 1 \in SUBSET (DOMAIN s) /\ 1 .. k + 1 # {}
    <3>1. 1 \in 1 .. k + 1
      BY <2>0
    <3> QED
      BY <2>0, <3>1, <1>1
  <2>2. Max(1 .. k + 1) = k + 1 /\ (1 .. k + 1) \ {k + 1} = 1 .. k
    BY <2>1, MaxOfPrefix
  <2>3. ch[1 .. k + 1] = applyPatch(ch[(1 .. k + 1) \ {Max(1 .. k + 1)}], Patch(s[Max(1 .. k + 1)]))
    <3> HIDE DEF Max
    <3> DEFINE w == 1 .. k + 1
    <3>1. w \in SUBSET (DOMAIN s) /\ w # {}
      BY <2>1
    <3> HIDE DEF w
    <3>2. ch[w] = applyPatch(ch[w \ {Max(w)}], Patch(s[Max(w)]))
      BY <1>5, <3>1
    <3> QED
      BY <3>2 DEF w
  <2> QED
    <3> HIDE DEF Max
    <3> QED
      BY <2>2, <2>3
<1> DEFINE h == [k \in 0 .. n |-> ch[1 .. k]]
<1>9. 1 .. 0 = {} /\ 0 \in 0 .. n /\ n \in 0 .. n
  BY <1>1
<1>10. h[0] = v /\ h[n] = Folded(v, s)
  BY <1>1, <1>6, <1>7, <1>9
<1>11. \A k \in 0 .. n - 1 : h[k + 1] = applyPatch(h[k], Patch(s[k + 1]))
  <2> TAKE k \in 0 .. n - 1
  <2>1. k \in 0 .. n /\ k + 1 \in 0 .. n
    BY <1>1
  <2> QED
    BY <1>8, <2>1
<1> HIDE DEF h
<1> QED
  BY <1>10, <1>11 DEF n

\* The browser w is the browser v with the first k frames of s appended.
Extends(w, v, s, k) ==
    /\ w \in Browsers
    /\ Len(w.frames) = Len(v.frames) + k /\ Len(w.history) = Len(v.history) + k
    /\ \A i \in 1 .. Len(v.frames) : w.frames[i] = v.frames[i]
    /\ \A i \in 1 .. Len(v.history) : w.history[i] = v.history[i]
    /\ \A i \in 1 .. k : w.frames[Len(v.frames) + i] = View(s[i])
    /\ \A i \in 1 .. k : w.history[Len(v.history) + i] = HistoryItem(s[i])

\* What folding the patches of a sequence of frames computes.
LEMMA FoldedExtends ==
    ASSUME NEW v \in Browsers, NEW s \in Seq(Frames)
    PROVE  Extends(Folded(v, s), v, s, Len(s))
<1>1. PICK h : /\ h[0] = v
               /\ \A k \in 0 .. Len(s) - 1 : h[k + 1] = applyPatch(h[k], Patch(s[k + 1]))
               /\ h[Len(s)] = Folded(v, s)
  BY FoldedSteps
<1> DEFINE T == {k \in Nat : k <= Len(s) => Extends(h[k], v, s, k)}
<1>0. Len(s) \in Nat /\ \A i \in 1 .. Len(s) : s[i] \in Frames
  OBVIOUS
<1>v. v.frames \in Seq(Views) /\ v.history \in Seq(Items)
  BY DEF Browsers
<1>2. 0 \in T
  <2>1. Extends(v, v, s, 0)
    BY <1>v DEF Extends
  <2> QED
    BY <1>1, <2>1
<1>3. ASSUME NEW k \in Nat, k \in T PROVE k + 1 \in T
  <2> SUFFICES ASSUME k + 1 <= Len(s) PROVE Extends(h[k + 1], v, s, k + 1)
    OBVIOUS
  <2>1. k \in 0 .. Len(s) - 1 /\ k + 1 \in 1 .. Len(s) /\ k <= Len(s)
    BY <1>0
  <2>2. Extends(h[k], v, s, k)
    BY <1>3, <2>1
  <2>3. PICK w : w = h[k]
    OBVIOUS
  <2>4. PICK f : f = s[k + 1]
    OBVIOUS
  <2>5. h[k + 1] = [frames |-> Append(w.frames, View(f)), history |-> Append(w.history, HistoryItem(f))]
    BY <1>1, <2>1, <2>3, <2>4, PatchAppends
  <2>6. View(f) \in Views /\ HistoryItem(f) \in Items
    BY <1>0, <2>1, <2>4 DEF Views, Items
  <2>7. w.frames \in Seq(Views) /\ w.history \in Seq(Items)
    BY <2>2, <2>3 DEF Extends, Browsers
  <2> DEFINE x == Append(w.frames, View(f))
             y == Append(w.history, HistoryItem(f))
  <2>8. /\ x \in Seq(Views) /\ Len(x) = Len(w.frames) + 1
        /\ \A i \in 1 .. Len(w.frames) : x[i] = w.frames[i]
        /\ x[Len(w.frames) + 1] = View(f)
    <3> HIDE DEF View
    <3> QED
      BY <2>6, <2>7
  <2>9. /\ y \in Seq(Items) /\ Len(y) = Len(w.history) + 1
        /\ \A i \in 1 .. Len(w.history) : y[i] = w.history[i]
        /\ y[Len(w.history) + 1] = HistoryItem(f)
    BY <2>6, <2>7
  <2>10. h[k + 1] = [frames |-> x, history |-> y]
    BY <2>5
  <2> HIDE DEF x, y
  <2>11. PICK z : z = h[k + 1]
    OBVIOUS
  <2>12. z.frames = x /\ z.history = y /\ z \in Browsers
    BY <2>8, <2>9, <2>10, <2>11 DEF Browsers
  <2>13. /\ Len(w.frames) = Len(v.frames) + k /\ Len(w.history) = Len(v.history) + k
         /\ \A i \in 1 .. Len(v.frames) : w.frames[i] = v.frames[i]
         /\ \A i \in 1 .. Len(v.history) : w.history[i] = v.history[i]
         /\ \A i \in 1 .. k : w.frames[Len(v.frames) + i] = View(s[i])
         /\ \A i \in 1 .. k : w.history[Len(v.history) + i] = HistoryItem(s[i])
    BY <2>2, <2>3 DEF Extends
  <2>14. Len(v.frames) \in Nat /\ Len(v.history) \in Nat
    BY <1>v
  <2>l. Len(w.frames) = Len(v.frames) + k /\ Len(w.history) = Len(v.history) + k
    BY <2>13
  <2>m. Len(x) = Len(w.frames) + 1 /\ Len(y) = Len(w.history) + 1
    BY <2>8, <2>9
  <2>n. Len(w.frames) \in Nat /\ Len(w.history) \in Nat /\ Len(x) \in Nat /\ Len(y) \in Nat
    BY <2>7, <2>8, <2>9
  <2>a. \A a, b \in Nat : b = a + k => b + 1 = a + (k + 1)
    OBVIOUS
  <2>15. /\ Len(x) = Len(v.frames) + (k + 1)
         /\ \A i \in 1 .. Len(v.frames) : x[i] = v.frames[i]
         /\ \A i \in 1 .. k + 1 : x[Len(v.frames) + i] = View(s[i])
    <3>1. Len(x) = Len(v.frames) + (k + 1)
      BY <2>l, <2>m, <2>n, <2>14, <2>a, Zenon
    <3>2. \A i \in 1 .. Len(v.frames) : x[i] = v.frames[i]
      BY <2>8, <2>13, <2>14
    <3>3. ASSUME NEW i \in 1 .. k + 1 PROVE x[Len(v.frames) + i] = View(s[i])
      <4>1. CASE i = k + 1
        <5>1. Len(v.frames) + i = Len(w.frames) + 1
          BY <4>1, <2>l, <2>n, <2>14, <2>a, Zenon
        <5> QED
          BY <4>1, <5>1, <2>8, <2>4, Zenon
      <4>2. CASE i \in 1 .. k
        <5>1. Len(v.frames) + i \in 1 .. Len(w.frames)
          BY <4>2, <2>13, <2>14
        <5> QED
          BY <4>2, <5>1, <2>8, <2>13, Zenon
      <4> QED
        BY <4>1, <4>2
    <3> QED
      BY <3>1, <3>2, <3>3
  <2>16. /\ Len(y) = Len(v.history) + (k + 1)
         /\ \A i \in 1 .. Len(v.history) : y[i] = v.history[i]
         /\ \A i \in 1 .. k + 1 : y[Len(v.history) + i] = HistoryItem(s[i])
    <3>1. Len(y) = Len(v.history) + (k + 1)
      BY <2>l, <2>m, <2>n, <2>14, <2>a, Zenon
    <3>2. \A i \in 1 .. Len(v.history) : y[i] = v.history[i]
      BY <2>9, <2>13, <2>14
    <3>3. ASSUME NEW i \in 1 .. k + 1 PROVE y[Len(v.history) + i] = HistoryItem(s[i])
      <4>1. CASE i = k + 1
        <5>1. Len(v.history) + i = Len(w.history) + 1
          BY <4>1, <2>l, <2>n, <2>14, <2>a, Zenon
        <5> QED
          BY <4>1, <5>1, <2>9, <2>4, Zenon
      <4>2. CASE i \in 1 .. k
        <5>1. Len(v.history) + i \in 1 .. Len(w.history)
          BY <4>2, <2>13, <2>14
        <5> QED
          BY <4>2, <5>1, <2>9, <2>13, Zenon
      <4> QED
        BY <4>1, <4>2
    <3> QED
      BY <3>1, <3>2, <3>3
  <2>17. Extends(z, v, s, k + 1)
    BY <2>12, <2>15, <2>16, Zenon DEF Extends
  <2> QED
    BY <2>11, <2>17
<1> HIDE DEF T
<1>4. Len(s) \in T
  BY <1>0, <1>2, <1>3, SetInduction
<1> QED
  BY <1>0, <1>1, <1>4 DEF T

(***************************************************************************)
(* The session's invariant.  The browser is ordered because everything it  *)
(* holds is no newer than the frame at lastIndex of the ring, the newest   *)
(* one published; that position moves with the ring when the ring drops a  *)
(* frame, so it is stated through the index the frame carries.             *)
(***************************************************************************)
SessionTyped ==
    /\ ring \in Seq(Frames) /\ frameSeq \in Nat
    /\ lastIndex \in Int /\ -1 <= lastIndex /\ lastIndex <= Len(ring) - 1
    /\ browser \in Browsers /\ intact \in BOOLEAN /\ shifted \in BOOLEAN

RingInv ==
    /\ Len(ring) = IF frameSeq <= Capacity THEN frameSeq ELSE Capacity
    /\ \A i \in 1 .. Len(ring) : ring[i].index = frameSeq - Len(ring) + i - 1

NothingNewer ==
    \A i \in 1 .. Len(browser.frames) : browser.frames[i].index <= frameSeq - Len(ring) + lastIndex

CompleteInv ==
    intact /\ ~shifted =>
        /\ Len(browser.frames) = lastIndex + 1 /\ Len(browser.history) = lastIndex + 1
        /\ \A i \in 1 .. lastIndex + 1 : /\ browser.frames[i] = View(ring[i])
                                         /\ browser.history[i] = HistoryItem(ring[i])

SessionInv == SessionTyped /\ RingInv /\ NothingNewer /\ BrowserIsOrdered /\ CompleteInv

\* What the browser shows of a frame.
LEMMA ViewFields ==
    ASSUME NEW f \in Frames
    PROVE  /\ View(f) \in Views /\ HistoryItem(f) \in Items
           /\ View(f).index = f.index /\ f.index \in Nat
  BY DEF Views, Items, View, frameView, Frames

\* The browser's frames carry natural indices.
LEMMA BrowserIndices ==
    ASSUME NEW v \in Browsers
    PROVE  /\ v.frames \in Seq(Views) /\ v.history \in Seq(Items)
           /\ Len(v.frames) \in Nat /\ Len(v.history) \in Nat
           /\ \A i \in 1 .. Len(v.frames) : v.frames[i] \in Views /\ v.frames[i].index \in Nat
<1>1. v.frames \in Seq(Views) /\ v.history \in Seq(Items)
  BY DEF Browsers
<1>2. \A i \in 1 .. Len(v.frames) : v.frames[i] \in Views
  BY <1>1
<1>3. \A w \in Views : w.index \in Nat
  <2> TAKE w \in Views
  <2>1. PICK f \in Frames : w = View(f)
    BY DEF Views
  <2> QED
    BY <2>1, ViewFields
<1> QED
  BY <1>1, <1>2, <1>3

\* There is nothing in the ring, and nothing in the browser, at first.
LEMMA SessionInitInv == Init => SessionInv
<1> SUFFICES ASSUME Init PROVE SessionInv
  OBVIOUS
<1>1. /\ ring = <<>> /\ frameSeq = 0 /\ lastIndex = -1 /\ browser = [frames |-> <<>>, history |-> <<>>]
      /\ ~intact
  BY DEF Init, EmptyView
<1>2. Len(ring) = 0 /\ Len(browser.frames) = 0 /\ Capacity \in Nat
  BY <1>1, SessionAssumption
<1>3. browser \in Browsers /\ ring \in Seq(Frames)
  BY <1>1 DEF Browsers
<1>b. intact \in BOOLEAN /\ shifted \in BOOLEAN
  BY DEF Init
<1>4. SessionTyped
  BY <1>1, <1>2, <1>3, <1>b DEF SessionTyped
<1>5. RingInv
  BY <1>1, <1>2 DEF RingInv
<1>6. NothingNewer /\ BrowserIsOrdered
  BY <1>2 DEF NothingNewer, BrowserIsOrdered
<1> QED
  BY <1>1, <1>4, <1>5, <1>6 DEF SessionInv, CompleteInv

\* A decision made now is a frame.
LEMMA DecisionIsFrame ==
    ASSUME frameSeq \in Nat, NEW net \in Nets
    PROVE  [index |-> frameSeq, risk |-> RiskSnapshot, action |-> FrameAction(net)] \in Frames
<1>1. /\ RiskSnapshot \in [halted : BOOLEAN, budget_available : {1}]
      /\ FrameAction(net) \in {"WAIT", "HOLD", "BUY", "SELL"}
      /\ RiskSnapshot.halted => FrameAction(net) = "WAIT"
  BY DEF RiskSnapshot, FrameAction, Action, PortfolioSnapshot, Threshold
<1> QED
  <2> HIDE DEF RiskSnapshot, FrameAction
  <2> QED
    BY <1>1 DEF Frames

\* What pushing a frame does to the ring.
LEMMA PushedRing ==
    ASSUME ring \in Seq(Frames), NEW f \in Frames, Len(ring) <= Capacity
    PROVE  /\ RingPush(f) \in Seq(Frames)
           /\ Len(ring) < Capacity =>
                 /\ Len(RingPush(f)) = Len(ring) + 1
                 /\ \A i \in 1 .. Len(ring) : RingPush(f)[i] = ring[i]
                 /\ RingPush(f)[Len(ring) + 1] = f
           /\ Len(ring) = Capacity =>
                 /\ Len(RingPush(f)) = Len(ring)
                 /\ \A i \in 1 .. Len(ring) - 1 : RingPush(f)[i] = ring[i + 1]
                 /\ RingPush(f)[Len(ring)] = f
<1> DEFINE p == Append(ring, f)
<1>1. /\ p \in Seq(Frames) /\ Len(p) = Len(ring) + 1
      /\ \A i \in 1 .. Len(ring) : p[i] = ring[i]
      /\ p[Len(ring) + 1] = f /\ Len(ring) \in Nat /\ Capacity \in Nat /\ Capacity >= 1
  BY SessionAssumption
<1> HIDE DEF p
<1>2. p # <<>>
  BY <1>1
<1>3. /\ Tail(p) \in Seq(Frames) /\ Len(Tail(p)) = Len(p) - 1
      /\ \A i \in 1 .. Len(p) - 1 : Tail(p)[i] = p[i + 1]
  BY <1>1, <1>2
<1>4. CASE Len(ring) < Capacity
  <2>1. RingPush(f) = p
    BY <1>4 DEF RingPush, p
  <2>2. Len(ring) # Capacity
    BY <1>4, <1>1
  <2> QED
    BY <1>1, <2>1, <2>2
<1>5. CASE Len(ring) = Capacity
  <2>0. ~(Len(ring) < Capacity)
    BY <1>1, <1>5
  <2>1. RingPush(f) = Tail(p)
    BY <2>0 DEF RingPush, p
  <2>2. Len(Tail(p)) = Len(ring)
    BY <1>1, <1>3
  <2>3. \A i \in 1 .. Len(ring) - 1 : Tail(p)[i] = ring[i + 1]
    <3> TAKE i \in 1 .. Len(ring) - 1
    <3>1. i \in 1 .. Len(p) - 1 /\ i + 1 \in 1 .. Len(ring)
      BY <1>1
    <3> QED
      BY <3>1, <1>1, <1>3, Zenon
  <2>4. Tail(p)[Len(ring)] = f
    <3>1. Len(ring) \in 1 .. Len(p) - 1
      BY <1>1, <1>5
    <3> QED
      BY <3>1, <1>1, <1>3, Zenon
  <2> QED
    BY <2>0, <2>1, <2>2, <2>3, <2>4, <1>3
<1> QED
  BY <1>1, <1>4, <1>5

\* A tick records its decision as the newest frame.
LEMMA TickKeepsSession ==
    ASSUME SessionInv, NEW net \in Nets, TickRecords(net) PROVE SessionInv'
<1> DEFINE L == Len(ring)
<1>1. /\ ring \in Seq(Frames) /\ frameSeq \in Nat /\ L \in Nat
      /\ lastIndex \in Int /\ -1 <= lastIndex /\ lastIndex <= L - 1
      /\ browser \in Browsers
  BY DEF SessionInv, SessionTyped
<1>0. PICK f \in Frames : f = [index |-> frameSeq, risk |-> RiskSnapshot, action |-> FrameAction(net)]
  BY <1>1, DecisionIsFrame
<1>2. f \in Frames /\ f.index = frameSeq
  BY <1>0
<1>3. /\ L = (IF frameSeq <= Capacity THEN frameSeq ELSE Capacity)
      /\ \A i \in 1 .. L : ring[i].index = frameSeq - L + i - 1
  BY DEF SessionInv, RingInv
<1>4. Capacity \in Nat /\ Capacity >= 1
  BY SessionAssumption
<1>5. /\ ring' = RingPush(f) /\ frameSeq' = frameSeq + 1
      /\ lastIndex' = lastIndex /\ browser' = browser /\ intact' = intact
  BY <1>0 DEF TickRecords
<1>b. intact \in BOOLEAN /\ shifted \in BOOLEAN
  BY DEF SessionInv, SessionTyped
<1>s. (~shifted' => ~shifted) /\ (L = Capacity => shifted') /\ shifted' \in BOOLEAN
  <2>1. shifted' = IF L = Capacity THEN TRUE ELSE shifted
    BY DEF TickRecords
  <2> HIDE DEF L
  <2>2. CASE L = Capacity
    <3>1. shifted' = TRUE
      BY <2>1, <2>2
    <3> QED
      BY <3>1
  <2>3. CASE L # Capacity
    <3>1. shifted' = shifted
      BY <2>1, <2>3
    <3> QED
      BY <3>1, <2>3, <1>b
  <2> QED
    BY <2>2, <2>3
<1> HIDE DEF L
<1>6. L <= Capacity
  BY <1>1, <1>3, <1>4
<1>v. Len(browser.frames) \in Nat /\ \A i \in 1 .. Len(browser.frames) : browser.frames[i].index \in Nat
  BY <1>1, BrowserIndices
<1>o. BrowserIsOrdered'
  BY <1>5 DEF SessionInv, BrowserIsOrdered
<1>n. \A i \in 1 .. Len(browser.frames) : browser.frames[i].index <= frameSeq - L + lastIndex
  BY DEF SessionInv, NothingNewer, L
<1>7. CASE L < Capacity
  <2>1. /\ ring' \in Seq(Frames) /\ Len(ring') = L + 1
        /\ \A i \in 1 .. L : ring'[i] = ring[i]
        /\ ring'[L + 1] = f
    BY <1>1, <1>2, <1>5, <1>7, <1>6, PushedRing DEF L
  <2>2. L = frameSeq /\ frameSeq + 1 <= Capacity /\ frameSeq' = frameSeq + 1
    BY <1>1, <1>3, <1>4, <1>5, <1>7
  <2>3. SessionTyped'
    BY <1>1, <1>5, <1>b, <1>s, <2>1, <2>2 DEF SessionTyped
  <2>4. RingInv'
    <3>1. ASSUME NEW i \in 1 .. L + 1 PROVE ring'[i].index = frameSeq' - (L + 1) + i - 1
      <4>1. CASE i = L + 1
        BY <4>1, <2>1, <2>2, <1>1, <1>2
      <4>2. CASE i \in 1 .. L
        <5>1. ring'[i] = ring[i] /\ ring[i].index = frameSeq - L + i - 1 /\ i \in Int
          BY <4>2, <2>1, <1>3
        <5> QED
          BY <5>1, <2>2, <1>1
      <4> QED
        BY <4>1, <4>2, <1>1
    <3> QED
      BY <3>1, <2>1, <2>2, <1>1, <1>4 DEF RingInv
  <2>5. NothingNewer'
    <3>1. \A i \in 1 .. Len(browser.frames) : browser.frames[i].index <= frameSeq' - Len(ring') + lastIndex
      <4>1. frameSeq' - Len(ring') + lastIndex = frameSeq - L + lastIndex
        BY <2>1, <2>2, <1>1
      <4> QED
        BY <4>1, <1>n
    <3> QED
      BY <3>1, <1>5 DEF NothingNewer
  <2>6. CompleteInv'
    <3>1. intact' /\ ~shifted' => intact /\ ~shifted
      BY <1>5, <1>s
    <3>2. \A i \in 1 .. lastIndex + 1 : ring'[i] = ring[i]
      BY <1>1, <2>1
    <3> QED
      BY <3>1, <3>2, <1>5 DEF SessionInv, CompleteInv
  <2> QED
    BY <1>o, <2>3, <2>4, <2>5, <2>6 DEF SessionInv
<1>8. CASE L = Capacity
  <2>1. /\ ring' \in Seq(Frames) /\ Len(ring') = L
        /\ \A i \in 1 .. L - 1 : ring'[i] = ring[i + 1]
        /\ ring'[L] = f
    BY <1>1, <1>2, <1>5, <1>8, <1>6, PushedRing DEF L
  <2>2. frameSeq >= Capacity /\ frameSeq' = frameSeq + 1 /\ L >= 1
    BY <1>1, <1>3, <1>4, <1>5, <1>8
  <2>3. SessionTyped'
    BY <1>1, <1>5, <1>b, <1>s, <2>1, <2>2 DEF SessionTyped
  <2>4. RingInv'
    <3>1. ASSUME NEW i \in 1 .. L PROVE ring'[i].index = frameSeq' - L + i - 1
      <4>1. CASE i = L
        BY <4>1, <2>1, <2>2, <1>1, <1>2
      <4>2. CASE i \in 1 .. L - 1
        <5>1. i + 1 \in 1 .. L /\ ring'[i] = ring[i + 1]
          BY <4>2, <2>1, <1>1
        <5>2. ring[i + 1].index = frameSeq - L + (i + 1) - 1
          BY <5>1, <1>3
        <5> QED
          BY <5>1, <5>2, <2>2, <1>1
      <4> QED
        BY <4>1, <4>2, <1>1
    <3> QED
      BY <3>1, <2>1, <2>2, <1>1, <1>4, <1>8 DEF RingInv
  <2>5. NothingNewer'
    <3>1. ASSUME NEW i \in 1 .. Len(browser.frames)
          PROVE  browser.frames[i].index <= frameSeq' - Len(ring') + lastIndex
      <4>1. browser.frames[i].index <= frameSeq - L + lastIndex /\ browser.frames[i].index \in Nat
        BY <1>n, <1>v
      <4> QED
        BY <4>1, <2>1, <2>2, <1>1
    <3> QED
      BY <3>1, <1>5 DEF NothingNewer
  <2>6. CompleteInv'
    <3>1. shifted'
      BY <1>s, <1>8
    <3> QED
      BY <3>1 DEF CompleteInv
  <2> QED
    BY <1>o, <2>3, <2>4, <2>5, <2>6 DEF SessionInv
<1> QED
  BY <1>1, <1>4, <1>6, <1>7, <1>8

\* A snapshot shows the whole ring.
LEMMA SnapshotKeepsSession ==
    ASSUME SessionInv, PublishSnapshot PROVE SessionInv'
<1> DEFINE L == Len(ring)
<1>1. /\ ring \in Seq(Frames) /\ frameSeq \in Nat /\ L \in Nat
      /\ lastIndex \in Int /\ -1 <= lastIndex /\ lastIndex <= L - 1
      /\ browser \in Browsers
  BY DEF SessionInv, SessionTyped
<1>2. /\ lastIndex' = L - 1 /\ ring' = ring /\ frameSeq' = frameSeq /\ shifted' = FALSE
  BY DEF PublishSnapshot, runtime
<1>3. RingInv'
  BY <1>2 DEF SessionInv, RingInv
<1>t. /\ ring' \in Seq(Frames) /\ frameSeq' \in Nat
      /\ lastIndex' \in Int /\ -1 <= lastIndex' /\ lastIndex' <= Len(ring') - 1
  BY <1>1, <1>2
<1>s. shifted' \in BOOLEAN
  BY <1>2
<1>4. \A i \in 1 .. L : ring[i].index = frameSeq - L + i - 1 /\ ring[i] \in Frames
  BY <1>1 DEF SessionInv, RingInv
<1>5. CASE Delivers
  <2> DEFINE x == [i \in DOMAIN ring |-> View(ring[i])]
             y == [i \in DOMAIN ring |-> HistoryItem(ring[i])]
  <2>1. browser' = [frames |-> x, history |-> y] /\ intact' = TRUE
    BY <1>5 DEF PublishSnapshot, applyPatch, presentSession
  <2>2. DOMAIN ring = 1 .. L
    BY <1>1
  <2>3. \A i \in 1 .. L : /\ x[i] = View(ring[i]) /\ x[i] \in Views
                          /\ y[i] = HistoryItem(ring[i]) /\ y[i] \in Items
                          /\ x[i].index = frameSeq - L + i - 1
    BY <1>4, <2>2, ViewFields
  <2>4. x \in Seq(Views) /\ y \in Seq(Items) /\ Len(x) = L /\ Len(y) = L
    <3>1. DOMAIN x = 1 .. L /\ DOMAIN y = 1 .. L /\ x = [i \in 1 .. L |-> x[i]] /\ y = [i \in 1 .. L |-> y[i]]
      BY <2>2
    <3> HIDE DEF x, y
    <3> QED
      BY <3>1, <2>3, <1>1
  <2> HIDE DEF x, y, L
  <2>5. browser'.frames = x /\ browser'.history = y /\ browser' \in Browsers
    BY <2>1, <2>4 DEF Browsers
  <2>b. intact' \in BOOLEAN
    BY <2>1
  <2>6. SessionTyped'
    BY <1>t, <1>s, <2>b, <2>5 DEF SessionTyped
  <2>7. NothingNewer'
    <3>1. \A i \in 1 .. L : x[i].index <= frameSeq - L + (L - 1)
      BY <1>1, <2>3
    <3> QED
      BY <3>1, <2>4, <2>5, <1>2 DEF NothingNewer, L
  <2>8. BrowserIsOrdered'
    <3>1. ASSUME NEW i \in 2 .. L PROVE x[i - 1].index < x[i].index
      <4>1. i - 1 \in 1 .. L /\ i \in 1 .. L
        BY <1>1
      <4>2. x[i - 1].index = frameSeq - L + (i - 1) - 1 /\ x[i].index = frameSeq - L + i - 1
        BY <4>1, <2>3
      <4> QED
        BY <4>1, <4>2, <1>1
    <3> QED
      BY <3>1, <2>4, <2>5 DEF BrowserIsOrdered
  <2>9. CompleteInv'
    <3>1. lastIndex' + 1 = L
      BY <1>1, <1>2
    <3> QED
      BY <3>1, <2>3, <2>4, <2>5, <1>2 DEF CompleteInv
  <2> QED
    BY <1>3, <2>6, <2>7, <2>8, <2>9 DEF SessionInv
<1>6. CASE ~Delivers
  <2>1. browser' = browser /\ intact' = FALSE
    BY <1>6 DEF PublishSnapshot
  <2> HIDE DEF L
  <2>b. intact' \in BOOLEAN /\ browser' \in Browsers
    BY <2>1, <1>1
  <2>2. SessionTyped'
    BY <1>t, <1>s, <2>b DEF SessionTyped
  <2>3. NothingNewer'
    <3>1. \A i \in 1 .. Len(browser.frames) :
             browser.frames[i].index <= frameSeq - L + lastIndex /\ browser.frames[i].index \in Nat
      BY <1>1, BrowserIndices DEF SessionInv, NothingNewer, L
    <3>2. \A a \in Nat : a <= frameSeq - L + lastIndex => a <= frameSeq - L + (L - 1)
      BY <1>1
    <3>3. \A i \in 1 .. Len(browser.frames) : browser.frames[i].index <= frameSeq - L + (L - 1)
      BY <3>1, <3>2
    <3> QED
      BY <3>3, <2>1, <1>2 DEF NothingNewer, L
  <2>4. BrowserIsOrdered' /\ CompleteInv'
    BY <2>1 DEF SessionInv, BrowserIsOrdered, CompleteInv
  <2> QED
    BY <1>3, <2>2, <2>3, <2>4 DEF SessionInv
<1> QED
  BY <1>5, <1>6

\* The frames publishNew takes are the ring's after lastIndex.
LEMMA NewFramesAre ==
    ASSUME ring \in Seq(Frames), lastIndex \in Int, -1 <= lastIndex, lastIndex <= Len(ring) - 1
    PROVE  /\ NewFrames \in Seq(Frames) /\ Len(NewFrames) = Len(ring) - (lastIndex + 1)
           /\ \A i \in 1 .. Len(NewFrames) : NewFrames[i] = ring[lastIndex + 1 + i]
<1>0. PICK a : a = lastIndex + 2
  OBVIOUS
<1>1. a \in 1 .. Len(ring) + 1 /\ Len(ring) \in Nat /\ a - 1 = lastIndex + 1
  BY <1>0
<1>2. NewFrames = SubSeq(ring, a, Len(ring))
  BY <1>0 DEF NewFrames
<1>3. \A i \in a .. Len(ring) : i \in 1 .. Len(ring) /\ ring[i] \in Frames
  BY <1>1
<1>4. Len(SubSeq(ring, a, Len(ring))) = Len(ring) - a + 1
  BY <1>1
<1>5. SubSeq(ring, a, Len(ring)) \in Seq(Frames)
  BY <1>1
<1>6. \A i \in 1 .. Len(ring) - a + 1 : SubSeq(ring, a, Len(ring))[i] = ring[a + i - 1]
  BY <1>1
<1>7. \A i \in 1 .. Len(ring) - a + 1 : a + i - 1 = lastIndex + 1 + i
  BY <1>0
<1>8. Len(ring) - a + 1 = Len(ring) - (lastIndex + 1)
  BY <1>0, <1>1
<1> QED
  BY <1>2, <1>4, <1>5, <1>6, <1>7, <1>8, Zenon

\* publishNew appends what the browser has not been sent, in order.
LEMMA PublishKeepsSession ==
    ASSUME SessionInv, PublishNew PROVE SessionInv'
<1> DEFINE L == Len(ring)
<1>1. /\ ring \in Seq(Frames) /\ frameSeq \in Nat /\ L \in Nat
      /\ lastIndex \in Int /\ -1 <= lastIndex /\ lastIndex <= L - 1
      /\ browser \in Browsers
  BY DEF SessionInv, SessionTyped
<1>b. intact \in BOOLEAN /\ shifted \in BOOLEAN
  BY DEF SessionInv, SessionTyped
<1>2. /\ lastIndex' = L - 1 /\ ring' = ring /\ frameSeq' = frameSeq /\ shifted' = shifted
  BY DEF PublishNew, runtime
<1>3. RingInv'
  BY <1>2 DEF SessionInv, RingInv
<1>t. /\ ring' \in Seq(Frames) /\ frameSeq' \in Nat
      /\ lastIndex' \in Int /\ -1 <= lastIndex' /\ lastIndex' <= Len(ring') - 1
  BY <1>1, <1>2
<1>4. \A i \in 1 .. L : ring[i].index = frameSeq - L + i - 1 /\ ring[i] \in Frames
  BY <1>1 DEF SessionInv, RingInv
<1>5. PICK N : N = NewFrames
  OBVIOUS
<1>6. /\ N \in Seq(Frames) /\ Len(N) = L - (lastIndex + 1)
      /\ \A i \in 1 .. Len(N) : N[i] = ring[lastIndex + 1 + i]
  BY <1>1, <1>5, NewFramesAre
<1> HIDE DEF L
<1>7. /\ Len(N) \in Nat
      /\ \A i \in 1 .. Len(N) : /\ lastIndex + 1 + i \in 1 .. L
                                /\ N[i].index = frameSeq - L + lastIndex + i
                                /\ View(N[i]).index = N[i].index
  <2>1. Len(N) \in Nat
    BY <1>1, <1>6
  <2>2. ASSUME NEW i \in 1 .. Len(N)
        PROVE  /\ lastIndex + 1 + i \in 1 .. L
               /\ N[i].index = frameSeq - L + lastIndex + i
               /\ View(N[i]).index = N[i].index
    <3>1. lastIndex + 1 + i \in 1 .. L
      BY <1>1, <1>6, <2>1
    <3>2. N[i] = ring[lastIndex + 1 + i] /\ N[i] \in Frames
      BY <1>6, <3>1, <1>4
    <3>3. N[i].index = frameSeq - L + (lastIndex + 1 + i) - 1
      BY <3>1, <3>2, <1>4
    <3>4. frameSeq - L + (lastIndex + 1 + i) - 1 = frameSeq - L + lastIndex + i
      BY <1>1, <2>1
    <3> QED
      BY <3>1, <3>2, <3>3, <3>4, ViewFields
  <2> QED
    BY <2>1, <2>2
<1>v. /\ Len(browser.frames) \in Nat /\ Len(browser.history) \in Nat
      /\ \A i \in 1 .. Len(browser.frames) : browser.frames[i].index \in Nat
  BY <1>1, BrowserIndices
<1>n. \A i \in 1 .. Len(browser.frames) : browser.frames[i].index <= frameSeq - L + lastIndex
  BY DEF SessionInv, NothingNewer, L
<1>o. \A i \in 2 .. Len(browser.frames) : browser.frames[i - 1].index < browser.frames[i].index
  BY DEF SessionInv, BrowserIsOrdered
<1>8. CASE Delivers
  <2>1. browser' = Folded(browser, N) /\ intact' = intact
    BY <1>5, <1>8 DEF PublishNew, Folded
  <2>2. Extends(browser', browser, N, Len(N))
    BY <1>1, <1>6, <2>1, FoldedExtends
  <2>3. PICK x, y, b, c : x = browser'.frames /\ y = browser'.history
                          /\ b = Len(browser.frames) /\ c = Len(browser.history)
    OBVIOUS
  <2>4. /\ b \in Nat /\ Len(x) = b + Len(N) /\ c \in Nat /\ Len(y) = c + Len(N)
    BY <2>2, <2>3, <1>v DEF Extends
  <2>5. /\ \A i \in 1 .. b : x[i] = browser.frames[i]
        /\ \A i \in 1 .. c : y[i] = browser.history[i]
        /\ \A i \in 1 .. Len(N) : x[b + i] = View(N[i])
        /\ \A i \in 1 .. Len(N) : y[c + i] = HistoryItem(N[i])
    BY <2>2, <2>3, Zenon DEF Extends
  <2>6. SessionTyped'
    <3>1. browser' \in Browsers
      BY <2>2 DEF Extends
    <3>2. intact' \in BOOLEAN /\ shifted' \in BOOLEAN
      BY <1>b, <1>2, <2>1
    <3> QED
      BY <1>t, <3>1, <3>2 DEF SessionTyped
  <2>7. ASSUME NEW i \in 1 .. b + Len(N)
        PROVE  \/ /\ i \in 1 .. b /\ x[i].index = browser.frames[i].index
                  /\ x[i].index \in Nat /\ x[i].index <= frameSeq - L + lastIndex
               \/ /\ i > b /\ x[i].index = frameSeq - L + lastIndex + (i - b)
    <3>1. CASE i \in 1 .. b
      BY <3>1, <2>5, <1>n, <1>v, <2>3
    <3>2. CASE i > b
      <4>1. i - b \in 1 .. Len(N) /\ b + (i - b) = i
        BY <3>2, <2>4, <1>7
      <4>2. x[b + (i - b)] = View(N[i - b])
        BY <4>1, <2>5
      <4>3. View(N[i - b]).index = frameSeq - L + lastIndex + (i - b)
        BY <4>1, <1>7
      <4> QED
        BY <3>2, <4>1, <4>2, <4>3
    <3> QED
      BY <3>1, <3>2, <2>4, <1>7
  <2>8. NothingNewer'
    <3>1. ASSUME NEW i \in 1 .. b + Len(N) PROVE x[i].index <= frameSeq - L + (L - 1)
      <4>1. CASE i \in 1 .. b /\ x[i].index \in Nat /\ x[i].index <= frameSeq - L + lastIndex
        BY <4>1, <1>1
      <4>2. CASE i > b /\ x[i].index = frameSeq - L + lastIndex + (i - b)
        <5>1. i \in Int /\ i <= b + Len(N) /\ Len(N) = L - (lastIndex + 1)
          BY <2>4, <1>6, <1>7
        <5>2. frameSeq - L + lastIndex + (i - b) <= frameSeq - L + (L - 1)
          BY <5>1, <2>4, <1>1
        <5> QED
          BY <4>2, <5>2
      <4> QED
        BY <4>1, <4>2, <2>7
    <3> QED
      BY <3>1, <2>3, <2>4, <1>2 DEF NothingNewer, L
  <2>9. BrowserIsOrdered'
    <3>1. ASSUME NEW i \in 2 .. b + Len(N) PROVE x[i - 1].index < x[i].index
      <4>1. i \in 1 .. b + Len(N) /\ i - 1 \in 1 .. b + Len(N)
        BY <2>4, <1>7
      <4>2. PICK p : p = x[i - 1].index
        OBVIOUS
      <4>3. PICK q : q = x[i].index
        OBVIOUS
      <4>4. \/ i - 1 \in 1 .. b /\ p = browser.frames[i - 1].index /\ p \in Nat /\ p <= frameSeq - L + lastIndex
            \/ i - 1 > b /\ p = frameSeq - L + lastIndex + ((i - 1) - b)
        BY <4>1, <4>2, <2>7
      <4>5. \/ i \in 1 .. b /\ q = browser.frames[i].index /\ q \in Nat
            \/ i > b /\ q = frameSeq - L + lastIndex + (i - b)
        BY <4>1, <4>3, <2>7
      <4>6. p < q
        <5>1. CASE i \in 1 .. b
          <6>1. i - 1 \in 1 .. b /\ i \in 2 .. Len(browser.frames) /\ ~(i > b) /\ ~(i - 1 > b)
            BY <5>1, <2>3, <2>4, <1>7
          <6> QED
            BY <6>1, <1>o, <4>4, <4>5
        <5>2. CASE i > b
          <6>1. q = frameSeq - L + lastIndex + (i - b)
            BY <4>5, <5>2, <2>4
          <6>2. CASE p \in Nat /\ p <= frameSeq - L + lastIndex
            BY <6>1, <6>2, <5>2, <2>4, <1>1
          <6>3. CASE p = frameSeq - L + lastIndex + ((i - 1) - b)
            BY <6>1, <6>3, <2>4, <1>1
          <6> QED
            BY <6>2, <6>3, <4>4
        <5> QED
          BY <5>1, <5>2, <4>5
      <4> QED
        BY <4>2, <4>3, <4>6
    <3> QED
      BY <3>1, <2>3, <2>4 DEF BrowserIsOrdered
  <2>10. CompleteInv'
    <3> SUFFICES ASSUME intact, ~shifted PROVE CompleteInv'
      BY <2>1, <1>2 DEF CompleteInv
    <3>1. /\ b = lastIndex + 1 /\ c = lastIndex + 1
          /\ \A i \in 1 .. lastIndex + 1 : /\ browser.frames[i] = View(ring[i])
                                           /\ browser.history[i] = HistoryItem(ring[i])
      BY <2>3 DEF SessionInv, CompleteInv
    <3>2. Len(x) = L /\ Len(y) = L
      BY <3>1, <2>4, <1>6, <1>1
    <3>3. ASSUME NEW i \in 1 .. L PROVE x[i] = View(ring[i]) /\ y[i] = HistoryItem(ring[i])
      <4>1. CASE i <= lastIndex + 1
        <5>1. i \in 1 .. b /\ i \in 1 .. c /\ i \in 1 .. lastIndex + 1
          BY <4>1, <3>1, <1>1
        <5> QED
          BY <5>1, <3>1, <2>5, Zenon
      <4>2. CASE i > lastIndex + 1
        <5>1. /\ i - b \in 1 .. Len(N) /\ b + (i - b) = i /\ c + (i - b) = i /\ lastIndex + 1 + (i - b) = i
          BY <4>2, <3>1, <2>4, <1>6, <1>7, <1>1
        <5>2. PICK j : j = i - b
          OBVIOUS
        <5>3. N[j] = ring[i] /\ x[i] = View(N[j]) /\ y[i] = HistoryItem(N[j])
          BY <5>1, <5>2, <1>6, <2>5, Zenon
        <5> QED
          BY <5>3, Zenon
      <4> QED
        BY <4>1, <4>2, <1>1
    <3>4. lastIndex' + 1 = L
      BY <1>1, <1>2
    <3> QED
      BY <3>2, <3>3, <3>4, <2>3, <1>2 DEF CompleteInv
  <2> QED
    BY <1>3, <2>6, <2>8, <2>9, <2>10 DEF SessionInv
<1>9. CASE ~Delivers
  <2>1. browser' = browser /\ intact' = IF N = <<>> THEN intact ELSE FALSE
    BY <1>9, <1>5 DEF PublishNew
  <2>2. intact' \in BOOLEAN /\ shifted' \in BOOLEAN /\ browser' \in Browsers
    BY <2>1, <1>b, <1>2, <1>1
  <2>3. SessionTyped'
    BY <1>t, <2>2 DEF SessionTyped
  <2>4. NothingNewer'
    <3>1. \A a \in Nat : a <= frameSeq - L + lastIndex => a <= frameSeq - L + (L - 1)
      BY <1>1
    <3>2. \A i \in 1 .. Len(browser.frames) : browser.frames[i].index <= frameSeq - L + (L - 1)
      BY <3>1, <1>n, <1>v
    <3> QED
      BY <3>2, <2>1, <1>2 DEF NothingNewer, L
  <2>5. BrowserIsOrdered'
    BY <2>1 DEF SessionInv, BrowserIsOrdered
  <2>6. CompleteInv'
    <3>1. CASE N = <<>>
      <4>1. Len(N) = 0 /\ intact' = intact
        BY <3>1, <2>1
      <4>2. L - 1 = lastIndex
        BY <4>1, <1>6, <1>1
      <4> QED
        BY <4>1, <4>2, <2>1, <1>2 DEF SessionInv, CompleteInv
    <3>2. CASE N # <<>>
      <4>1. intact' = FALSE
        BY <3>2, <2>1
      <4> QED
        BY <4>1 DEF CompleteInv
    <3> QED
      BY <3>1, <3>2
  <2> QED
    BY <1>3, <2>3, <2>4, <2>5, <2>6 DEF SessionInv
<1> QED
  BY <1>8, <1>9

\* What every step keeps: only a tick, a snapshot and publishNew touch the session.
LEMMA SessionStepInv == SessionInv /\ [Next]_vars => SessionInv'
<1> SUFFICES ASSUME SessionInv, [Next]_vars PROVE SessionInv'
  OBVIOUS
<1> DEFINE Same == UNCHANGED <<ring, frameSeq, lastIndex, browser, intact, shifted>>
<1>1. ASSUME Same PROVE SessionInv'
  BY <1>1 DEF SessionInv, SessionTyped, RingInv, NothingNewer, BrowserIsOrdered, CompleteInv
<1>2. ASSUME NEW net \in Nets, TickRecords(net) PROVE SessionInv'
  BY <1>2, TickKeepsSession
<1>3. PublishSnapshot => SessionInv'
  BY SnapshotKeepsSession
<1>4. PublishNew => SessionInv'
  BY PublishKeepsSession
<1>5. StartRuntime \/ StopRuntime => Same
  BY DEF StartRuntime, StopRuntime, ghosts
<1>6. StartAdapter \/ ReconnectFires \/ StopAdapter => Same
  BY DEF StartAdapter, ReconnectFires, StopAdapter, ghosts, runtime
<1>7. ASSUME NEW s \in Slots, PeerLeaves(s) \/ HandleClose(s) PROVE Same
  BY <1>7 DEF PeerLeaves, HandleClose, ghosts, runtime
<1>8. ASSUME NEW kind \in DOMAIN Target, NEW accepted \in BOOLEAN, Command(kind, accepted) PROVE Same
  BY <1>8 DEF Command, ghosts, runtime
<1>9. UNCHANGED vars => Same
  BY DEF vars, ghosts, runtime
<1> HIDE DEF Same
<1> QED
  BY <1>1, <1>2, <1>3, <1>4, <1>5, <1>6, <1>7, <1>8, <1>9 DEF Next

\* The least of two numbers.
LEMMA MinOfTwo ==
    ASSUME NEW a \in Int, NEW b \in Int PROVE Min({a, b}) = IF a <= b THEN a ELSE b
<1>1. PICK m \in {a, b} : \A y \in {a, b} : m <= y
  <2>1. CASE a <= b
    BY <2>1
  <2>2. CASE ~(a <= b)
    BY <2>2
  <2> QED
    BY <2>1, <2>2
<1>2. Min({a, b}) \in {a, b} /\ \A y \in {a, b} : Min({a, b}) <= y
  BY <1>1 DEF Min
<1> HIDE DEF Min
<1> QED
  BY <1>2

\* The session's invariant says what the browser's faithfulness asks for.
LEMMA SessionInvIsEnough == SessionInv => BrowserFollowsRing
<1> SUFFICES ASSUME SessionInv PROVE BrowserFollowsRing
  OBVIOUS
<1>1. /\ ring \in Seq(Frames) /\ frameSeq \in Nat /\ Len(ring) \in Nat /\ DOMAIN ring = 1 .. Len(ring)
      /\ lastIndex \in Int /\ -1 <= lastIndex /\ lastIndex <= Len(ring) - 1
      /\ browser \in Browsers
  BY DEF SessionInv, SessionTyped
<1>2. RingHoldsNewest
  <2>1. Capacity \in Int /\ frameSeq \in Int
    BY SessionAssumption, <1>1
  <2>2. Len(ring) = Min({frameSeq, Capacity})
    BY <2>1, MinOfTwo DEF SessionInv, RingInv
  <2> HIDE DEF Min
  <2> QED
    BY <2>2, <1>1 DEF RingHoldsNewest, SessionInv, RingInv
<1>3. BrowserIsComplete
  <2> SUFFICES ASSUME intact, ~shifted PROVE browser = presentSession(SubSeq(ring, 1, lastIndex + 1))
    BY DEF BrowserIsComplete
  <2>1. /\ Len(browser.frames) = lastIndex + 1 /\ Len(browser.history) = lastIndex + 1
        /\ \A i \in 1 .. lastIndex + 1 : /\ browser.frames[i] = View(ring[i])
                                         /\ browser.history[i] = HistoryItem(ring[i])
    BY DEF SessionInv, CompleteInv
  <2>2. PICK S : S = SubSeq(ring, 1, lastIndex + 1)
    OBVIOUS
  <2>3. DOMAIN S = 1 .. lastIndex + 1 /\ \A i \in 1 .. lastIndex + 1 : S[i] = ring[i]
    BY <2>2, <1>1
  <2> DEFINE x == [i \in DOMAIN S |-> View(S[i])]
             y == [i \in DOMAIN S |-> HistoryItem(S[i])]
  <2>4. /\ browser = [frames |-> browser.frames, history |-> browser.history]
        /\ browser.frames \in Seq(Views) /\ browser.history \in Seq(Items)
    BY <1>1 DEF Browsers
  <2>5. browser.frames = x
    <3>1. browser.frames = [i \in 1 .. lastIndex + 1 |-> browser.frames[i]]
      BY <2>1, <2>4
    <3>2. x = [i \in 1 .. lastIndex + 1 |-> View(ring[i])]
      BY <2>3
    <3> QED
      BY <3>1, <3>2, <2>1
  <2>6. browser.history = y
    <3>1. browser.history = [i \in 1 .. lastIndex + 1 |-> browser.history[i]]
      BY <2>1, <2>4
    <3>2. y = [i \in 1 .. lastIndex + 1 |-> HistoryItem(ring[i])]
      BY <2>3
    <3> QED
      BY <3>1, <3>2, <2>1
  <2> QED
    BY <2>2, <2>4, <2>5, <2>6, Zenon DEF presentSession
<1> QED
  BY <1>2, <1>3 DEF SessionInv, BrowserFollowsRing

\* The browser shows what the runtime decided, for every capacity of the ring:
\* the ring holds the newest frames without a hole, no frame shows twice or out of
\* order whatever was lost, and a browser that lost nothing shows every published
\* frame.
THEOREM BrowserFollows == Spec => []BrowserFollowsRing
<1>1. Spec => []SessionInv
  BY SessionInitInv, SessionStepInv, PTL DEF Spec
<1> QED
  BY <1>1, SessionInvIsEnough, PTL

(***************************************************************************)
(* The control panel.                                                      *)
(***************************************************************************)
ControlInv == commands \in Seq({"run", "stop", "emergency_exit"}) /\ ControlIsAudited

\* The risk state follows the last command on record.
LEMMA ControlStepInv == ControlInv /\ [Next]_vars => ControlInv'
<1> SUFFICES ASSUME ControlInv, [Next]_vars PROVE ControlInv'
  OBVIOUS
<1> DEFINE Same == UNCHANGED <<risk, commands>>
<1>1. ASSUME Same PROVE ControlInv'
  BY <1>1 DEF ControlInv, ControlIsAudited
<1>2. ASSUME NEW kind \in DOMAIN Target, NEW accepted \in BOOLEAN, Command(kind, accepted) PROVE ControlInv'
  <2>0. kind \in {"run", "stop", "emergency_exit"}
    BY DEF Target
  <2>1. CASE accepted
    <3>1. risk' = Target[kind] /\ commands' = Append(commands, kind)
      BY <1>2, <2>1 DEF Command, Recorded
    <3>2. /\ commands \in Seq({"run", "stop", "emergency_exit"})
      BY DEF ControlInv
    <3>3. /\ commands' \in Seq({"run", "stop", "emergency_exit"}) /\ commands' # <<>>
          /\ commands'[Len(commands')] = kind
      BY <2>0, <3>1, <3>2
    <3>4. Last(commands') = kind
      BY <3>3 DEF Last
    <3> QED
      BY <3>1, <3>3, <3>4 DEF ControlInv, ControlIsAudited
  <2>2. CASE ~accepted
    <3>1. Same
      BY <1>2, <2>2 DEF Command, Recorded
    <3> QED
      BY <3>1, <1>1
  <2> QED
    BY <2>1, <2>2
<1>3. StartRuntime \/ StopRuntime => Same
  BY DEF StartRuntime, StopRuntime, control
<1>4. StartAdapter \/ ReconnectFires \/ StopAdapter => Same
  BY DEF StartAdapter, ReconnectFires, StopAdapter, control
<1>5. ASSUME NEW s \in Slots, PeerLeaves(s) \/ HandleClose(s) PROVE Same
  BY <1>5 DEF PeerLeaves, HandleClose, control
<1>6. ASSUME NEW net \in Nets, TickRecords(net) PROVE Same
  BY <1>6 DEF TickRecords, control
<1>7. PublishSnapshot => Same
  BY DEF PublishSnapshot, control
<1>8. PublishNew => Same
  <2>1. PublishNew => UNCHANGED <<runtime, adapter, shifted, control>>
    BY Zenon DEF PublishNew
  <2> QED
    BY <2>1 DEF control
<1>9. UNCHANGED vars => Same
  BY DEF vars, control
<1> HIDE DEF Same
<1> QED
  BY <1>1, <1>2, <1>3, <1>4, <1>5, <1>6, <1>7, <1>8, <1>9 DEF Next

(***************************************************************************)
(* Frames and commands.  Each frame, in the ring or in the browser, knows  *)
(* through its index how many commands were on record when it was decided; *)
(* the record only grows, so what held when it was decided still holds.    *)
(***************************************************************************)
Obeys(v, d, c) ==
    /\ v.index \in Nat /\ v.index + 1 <= Len(d)
    /\ d[v.index + 1] > 0 /\ c[d[v.index + 1]] = "emergency_exit" => v.action = "WAIT"

Counted(d, c) ==
    /\ d \in Seq(Nat) /\ \A k \in 1 .. Len(d) : d[k] <= Len(c)
    /\ c \in Seq({"run", "stop", "emergency_exit"})

ExitInv ==
    /\ Counted(decidedAfter, commands) /\ Len(decidedAfter) = frameSeq
    /\ \A i \in 1 .. Len(ring) : Obeys(ring[i], decidedAfter, commands)
    /\ \A i \in 1 .. Len(browser.frames) : Obeys(browser.frames[i], decidedAfter, commands)

\* A decision or a command more changes nothing for the frames there are.
LEMMA ObeysStill ==
    ASSUME NEW d, NEW c, Counted(d, c), NEW n \in Nat, n <= Len(c),
           NEW k \in {"run", "stop", "emergency_exit"}
    PROVE  /\ Counted(Append(d, n), c) /\ Counted(d, Append(c, k))
           /\ \A v : Obeys(v, d, c) => Obeys(v, Append(d, n), c) /\ Obeys(v, d, Append(c, k))
<1>1. /\ d \in Seq(Nat) /\ Len(d) \in Nat /\ c \in Seq({"run", "stop", "emergency_exit"}) /\ Len(c) \in Nat
      /\ \A i \in 1 .. Len(d) : d[i] \in Nat /\ d[i] <= Len(c)
  BY DEF Counted
<1> DEFINE e == Append(d, n)
           b == Append(c, k)
<1>2. /\ e \in Seq(Nat) /\ Len(e) = Len(d) + 1 /\ e[Len(d) + 1] = n
      /\ \A i \in 1 .. Len(d) : e[i] = d[i]
  BY <1>1
<1>3. /\ b \in Seq({"run", "stop", "emergency_exit"}) /\ Len(b) = Len(c) + 1
      /\ \A i \in 1 .. Len(c) : b[i] = c[i]
  BY <1>1
<1> HIDE DEF e, b
<1>4. Counted(e, c) /\ Counted(d, b)
  <2>1. \A i \in 1 .. Len(d) + 1 : e[i] <= Len(c)
    <3> TAKE i \in 1 .. Len(d) + 1
    <3>1. i \in 1 .. Len(d) \/ i = Len(d) + 1
      BY <1>1
    <3> QED
      BY <3>1, <1>1, <1>2
  <2>2. \A i \in 1 .. Len(d) : d[i] <= Len(b)
    BY <1>1, <1>3
  <2> QED
    BY <2>1, <2>2, <1>1, <1>2, <1>3 DEF Counted
<1>5. ASSUME NEW v, Obeys(v, d, c) PROVE Obeys(v, e, c) /\ Obeys(v, d, b)
  <2>1. PICK i : i = v.index + 1
    OBVIOUS
  <2>2. v.index \in Nat /\ i \in 1 .. Len(d)
    BY <1>1, <1>5, <2>1 DEF Obeys
  <2>3. e[i] = d[i] /\ d[i] \in Nat /\ (d[i] > 0 => b[d[i]] = c[d[i]])
    BY <1>1, <1>2, <1>3, <2>2
  <2> QED
    BY <1>2, <1>5, <2>1, <2>2, <2>3 DEF Obeys
<1> QED
  BY <1>4, <1>5 DEF e, b

\* The browser shows a frame as it was decided.
LEMMA ViewObeys ==
    ASSUME NEW f, NEW d, NEW c, Obeys(f, d, c) PROVE Obeys(View(f), d, c)
<1>1. View(f).index = f.index /\ View(f).action = f.action
  BY DEF View, frameView
<1> QED
  BY <1>1 DEF Obeys

\* A frame is decided under the state the last command asked for.
LEMMA TickKeepsExits ==
    ASSUME SessionInv, ControlInv, ExitInv, NEW net \in Nets, TickRecords(net) PROVE ExitInv'
<1>1. /\ ring \in Seq(Frames) /\ frameSeq \in Nat /\ Len(ring) \in Nat /\ Len(ring) <= Capacity
  BY SessionAssumption DEF SessionInv, SessionTyped, RingInv
<1>2. PICK f \in Frames : f = [index |-> frameSeq, risk |-> RiskSnapshot, action |-> FrameAction(net)]
  BY <1>1, DecisionIsFrame
<1>3. /\ ring' = RingPush(f) /\ frameSeq' = frameSeq + 1 /\ browser' = browser /\ commands' = commands
      /\ decidedAfter' = Append(decidedAfter, Len(commands))
  BY <1>2 DEF TickRecords, control
<1>c. Counted(decidedAfter, commands) /\ Len(decidedAfter) = frameSeq
  BY DEF ExitInv
<1>4. Len(commands) \in Nat /\ decidedAfter \in Seq(Nat)
  BY <1>c DEF Counted
<1>5. /\ Counted(decidedAfter', commands)
      /\ \A v : Obeys(v, decidedAfter, commands) => Obeys(v, decidedAfter', commands)
  BY <1>3, <1>4, <1>c, ObeysStill
<1>6. Len(decidedAfter') = frameSeq + 1 /\ decidedAfter'[frameSeq + 1] = Len(commands)
  BY <1>1, <1>3, <1>4, <1>c
<1>7. Obeys(f, decidedAfter', commands)
  <2>1. f.index = frameSeq /\ f.action = FrameAction(net)
    BY <1>2
  <2>2. ASSUME Len(commands) > 0, commands[Len(commands)] = "emergency_exit" PROVE FrameAction(net) = "WAIT"
    <3>1. commands # <<>> /\ Last(commands) = "emergency_exit"
      BY <2>2 DEF Last
    <3>2. risk = "HALT"
      BY <3>1 DEF ControlInv, ControlIsAudited, Target
    <3> QED
      BY <3>2 DEF FrameAction, RiskSnapshot, Action
  <2> QED
    BY <1>1, <1>6, <2>1, <2>2 DEF Obeys
<1>8. \A i \in 1 .. Len(ring') : Obeys(ring'[i], decidedAfter', commands)
  <2>1. \A i \in 1 .. Len(ring) : Obeys(ring[i], decidedAfter', commands)
    BY <1>5 DEF ExitInv
  <2>2. CASE Len(ring) < Capacity
    <3>1. /\ Len(ring') = Len(ring) + 1 /\ ring'[Len(ring) + 1] = f
          /\ \A i \in 1 .. Len(ring) : ring'[i] = ring[i]
      BY <1>1, <1>2, <1>3, <2>2, PushedRing
    <3>2. \A i \in 1 .. Len(ring') : i \in 1 .. Len(ring) \/ i = Len(ring) + 1
      BY <1>1, <3>1
    <3> QED
      BY <1>7, <2>1, <3>1, <3>2, Zenon
  <2>3. CASE Len(ring) = Capacity
    <3>1. /\ Len(ring') = Len(ring) /\ ring'[Len(ring)] = f
          /\ \A i \in 1 .. Len(ring) - 1 : ring'[i] = ring[i + 1]
      BY <1>1, <1>2, <1>3, <2>3, PushedRing
    <3>2. \A i \in 1 .. Len(ring') : i # Len(ring) => i \in 1 .. Len(ring) - 1 /\ i + 1 \in 1 .. Len(ring)
      BY <1>1, <3>1
    <3> QED
      BY <1>7, <2>1, <3>1, <3>2, Zenon
  <2> QED
    BY <1>1, <2>2, <2>3, SessionAssumption
<1>9. \A i \in 1 .. Len(browser.frames) : Obeys(browser.frames[i], decidedAfter', commands)
  BY <1>5 DEF ExitInv
<1> QED
  BY <1>3, <1>5, <1>6, <1>8, <1>9 DEF ExitInv

\* What is published are views of the ring's frames.
LEMMA PublishKeepsExits ==
    ASSUME SessionInv, ExitInv, PublishSnapshot \/ PublishNew PROVE ExitInv'
<1>1. /\ ring \in Seq(Frames) /\ browser \in Browsers /\ Len(ring) \in Nat
      /\ lastIndex \in Int /\ -1 <= lastIndex /\ lastIndex <= Len(ring) - 1
  BY DEF SessionInv, SessionTyped
<1>2. ring' = ring /\ frameSeq' = frameSeq /\ decidedAfter' = decidedAfter /\ commands' = commands
  <2>1. UNCHANGED <<runtime, control>>
    BY Zenon DEF PublishSnapshot, PublishNew
  <2> QED
    BY <2>1 DEF runtime, control
<1>3. \A i \in 1 .. Len(ring) : Obeys(View(ring[i]), decidedAfter, commands)
  BY ViewObeys DEF ExitInv
<1>4. ASSUME \A i \in 1 .. Len(browser'.frames) : Obeys(browser'.frames[i], decidedAfter, commands)
      PROVE  ExitInv'
  BY <1>2, <1>4 DEF ExitInv
<1>5. CASE browser' = browser
  BY <1>2, <1>5 DEF ExitInv
<1>6. CASE PublishSnapshot /\ Delivers
  <2>1. browser'.frames = [i \in DOMAIN ring |-> View(ring[i])]
    BY <1>6 DEF PublishSnapshot, applyPatch, presentSession
  <2>2. DOMAIN ring = 1 .. Len(ring) /\ Len(browser'.frames) = Len(ring)
    BY <1>1, <2>1
  <2>3. \A i \in 1 .. Len(ring) : browser'.frames[i] = View(ring[i])
    BY <2>1, <2>2
  <2> QED
    BY <1>3, <1>4, <2>2, <2>3, Zenon
<1>7. CASE PublishNew /\ Delivers
  <2>1. PICK N : N = NewFrames
    OBVIOUS
  <2>2. /\ N \in Seq(Frames) /\ Len(N) = Len(ring) - (lastIndex + 1)
        /\ \A i \in 1 .. Len(N) : N[i] = ring[lastIndex + 1 + i]
    BY <1>1, <2>1, NewFramesAre
  <2>3. browser' = Folded(browser, N)
    BY <1>7, <2>1 DEF PublishNew, Folded
  <2>4. Extends(browser', browser, N, Len(N))
    BY <1>1, <2>2, <2>3, FoldedExtends
  <2>5. PICK x, b : x = browser'.frames /\ b = Len(browser.frames)
    OBVIOUS
  <2>6. /\ b \in Nat /\ Len(x) = b + Len(N)
        /\ \A i \in 1 .. b : x[i] = browser.frames[i]
        /\ \A i \in 1 .. Len(N) : x[b + i] = View(N[i])
    BY <2>4, <2>5, <1>1, BrowserIndices DEF Extends
  <2>7. ASSUME NEW i \in 1 .. Len(x) PROVE Obeys(x[i], decidedAfter, commands)
    <3>1. CASE i <= b
      <4>1. i \in 1 .. b /\ i \in 1 .. Len(browser.frames)
        BY <2>5, <2>6, <3>1
      <4> QED
        BY <4>1, <2>6 DEF ExitInv
    <3>2. CASE i > b
      <4>1. PICK j : j = i - b
        OBVIOUS
      <4>2. j \in 1 .. Len(N) /\ b + j = i /\ lastIndex + 1 + j \in 1 .. Len(ring)
        BY <4>1, <3>2, <2>6, <2>2, <1>1
      <4>3. x[i] = View(ring[lastIndex + 1 + j])
        BY <4>2, <2>6, <2>2, Zenon
      <4> QED
        BY <4>2, <4>3, <1>3, Zenon
    <3> QED
      BY <3>1, <3>2, <2>6
  <2> QED
    BY <1>4, <2>5, <2>7
<1> QED
  BY <1>5, <1>6, <1>7 DEF PublishSnapshot, PublishNew

\* What every step keeps.
LEMMA ExitStepInv == SessionInv /\ ControlInv /\ ExitInv /\ [Next]_vars => ExitInv'
<1> SUFFICES ASSUME SessionInv, ControlInv, ExitInv, [Next]_vars PROVE ExitInv'
  OBVIOUS
<1> DEFINE Same == UNCHANGED <<ring, frameSeq, decidedAfter, browser, commands>>
<1>1. ASSUME Same PROVE ExitInv'
  BY <1>1 DEF ExitInv
<1>2. ASSUME NEW kind \in DOMAIN Target, NEW accepted \in BOOLEAN, Command(kind, accepted) PROVE ExitInv'
  <2>1. CASE accepted
    <3>1. /\ commands' = Append(commands, kind) /\ kind \in {"run", "stop", "emergency_exit"}
          /\ UNCHANGED <<ring, frameSeq, decidedAfter, browser>>
      BY <1>2, <2>1 DEF Command, Recorded, Target, runtime
    <3>2. Counted(decidedAfter, commands) /\ 0 \in Nat /\ 0 <= Len(commands)
      BY DEF ExitInv, Counted
    <3>3. /\ Counted(decidedAfter, commands')
          /\ \A v : Obeys(v, decidedAfter, commands) => Obeys(v, decidedAfter, commands')
      BY <3>1, <3>2, ObeysStill
    <3> QED
      BY <3>1, <3>3 DEF ExitInv
  <2>2. CASE ~accepted
    BY <1>2, <2>2, <1>1 DEF Command, Recorded, runtime
  <2> QED
    BY <2>1, <2>2
<1>3. StartRuntime \/ StopRuntime => Same
  BY DEF StartRuntime, StopRuntime, control
<1>4. StartAdapter \/ ReconnectFires \/ StopAdapter => Same
  BY DEF StartAdapter, ReconnectFires, StopAdapter, control, runtime
<1>5. ASSUME NEW s \in Slots, PeerLeaves(s) \/ HandleClose(s) PROVE Same
  BY <1>5 DEF PeerLeaves, HandleClose, control, runtime
<1>6. ASSUME NEW net \in Nets, TickRecords(net) PROVE ExitInv'
  BY <1>6, TickKeepsExits
<1>7. PublishSnapshot \/ PublishNew => ExitInv'
  BY PublishKeepsExits
<1>8. UNCHANGED vars => Same
  BY DEF vars, control, runtime
<1> HIDE DEF Same
<1> QED
  BY <1>1, <1>2, <1>3, <1>4, <1>5, <1>6, <1>7, <1>8 DEF Next

\* An operator's command is on record exactly when it took effect, and what the
\* browser shows of a frame decided after an emergency exit, up to the next
\* command, is a WAIT with its reason.
THEOREM CommandsHold == Spec => []CommandsTakeEffect
<1>1. Init => ControlInv /\ ExitInv
  <2> SUFFICES ASSUME Init PROVE ControlInv /\ ExitInv
    OBVIOUS
  <2>1. /\ commands = <<>> /\ risk = "RUN" /\ decidedAfter = <<>> /\ ring = <<>> /\ frameSeq = 0
        /\ browser.frames = <<>>
    BY DEF Init, EmptyView
  <2> QED
    BY <2>1 DEF ControlInv, ControlIsAudited, ExitInv, Counted
<1>2. Spec => [](SessionInv /\ ControlInv /\ ExitInv)
  BY <1>1, SessionInitInv, SessionStepInv, ControlStepInv, ExitStepInv, PTL DEF Spec
<1>3. SessionInv /\ ExitInv => ExitedFramesWait
  <2> SUFFICES ASSUME SessionInv, ExitInv, NEW v \in ToSet(browser.frames),
                      decidedAfter[v.index + 1] > 0,
                      commands[decidedAfter[v.index + 1]] = "emergency_exit"
               PROVE  v.action = "WAIT" /\ v.rejected
    BY DEF ExitedFramesWait
  <2>1. browser.frames \in Seq(Views)
    BY BrowserIndices DEF SessionInv, SessionTyped
  <2>2. PICK i \in 1 .. Len(browser.frames) : v = browser.frames[i]
    BY <2>1 DEF ToSet
  <2>3. PICK f \in Frames : v = View(f)
    BY <2>1, <2>2 DEF Views
  <2>4. v.action = "WAIT"
    BY <2>2 DEF ExitInv, Obeys
  <2>5. v.rejected = (v.action \in {"HOLD", "WAIT"})
    BY <2>3 DEF View, frameView
  <2> QED
    BY <2>4, <2>5
<1>4. SessionInv /\ ControlInv /\ ExitInv => CommandsTakeEffect
  BY <1>3 DEF CommandsTakeEffect, ControlInv
<1> QED
  BY <1>2, <1>4, PTL
=============================================================================
