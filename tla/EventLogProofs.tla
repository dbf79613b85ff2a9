--------------------------- MODULE EventLogProofs ---------------------------
(***************************************************************************)
(* Proofs about EventLog, for every length of the log and every number of  *)
(* replay sessions: tampering shows, an entry of an old schema reads as    *)
(* one of the current schema, and a replay tells what it did.              *)
(***************************************************************************)
EXTENDS EventLog, FoldTheorems

(***************************************************************************)
(* The chain.  The log and what was sealed agree on everything that is not *)
(* the payload, hashes included: an append after a tampering links to the  *)
(* stored hash of its predecessor, never to a recomputed one.  The sealed  *)
(* entries are a valid chain, so a payload that differs makes the          *)
(* recomputed hash differ from the stored one.                             *)
(***************************************************************************)
IsSeq(s) == \E S : s \in Seq(S)
IsEntry(e) ==
    e = [event_type |-> e.event_type, correlation_id |-> e.correlation_id, snapshot_id |-> e.snapshot_id,
         event_time |-> e.event_time, schema_version |-> e.schema_version, payload |-> e.payload,
         seq |-> e.seq, prev_hash |-> e.prev_hash, hash |-> e.hash]

SameButPayload(e, f) ==
    /\ e.event_type = f.event_type /\ e.correlation_id = f.correlation_id /\ e.snapshot_id = f.snapshot_id
    /\ e.event_time = f.event_time /\ e.schema_version = f.schema_version
    /\ e.seq = f.seq /\ e.prev_hash = f.prev_hash /\ e.hash = f.hash

HashBefore(s, i) == IF i = 1 THEN <<>> ELSE s[i - 1].hash
IsLink(s, i) ==
    /\ s[i].seq = i /\ s[i].prev_hash = HashBefore(s, i)
    /\ s[i].hash = chainHash(HashBefore(s, i), contentHash(s[i], i))

ChainInv ==
    /\ IsSeq(log) /\ IsSeq(sealed) /\ Len(log) = Len(sealed)
    /\ \A i \in 1 .. Len(log) : /\ IsEntry(log[i]) /\ IsEntry(sealed[i])
                                /\ SameButPayload(log[i], sealed[i]) /\ IsLink(sealed, i)

\* What appending does to a sequence.
LEMMA AppendIs ==
    ASSUME NEW s, IsSeq(s), NEW e
    PROVE  /\ Len(s) \in Nat /\ DOMAIN s = 1 .. Len(s)
           /\ IsSeq(Append(s, e)) /\ Len(Append(s, e)) = Len(s) + 1
           /\ \A i \in 1 .. Len(s) : Append(s, e)[i] = s[i]
           /\ Append(s, e)[Len(s) + 1] = e
<1>1. PICK S : s \in Seq(S)
  BY DEF IsSeq
<1>2. s \in Seq(S \cup {e}) /\ e \in S \cup {e}
  BY <1>1
<1>3. Append(s, e) \in Seq(S \cup {e})
  BY <1>2
<1> QED
  BY <1>2, <1>3 DEF IsSeq

\* The hash an append links to is the stored one of the last entry.
LEMMA LastHashIs ==
    ASSUME NEW s, IsSeq(s), NEW i \in 1 .. Len(s) + 1
    PROVE  /\ LastHash(SubSeq(s, 1, i - 1)) = HashBefore(s, i)
           /\ LastHash(s) = HashBefore(s, Len(s) + 1)
<1>1. PICK S : s \in Seq(S)
  BY DEF IsSeq
<1>2. Len(s) \in Nat /\ i \in Nat /\ i >= 1
  BY <1>1
<1>3. LastHash(s) = HashBefore(s, Len(s) + 1)
  <2>1. CASE Len(s) = 0
    <3>1. s = <<>>
      BY <1>1, <2>1
    <3> QED
      BY <2>1, <3>1 DEF LastHash, HashBefore
  <2>2. CASE Len(s) > 0
    <3>1. s # <<>> /\ Len(s) + 1 # 1 /\ Len(s) + 1 - 1 = Len(s)
      BY <1>1, <1>2, <2>2
    <3> QED
      BY <3>1 DEF LastHash, HashBefore, Last
  <2> QED
    BY <1>2, <2>1, <2>2
<1>4. LastHash(SubSeq(s, 1, i - 1)) = HashBefore(s, i)
  <2>0. PICK t : t = SubSeq(s, 1, i - 1)
    OBVIOUS
  <2>1. CASE i = 1
    <3>1. t = <<>>
      BY <1>1, <2>0, <2>1
    <3> QED
      BY <2>0, <2>1, <3>1 DEF LastHash, HashBefore
  <2>2. CASE i > 1
    <3>1. Len(t) = i - 1 /\ t # <<>> /\ t[i - 1] = s[i - 1] /\ i # 1
      BY <1>1, <1>2, <2>0, <2>2
    <3> QED
      BY <2>0, <3>1 DEF LastHash, HashBefore, Last
  <2> QED
    BY <1>2, <2>1, <2>2
<1> QED
  BY <1>3, <1>4

\* A sealed entry has its input's fields and links to the log it was sealed for.
LEMMA SealedIs ==
    ASSUME NEW s, NEW input
    PROVE  LET e == Sealed(s, input) IN
           /\ IsEntry(e) /\ e.seq = Len(s) + 1 /\ e.prev_hash = LastHash(s)
           /\ e.hash = chainHash(LastHash(s), contentHash(e, Len(s) + 1))
  BY DEF Sealed, IsEntry, contentHash, chainHash, InputOf, Event

\* An append to the log and to what was sealed keeps them a chain.
LEMMA AppendKeepsChain ==
    ASSUME ChainInv, NEW input, log' = append(log, input), sealed' = append(sealed, input)
    PROVE  ChainInv'
<1>1. /\ IsSeq(log) /\ IsSeq(sealed) /\ Len(log) = Len(sealed)
      /\ \A i \in 1 .. Len(log) : /\ IsEntry(log[i]) /\ IsEntry(sealed[i])
                                  /\ SameButPayload(log[i], sealed[i]) /\ IsLink(sealed, i)
  BY DEF ChainInv
<1>2. PICK n, e, f : n = Len(log) /\ e = Sealed(log, input) /\ f = Sealed(sealed, input)
  OBVIOUS
<1>3. log' = Append(log, e) /\ sealed' = Append(sealed, f)
  BY <1>2 DEF append
<1>4. /\ n \in Nat /\ IsSeq(log') /\ Len(log') = n + 1
      /\ \A i \in 1 .. n : log'[i] = log[i]
      /\ log'[n + 1] = e
  BY <1>1, <1>2, <1>3, AppendIs
<1>5. /\ IsSeq(sealed') /\ Len(sealed') = n + 1
      /\ \A i \in 1 .. n : sealed'[i] = sealed[i]
      /\ sealed'[n + 1] = f
  BY <1>1, <1>2, <1>3, AppendIs
<1>6. LastHash(log) = HashBefore(log, n + 1) /\ LastHash(sealed) = HashBefore(sealed, n + 1)
  BY <1>1, <1>2, <1>4, LastHashIs
<1>7. LastHash(log) = LastHash(sealed)
  <2>1. CASE n = 0
    BY <1>6, <2>1 DEF HashBefore
  <2>2. CASE n > 0
    <3>1. n + 1 # 1 /\ n + 1 - 1 = n /\ n \in 1 .. Len(log)
      BY <1>2, <1>4, <2>2
    <3> QED
      BY <1>1, <1>6, <3>1 DEF HashBefore, SameButPayload
  <2> QED
    BY <1>4, <2>1, <2>2
<1>8. /\ IsEntry(e) /\ IsEntry(f) /\ f.seq = n + 1 /\ f.prev_hash = LastHash(sealed)
      /\ f.hash = chainHash(LastHash(sealed), contentHash(f, n + 1))
  BY <1>1, <1>2, SealedIs, Zenon
<1>9. e = f
  BY <1>1, <1>2, <1>7 DEF Sealed
<1>10. \A i \in 1 .. n : HashBefore(sealed', i) = HashBefore(sealed, i)
  <2> TAKE i \in 1 .. n
  <2>1. i # 1 => i - 1 \in 1 .. n
    BY <1>4
  <2> QED
    BY <1>5, <2>1 DEF HashBefore
<1>11. HashBefore(sealed', n + 1) = LastHash(sealed)
  <2>1. n + 1 # 1 => n + 1 - 1 = n /\ n \in 1 .. n
    BY <1>4
  <2> QED
    BY <1>5, <1>6, <2>1 DEF HashBefore
<1>12. ASSUME NEW i \in 1 .. n + 1
       PROVE  /\ IsEntry(log'[i]) /\ IsEntry(sealed'[i])
              /\ SameButPayload(log'[i], sealed'[i]) /\ IsLink(sealed', i)
  <2>1. CASE i = n + 1
    <3>1. SameButPayload(e, f)
      BY <1>9 DEF SameButPayload
    <3>2. IsLink(sealed', n + 1)
      BY <1>5, <1>8, <1>11, Zenon DEF IsLink
    <3> QED
      BY <2>1, <3>1, <3>2, <1>4, <1>5, <1>8, Zenon
  <2>2. CASE i \in 1 .. n
    <3>1. i \in 1 .. Len(log)
      BY <2>2, <1>2
    <3>2. log'[i] = log[i] /\ sealed'[i] = sealed[i] /\ HashBefore(sealed', i) = HashBefore(sealed, i)
      BY <2>2, <1>4, <1>5, <1>10
    <3>3. IsLink(sealed', i)
      <4>1. IsLink(sealed, i)
        BY <3>1, <1>1
      <4> QED
        BY <4>1, <3>2, Zenon DEF IsLink
    <3> QED
      BY <3>1, <3>2, <3>3, <1>1, Zenon
  <2> QED
    BY <2>1, <2>2, <1>4
<1> QED
  BY <1>4, <1>5, <1>12 DEF ChainInv

\* A payload altered behind the log's back touches nothing else.
LEMMA TamperKeepsChain ==
    ASSUME ChainInv, NEW k \in DOMAIN log, Tamper(k) PROVE ChainInv'
<1>1. /\ IsSeq(log) /\ IsSeq(sealed) /\ Len(log) = Len(sealed)
      /\ \A i \in 1 .. Len(log) : /\ IsEntry(log[i]) /\ IsEntry(sealed[i])
                                  /\ SameButPayload(log[i], sealed[i]) /\ IsLink(sealed, i)
  BY DEF ChainInv
<1>2. log' = [log EXCEPT ![k].payload = <<"altered">>] /\ sealed' = sealed
  BY DEF Tamper
<1>3. PICK S : log \in Seq(S)
  BY <1>1 DEF IsSeq
<1>4. k \in 1 .. Len(log) /\ DOMAIN log = 1 .. Len(log) /\ Len(log) \in Nat
  BY <1>3
<1>5. PICK e : e = [log[k] EXCEPT !.payload = <<"altered">>]
  OBVIOUS
<1>6. log' = [log EXCEPT ![k] = e]
  BY <1>2, <1>5
<1>7. log' \in Seq(S \cup {e}) /\ Len(log') = Len(log)
  BY <1>3, <1>4, <1>6
<1>8. log'[k] = e /\ \A i \in 1 .. Len(log) : i # k => log'[i] = log[i]
  BY <1>3, <1>4, <1>6
<1>9. IsEntry(log[k]) /\ SameButPayload(log[k], sealed[k])
  BY <1>1, <1>4
<1>10. IsEntry(e) /\ SameButPayload(e, sealed[k])
  BY <1>5, <1>9 DEF IsEntry, SameButPayload
<1>11. \A i \in 1 .. Len(log) : IsEntry(log'[i]) /\ SameButPayload(log'[i], sealed[i])
  BY <1>1, <1>8, <1>10
<1>12. IsSeq(log')
  BY <1>7 DEF IsSeq
<1> QED
  BY <1>1, <1>2, <1>7, <1>11, <1>12 DEF ChainInv

\* The chain invariant is what ChainDetectsTampering needs.
LEMMA ChainInvIsEnough == ChainInv => ChainDetectsTampering
<1> SUFFICES ASSUME ChainInv PROVE ChainDetectsTampering
  OBVIOUS
<1>1. /\ IsSeq(log) /\ IsSeq(sealed) /\ Len(log) = Len(sealed)
      /\ \A i \in 1 .. Len(log) : /\ IsEntry(log[i]) /\ IsEntry(sealed[i])
                                  /\ SameButPayload(log[i], sealed[i]) /\ IsLink(sealed, i)
  BY DEF ChainInv
<1>2. /\ Len(log) \in Nat /\ DOMAIN log = 1 .. Len(log)
      /\ log = [i \in 1 .. Len(log) |-> log[i]] /\ sealed = [i \in 1 .. Len(log) |-> sealed[i]]
  <2>1. PICK S : log \in Seq(S)
    BY <1>1 DEF IsSeq
  <2>2. PICK R : sealed \in Seq(R)
    BY <1>1 DEF IsSeq
  <2> QED
    BY <1>1, <2>1, <2>2
<1>3. \A i \in 1 .. Len(log) : LastHash(SubSeq(log, 1, i - 1)) = HashBefore(log, i)
  <2> TAKE i \in 1 .. Len(log)
  <2>1. i \in 1 .. Len(log) + 1
    BY <1>2
  <2> QED
    BY <1>1, <2>1, LastHashIs
<1>4. ASSUME log = sealed PROVE verifyChain(log)
  <2> SUFFICES ASSUME NEW i \in 1 .. Len(log)
               PROVE  /\ log[i].prev_hash = LastHash(SubSeq(log, 1, i - 1))
                      /\ log[i].hash = chainHash(LastHash(SubSeq(log, 1, i - 1)), contentHash(log[i], log[i].seq))
    BY <1>2, Zenon DEF verifyChain
  <2>1. IsLink(log, i)
    BY <1>1, <1>4, Zenon
  <2> QED
    BY <1>3, <2>1, Zenon DEF IsLink
<1>5. ASSUME verifyChain(log) PROVE log = sealed
  <2>1. ASSUME NEW i \in 1 .. Len(log) PROVE log[i] = sealed[i]
    <3>1. log[i].hash = chainHash(LastHash(SubSeq(log, 1, i - 1)), contentHash(log[i], log[i].seq))
      BY <1>2, <1>5, Zenon DEF verifyChain
    <3>2. sealed[i].hash = chainHash(HashBefore(sealed, i), contentHash(sealed[i], i))
      BY <1>1, Zenon DEF IsLink
    <3>3. SameButPayload(log[i], sealed[i]) /\ IsEntry(log[i]) /\ IsEntry(sealed[i])
      BY <1>1
    <3>4. contentHash(log[i], log[i].seq) = contentHash(sealed[i], i)
      <4>1. PICK a, b, c, d : /\ a = LastHash(SubSeq(log, 1, i - 1)) /\ b = contentHash(log[i], log[i].seq)
                              /\ c = HashBefore(sealed, i) /\ d = contentHash(sealed[i], i)
        OBVIOUS
      <4>2. <<a, b>> = <<c, d>>
        BY <3>1, <3>2, <3>3, <4>1, Zenon DEF chainHash, SameButPayload
      <4>3. b = d
        BY <4>2
      <4> QED
        BY <4>1, <4>3
    <3>5. InputOf(log[i]) = InputOf(sealed[i])
      <4>1. PICK a, b, c : a = InputOf(log[i]) /\ b = InputOf(sealed[i]) /\ c = log[i].seq
        OBVIOUS
      <4>2. <<a, c>> = <<b, i>>
        BY <3>4, <4>1, Zenon DEF contentHash
      <4>3. a = b
        BY <4>2
      <4> QED
        BY <4>1, <4>3
    <3>6. log[i].payload = sealed[i].payload
      BY <3>5 DEF InputOf, Event
    <3> QED
      BY <3>3, <3>6, Zenon DEF IsEntry, SameButPayload
  <2> QED
    BY <1>2, <2>1
<1> QED
  BY <1>4, <1>5 DEF ChainDetectsTampering

\* Only an append and a tampering touch the log.
LEMMA SourceStep ==
    ASSUME [Next]_vars
    PROVE  \/ UNCHANGED source
           \/ \E input \in Inputs : log' = append(log, input) /\ sealed' = append(sealed, input)
           \/ \E k \in DOMAIN log : Tamper(k)
<1>1. ASSUME ByLog PROVE \/ UNCHANGED source
                         \/ \E input \in Inputs : log' = append(log, input) /\ sealed' = append(sealed, input)
                         \/ \E k \in DOMAIN log : Tamper(k)
  <2>1. ASSUME NEW input \in Inputs, AppendEvent(input)
        PROVE  log' = append(log, input) /\ sealed' = append(sealed, input)
    BY <2>1 DEF AppendEvent
  <2>2. ASSUME NEW w \in Windows, CreateSession(w) PROVE UNCHANGED source
    BY <2>2, Zenon DEF CreateSession
  <2>3. ASSUME NEW id \in DOMAIN sessions, Pause(id) \/ Resume(id) \/ (\E toSeq \in 1 .. MaxLog : Seek(id, toSeq))
        PROVE  UNCHANGED source
    <3>1. ASSUME NEW type, NEW after, Control(id, type, after) PROVE UNCHANGED source
      BY <3>1 DEF Control
    <3> QED
      BY <2>3, <3>1, Zenon DEF Pause, Resume, Seek
  <2>4. ASSUME NEW id \in DOMAIN sessions, RunToEnd(id) PROVE UNCHANGED source
    BY <2>4, Zenon DEF RunToEnd
  <2>5. ASSUME OnFailure PROVE UNCHANGED source
    BY <2>5, Zenon DEF OnFailure
  <2> QED
    BY <1>1, <2>1, <2>2, <2>3, <2>4, <2>5, Zenon DEF ByLog
<1>2. ASSUME ByOperator PROVE UNCHANGED source
  BY <1>2 DEF ByOperator, Load, Advance, Transport, Navigate, Quiet
<1>3. UNCHANGED vars => UNCHANGED source
  BY DEF vars
<1> QED
  BY <1>1, <1>2, <1>3, Zenon DEF Next

\* INV-E1 for a log of any length: verifyChain answers true exactly when every
\* entry is what was sealed, whichever entry was altered and however many entries
\* were appended after it.
THEOREM ChainShowsTampering == Spec => []ChainDetectsTampering
<1>1. Init => ChainInv
  <2> SUFFICES ASSUME Init PROVE ChainInv
    OBVIOUS
  <2>1. log = <<>> /\ sealed = <<>>
    BY DEF Init
  <2>2. IsSeq(<<>>)
    <3>1. <<>> \in Seq({})
      OBVIOUS
    <3> QED
      BY <3>1 DEF IsSeq
  <2> QED
    BY <2>1, <2>2 DEF ChainInv
<1>2. ChainInv /\ [Next]_vars => ChainInv'
  <2> SUFFICES ASSUME ChainInv, [Next]_vars PROVE ChainInv'
    OBVIOUS
  <2>1. CASE UNCHANGED source
    <3>1. log' = log /\ sealed' = sealed
      BY <2>1 DEF source
    <3> QED
      BY <3>1, Zenon DEF ChainInv
  <2> QED
    BY <2>1, SourceStep, AppendKeepsChain, TamperKeepsChain
<1>3. Spec => []ChainInv
  BY <1>1, <1>2, PTL DEF Spec
<1> QED
  BY <1>3, ChainInvIsEnough, PTL

-----------------------------------------------------------------------------
(***************************************************************************)
(* Replay.  The rolling hash of a replay is an injective function of the   *)
(* hashes rolled up, and a hash in the log tells its position.  Neither an *)
(* append nor a tampering changes the hashes and correlations of the       *)
(* entries that are there, so that what a finished replay and an incident  *)
(* recorded stays true of the log.                                         *)
(***************************************************************************)
RollsTo(h, hashes, n) ==
    h[0] = <<>> /\ \A k \in 0 .. n - 1 : h[k + 1] = <<h[k], hashes[k + 1]>>

\* The rolling hash passes through the prefixes.
LEMMA RolledSteps ==
    ASSUME NEW p, Len(p) \in Nat PROVE \E h : RollsTo(h, p, Len(p)) /\ h[Len(p)] = rolled(p)
<1> DEFINE n == Len(p)
           E(h, k) == [i \in 0 .. k |-> IF i = 0 THEN <<>> ELSE chainHash(h[i - 1], p[i])]
           T == {k \in Nat : \E h : h = E(h, k)}
<1>1. n \in Nat
  OBVIOUS
<1> HIDE DEF n
<1>2. 0 \in T
  <2>1. [i \in 0 .. 0 |-> <<>>] = E([i \in 0 .. 0 |-> <<>>], 0)
    OBVIOUS
  <2> HIDE DEF E
  <2> QED
    BY <2>1
<1>3. ASSUME NEW k \in Nat, k \in T PROVE k + 1 \in T
  <2>1. PICK g : g = E(g, k)
    <3> HIDE DEF E
    <3> QED
      BY <1>3
  <2> DEFINE h == [i \in 0 .. k + 1 |-> IF i = k + 1 THEN chainHash(g[k], p[k + 1]) ELSE g[i]]
  <2>2. ASSUME NEW i \in 0 .. k + 1 PROVE h[i] = IF i = 0 THEN <<>> ELSE chainHash(h[i - 1], p[i])
    <3>1. CASE i = k + 1
      <4>1. h[i] = chainHash(g[k], p[k + 1]) /\ h[i - 1] = g[k] /\ i # 0
        BY <3>1
      <4> HIDE DEF h
      <4> QED
        BY <4>1, <3>1
    <3>2. CASE i # k + 1 /\ i # 0
      <4>1. i \in 0 .. k /\ i - 1 \in 0 .. k + 1 /\ i - 1 # k + 1
        BY <3>2
      <4>2. h[i] = g[i] /\ h[i - 1] = g[i - 1]
        BY <3>2, <4>1
      <4>3. g[i] = chainHash(g[i - 1], p[i])
        BY <2>1, <3>2, <4>1
      <4> HIDE DEF h
      <4> QED
        BY <4>2, <4>3, <3>2
    <3>3. CASE i = 0
      <4>1. h[i] = g[0] /\ 0 \in 0 .. k
        BY <3>3
      <4>2. g[0] = <<>>
        BY <2>1, <4>1
      <4> HIDE DEF h
      <4> QED
        BY <4>1, <4>2, <3>3
    <3> QED
      BY <3>1, <3>2, <3>3
  <2>3. h = E(h, k + 1)
    <3> DEFINE g2 == E(h, k + 1)
    <3>1. \A i \in 0 .. k + 1 : g2[i] = h[i]
      <4> HIDE DEF h
      <4> QED
        BY <2>2
    <3>2. g2 = [i \in 0 .. k + 1 |-> g2[i]]
      OBVIOUS
    <3>3. h = [i \in 0 .. k + 1 |-> h[i]]
      OBVIOUS
    <3> HIDE DEF h, g2
    <3>4. g2 = h
      BY <3>1, <3>2, <3>3
    <3> QED
      BY <3>4 DEF g2
  <2> HIDE DEF h, E
  <2> QED
    BY <2>3
<1> HIDE DEF T
<1>4. n \in T
  BY <1>1, <1>2, <1>3, SetInduction
<1> DEFINE ch == CHOOSE h : h = E(h, n)
<1>5. ch = E(ch, n)
  <2> HIDE DEF E
  <2> QED
    BY <1>4 DEF T
<1>6. rolled(p) = ch[n]
  BY DEF rolled, n
<1> HIDE DEF ch
<1>7. ch[0] = <<>>
  BY <1>1, <1>5
<1>8. ASSUME NEW k \in 0 .. n - 1 PROVE ch[k + 1] = <<ch[k], p[k + 1]>>
  <2>1. k + 1 \in 0 .. n /\ k + 1 # 0 /\ (k + 1) - 1 = k
    BY <1>1
  <2>2. \A i \in 0 .. n : i # 0 => ch[i] = chainHash(ch[i - 1], p[i])
    BY <1>5
  <2>3. ch[k + 1] = chainHash(ch[(k + 1) - 1], p[k + 1])
    BY <2>1, <2>2
  <2> QED
    BY <2>1, <2>3 DEF chainHash
<1>9. RollsTo(ch, p, n)
  BY <1>7, <1>8 DEF RollsTo
<1> QED
  BY <1>6, <1>9 DEF n

\* Equal rolling hashes come from equal sequences of hashes.
LEMMA RolledInjective ==
    ASSUME NEW p, NEW q, Len(p) \in Nat, Len(q) \in Nat, rolled(p) = rolled(q)
    PROVE  Len(p) = Len(q) /\ \A i \in 1 .. Len(p) : p[i] = q[i]
<1> DEFINE n == Len(p)
           m == Len(q)
<1>1. n \in Nat /\ m \in Nat
  OBVIOUS
<1> HIDE DEF n, m
<1>2. PICK g : RollsTo(g, p, n) /\ g[n] = rolled(p)
  BY RolledSteps DEF n
<1>3. PICK h : RollsTo(h, q, m) /\ h[m] = rolled(q)
  BY RolledSteps DEF m
<1> DEFINE T == {k \in Nat : k <= n => \A j \in 0 .. m : g[k] = h[j] => k = j /\ \A i \in 1 .. k : p[i] = q[i]}
<1>4. 0 \in T
  <2> SUFFICES ASSUME NEW j \in 0 .. m, g[0] = h[j] PROVE 0 = j
    OBVIOUS
  <2>1. CASE j # 0
    <3>1. j - 1 \in 0 .. m - 1 /\ (j - 1) + 1 = j
      BY <1>1, <2>1
    <3>2. h[(j - 1) + 1] = <<h[j - 1], q[(j - 1) + 1]>>
      BY <1>3, <3>1 DEF RollsTo
    <3>3. g[0] = <<>>
      BY <1>2 DEF RollsTo
    <3>4. PICK a, b : a = h[j - 1] /\ b = q[(j - 1) + 1]
      OBVIOUS
    <3>5. <<a, b>> # <<>>
      OBVIOUS
    <3> QED
      BY <3>1, <3>2, <3>3, <3>4, <3>5, Zenon
  <2> QED
    BY <2>1
<1>5. ASSUME NEW k \in Nat, k \in T PROVE k + 1 \in T
  <2> SUFFICES ASSUME k + 1 <= n, NEW j \in 0 .. m, g[k + 1] = h[j]
               PROVE  k + 1 = j /\ \A i \in 1 .. k + 1 : p[i] = q[i]
    OBVIOUS
  <2>1. k \in 0 .. n - 1 /\ k <= n
    BY <1>1
  <2>2. g[k + 1] = <<g[k], p[k + 1]>>
    BY <1>2, <2>1 DEF RollsTo
  <2>3. j # 0
    <3>1. h[0] = <<>>
      BY <1>3 DEF RollsTo
    <3>2. PICK a, b : a = g[k] /\ b = p[k + 1]
      OBVIOUS
    <3>3. <<a, b>> # <<>>
      OBVIOUS
    <3> QED
      BY <2>2, <3>1, <3>2, <3>3, Zenon
  <2>4. PICK l \in 0 .. m - 1 : j = l + 1
    <3>1. j - 1 \in 0 .. m - 1 /\ j = (j - 1) + 1
      BY <1>1, <2>3
    <3> QED
      BY <3>1
  <2>5. h[l + 1] = <<h[l], q[l + 1]>>
    BY <1>3, <2>4 DEF RollsTo
  <2>6. g[k] = h[l] /\ p[k + 1] = q[l + 1]
    <3>1. PICK a, b, c, d : a = g[k] /\ b = p[k + 1] /\ c = h[l] /\ d = q[l + 1]
      OBVIOUS
    <3>2. <<a, b>> = <<c, d>>
      BY <2>2, <2>4, <2>5, <3>1, Zenon
    <3>3. a = c /\ b = d
      BY <3>2
    <3> QED
      BY <3>1, <3>3
  <2>7. l \in 0 .. m
    BY <1>1, <2>4
  <2>8. k = l /\ \A i \in 1 .. k : p[i] = q[i]
    BY <1>5, <2>1, <2>6, <2>7
  <2> QED
    BY <2>4, <2>6, <2>8
<1> HIDE DEF T
<1>6. n \in T
  BY <1>1, <1>4, <1>5, SetInduction
<1>7. n = m /\ \A i \in 1 .. n : p[i] = q[i]
  <2>1. m \in 0 .. m /\ g[n] = h[m] /\ n <= n
    BY <1>1, <1>2, <1>3
  <2> QED
    BY <1>6, <2>1 DEF T
<1> QED
  BY <1>7 DEF n, m

\* The hash of the replay of a slice of the entries l.
HashOf(l, sl) == rolled([k \in DOMAIN sl |-> l[sl[k]].hash])

SessionOk(l, s) ==
    /\ s \in [slice : Seq(1 .. Len(l)), idx : Nat, status : {"running", "paused", "finished"}]
    /\ s.idx <= Len(s.slice)
\* The replay log names sessions there are; an end it records is that of a
\* finished session, with all of its slice.
Recorded(l, ss, rl) ==
    \A k \in 1 .. Len(rl) :
       /\ rl[k].session \in 1 .. Len(ss)
       /\ rl[k].type = "finished" => /\ ss[rl[k].session].status = "finished"
                                     /\ rl[k].applied = Len(ss[rl[k].session].slice)
                                     /\ rl[k].hash = HashOf(l, ss[rl[k].session].slice)
\* A finished session has its end recorded.
Audited(ss, rl) ==
    \A id \in 1 .. Len(ss) : ss[id].status = "finished" =>
       \E k \in 1 .. Len(rl) : rl[k].type = "finished" /\ rl[k].session = id

ReplaysOk(l, ss, rl) ==
    /\ IsSeq(ss) /\ IsSeq(rl) /\ \A id \in 1 .. Len(ss) : SessionOk(l, ss[id])
    /\ Recorded(l, ss, rl) /\ Audited(ss, rl)

\* The log has grown or was tampered with: the stored hashes are the same.
LEMMA ReplaysSurvive ==
    ASSUME NEW l, NEW m, NEW ss, NEW rl, ReplaysOk(l, ss, rl), Len(l) \in Nat, Len(m) \in Nat, Len(l) <= Len(m),
           \A i \in 1 .. Len(l) : m[i].hash = l[i].hash
    PROVE  ReplaysOk(m, ss, rl)
<1>1. \A id \in 1 .. Len(ss) : SessionOk(l, ss[id])
  BY DEF ReplaysOk
<1>2. ASSUME NEW s, SessionOk(l, s) PROVE SessionOk(m, s) /\ HashOf(m, s.slice) = HashOf(l, s.slice)
  <2>1. s \in [slice : Seq(1 .. Len(l)), idx : Nat, status : {"running", "paused", "finished"}] /\ s.idx <= Len(s.slice)
    BY <1>2 DEF SessionOk
  <2>2. PICK t : t = s.slice
    OBVIOUS
  <2>3. t \in Seq(1 .. Len(l))
    BY <2>1, <2>2
  <2>4. DOMAIN t = 1 .. Len(t) /\ \A k \in DOMAIN t : t[k] \in 1 .. Len(l)
    BY <2>3
  <2>5. 1 .. Len(l) \subseteq 1 .. Len(m)
    OBVIOUS
  <2>6. t \in Seq(1 .. Len(m))
    BY <2>3, <2>5
  <2>7. SessionOk(m, s)
    BY <2>1, <2>2, <2>6 DEF SessionOk
  <2>8. [k \in DOMAIN t |-> m[t[k]].hash] = [k \in DOMAIN t |-> l[t[k]].hash]
    BY <2>4
  <2>9. HashOf(m, t) = HashOf(l, t)
    BY <2>8, Zenon DEF HashOf
  <2> QED
    BY <2>2, <2>7, <2>9
<1>3. \A id \in 1 .. Len(ss) : SessionOk(m, ss[id]) /\ HashOf(m, ss[id].slice) = HashOf(l, ss[id].slice)
  BY <1>1, <1>2
<1>4. Recorded(m, ss, rl)
  BY <1>3 DEF ReplaysOk, Recorded
<1> QED
  BY <1>3, <1>4 DEF ReplaysOk

\* A session is created.
LEMMA ReplaysGrow ==
    ASSUME NEW l, NEW ss, NEW rl, ReplaysOk(l, ss, rl), NEW s, SessionOk(l, s), s.status = "running",
           NEW r, r.session = Len(ss) + 1, r.type = "started"
    PROVE  ReplaysOk(l, Append(ss, s), Append(rl, r))
<1>1. PICK tt, ql : tt = Append(ss, s) /\ ql = Append(rl, r)
  OBVIOUS
<1>2. IsSeq(ss) /\ IsSeq(rl)
  BY DEF ReplaysOk
<1>3. /\ Len(ss) \in Nat /\ IsSeq(tt) /\ Len(tt) = Len(ss) + 1 /\ tt[Len(ss) + 1] = s
      /\ \A i \in 1 .. Len(ss) : tt[i] = ss[i]
  BY <1>1, <1>2, AppendIs
<1>4. /\ Len(rl) \in Nat /\ IsSeq(ql) /\ Len(ql) = Len(rl) + 1 /\ ql[Len(rl) + 1] = r
      /\ \A i \in 1 .. Len(rl) : ql[i] = rl[i]
  BY <1>1, <1>2, AppendIs
<1>5. \A id \in 1 .. Len(tt) : SessionOk(l, tt[id])
  BY <1>3 DEF ReplaysOk
<1>6. Recorded(l, tt, ql)
  <2>1. ASSUME NEW k \in 1 .. Len(ql)
        PROVE  /\ ql[k].session \in 1 .. Len(tt)
               /\ ql[k].type = "finished" => /\ tt[ql[k].session].status = "finished"
                                             /\ ql[k].applied = Len(tt[ql[k].session].slice)
                                             /\ ql[k].hash = HashOf(l, tt[ql[k].session].slice)
    <3>1. CASE k = Len(rl) + 1
      BY <1>3, <1>4, <3>1
    <3>2. CASE k # Len(rl) + 1
      <4>1. k \in 1 .. Len(rl) /\ ql[k] = rl[k]
        BY <1>4, <3>2
      <4>2. /\ rl[k].session \in 1 .. Len(ss)
            /\ rl[k].type = "finished" => /\ ss[rl[k].session].status = "finished"
                                          /\ rl[k].applied = Len(ss[rl[k].session].slice)
                                          /\ rl[k].hash = HashOf(l, ss[rl[k].session].slice)
        BY <4>1 DEF ReplaysOk, Recorded
      <4>3. tt[rl[k].session] = ss[rl[k].session] /\ rl[k].session \in 1 .. Len(tt)
        BY <1>3, <4>2
      <4> QED
        BY <4>1, <4>2, <4>3
    <3> QED
      BY <3>1, <3>2
  <2> QED
    BY <2>1 DEF Recorded
<1>7. Audited(tt, ql)
  <2>1. ASSUME NEW id \in 1 .. Len(tt), tt[id].status = "finished"
        PROVE  \E k \in 1 .. Len(ql) : ql[k].type = "finished" /\ ql[k].session = id
    <3>1. id \in 1 .. Len(ss) /\ ss[id].status = "finished"
      BY <1>3, <2>1
    <3>2. PICK k \in 1 .. Len(rl) : rl[k].type = "finished" /\ rl[k].session = id
      BY <3>1 DEF ReplaysOk, Audited
    <3>3. k \in 1 .. Len(ql)
      BY <1>4
    <3> QED
      BY <1>4, <3>2, <3>3
  <2> QED
    BY <2>1 DEF Audited
<1> QED
  BY <1>1, <1>3, <1>4, <1>5, <1>6, <1>7 DEF ReplaysOk

\* A session is moved about or run to its end, and the replay log told.
LEMMA ReplaysChange ==
    ASSUME NEW l, NEW ss, NEW rl, ReplaysOk(l, ss, rl), NEW id \in 1 .. Len(ss),
           NEW s, SessionOk(l, s), s.slice = ss[id].slice,
           NEW r, r.session = id,
           ss[id].status = "finished" => s.status = "finished",
           s.status = "finished" => ss[id].status = "finished" \/ r.type = "finished",
           r.type = "finished" => s.status = "finished" /\ r.applied = Len(s.slice) /\ r.hash = HashOf(l, s.slice)
    PROVE  ReplaysOk(l, [ss EXCEPT ![id] = s], Append(rl, r))
<1>1. PICK tt, ql : tt = [ss EXCEPT ![id] = s] /\ ql = Append(rl, r)
  OBVIOUS
<1>2. IsSeq(ss) /\ IsSeq(rl)
  BY DEF ReplaysOk
<1>3. /\ Len(ss) \in Nat /\ IsSeq(tt) /\ Len(tt) = Len(ss) /\ tt[id] = s
      /\ \A i \in 1 .. Len(ss) : i # id => tt[i] = ss[i]
  <2>1. PICK S : ss \in Seq(S)
    BY <1>2 DEF IsSeq
  <2>2. tt \in Seq(S \cup {s})
    BY <1>1, <2>1
  <2> QED
    BY <1>1, <2>1, <2>2 DEF IsSeq
<1>4. /\ Len(rl) \in Nat /\ IsSeq(ql) /\ Len(ql) = Len(rl) + 1 /\ ql[Len(rl) + 1] = r
      /\ \A i \in 1 .. Len(rl) : ql[i] = rl[i]
  BY <1>1, <1>2, AppendIs
<1>5. \A i \in 1 .. Len(tt) : SessionOk(l, tt[i])
  BY <1>3 DEF ReplaysOk
<1>6. Recorded(l, tt, ql)
  <2>1. ASSUME NEW k \in 1 .. Len(ql)
        PROVE  /\ ql[k].session \in 1 .. Len(tt)
               /\ ql[k].type = "finished" => /\ tt[ql[k].session].status = "finished"
                                             /\ ql[k].applied = Len(tt[ql[k].session].slice)
                                             /\ ql[k].hash = HashOf(l, tt[ql[k].session].slice)
    <3>1. CASE k = Len(rl) + 1
      BY <1>3, <1>4, <3>1
    <3>2. CASE k # Len(rl) + 1
      <4>1. k \in 1 .. Len(rl) /\ ql[k] = rl[k]
        BY <1>4, <3>2
      <4>2. /\ rl[k].session \in 1 .. Len(ss)
            /\ rl[k].type = "finished" => /\ ss[rl[k].session].status = "finished"
                                          /\ rl[k].applied = Len(ss[rl[k].session].slice)
                                          /\ rl[k].hash = HashOf(l, ss[rl[k].session].slice)
        BY <4>1 DEF ReplaysOk, Recorded
      <4>3. CASE rl[k].session = id
        BY <1>3, <4>1, <4>2, <4>3
      <4>4. CASE rl[k].session # id
        <5>1. tt[rl[k].session] = ss[rl[k].session] /\ rl[k].session \in 1 .. Len(tt)
          BY <1>3, <4>2, <4>4
        <5> QED
          BY <4>1, <4>2, <5>1
      <4> QED
        BY <4>3, <4>4
    <3> QED
      BY <3>1, <3>2
  <2> QED
    BY <2>1 DEF Recorded
<1>7. Audited(tt, ql)
  <2>1. ASSUME NEW i \in 1 .. Len(tt), tt[i].status = "finished"
        PROVE  \E k \in 1 .. Len(ql) : ql[k].type = "finished" /\ ql[k].session = i
    <3>0. Len(rl) + 1 \in 1 .. Len(ql)
      BY <1>4
    <3>1. CASE i = id /\ r.type = "finished"
      BY <1>4, <3>0, <3>1
    <3>2. CASE ~(i = id /\ r.type = "finished")
      <4>1. i \in 1 .. Len(ss) /\ ss[i].status = "finished"
        BY <1>3, <2>1, <3>2
      <4>2. PICK k \in 1 .. Len(rl) : rl[k].type = "finished" /\ rl[k].session = i
        BY <4>1 DEF ReplaysOk, Audited
      <4>3. k \in 1 .. Len(ql)
        BY <1>4
      <4> QED
        BY <1>4, <4>2, <4>3
    <3> QED
      BY <3>1, <3>2
  <2> QED
    BY <2>1 DEF Audited
<1> QED
  BY <1>1, <1>3, <1>4, <1>5, <1>6, <1>7 DEF ReplaysOk

ReplayInv == ReplaysOk(log, sessions, replayLog)
TimesInv == Len(log) <= MaxLog /\ \A i \in 1 .. Len(log) : log[i].event_time <= 2
IncidentInv ==
    /\ IsSeq(incidents)
    /\ \A k \in 1 .. Len(incidents) :
          incidents[k].known \in 0 .. Len(log) /\ incidents[k].decisions = Correlations(SubSeq(log, 1, incidents[k].known))

\* The cycles in a log.
LEMMA CorrelationsAre ==
    ASSUME NEW S, NEW l \in Seq(S), NEW n \in 0 .. Len(l)
    PROVE  Correlations(SubSeq(l, 1, n)) = {l[i].correlation_id : i \in 1 .. n}
<1>1. PICK s : s = SubSeq(l, 1, n)
  OBVIOUS
<1>2. DOMAIN s = 1 .. n /\ \A i \in 1 .. n : s[i] = l[i]
  BY <1>1
<1>3. ToSet(s) = {s[i] : i \in 1 .. n}
  BY <1>2 DEF ToSet
<1>4. Correlations(s) = {e.correlation_id : e \in {s[i] : i \in 1 .. n}}
  BY <1>3 DEF Correlations
<1>5. {e.correlation_id : e \in {s[i] : i \in 1 .. n}} = {l[i].correlation_id : i \in 1 .. n}
  BY <1>2
<1> QED
  BY <1>1, <1>4, <1>5

\* Whatever happens to the log, what is in it keeps its hashes, correlations
\* and times.
LEMMA LogStep ==
    ASSUME ChainInv, TimesInv,
           \/ \E input \in Inputs : AppendEvent(input)
           \/ \E k \in DOMAIN log : Tamper(k)
    PROVE  /\ Len(log) \in Nat /\ Len(log') \in Nat /\ Len(log) <= Len(log') /\ Len(log') <= MaxLog /\ IsSeq(log')
           /\ \A i \in 1 .. Len(log) : /\ log'[i].hash = log[i].hash /\ log'[i].correlation_id = log[i].correlation_id
                                       /\ log'[i].event_time = log[i].event_time
           /\ \A i \in 1 .. Len(log') : log'[i].event_time <= 2
<1>0. /\ IsSeq(log) /\ Len(log) \in Nat /\ DOMAIN log = 1 .. Len(log) /\ MaxLog \in Nat
      /\ \A i \in 1 .. Len(log) : IsEntry(log[i]) /\ log[i].event_time <= 2
  <2>1. IsSeq(log)
    BY DEF ChainInv
  <2>2. PICK S : log \in Seq(S)
    BY <2>1 DEF IsSeq
  <2> QED
    BY <2>1, <2>2, EventLogAssumption DEF ChainInv, TimesInv
<1>1. ASSUME NEW input \in Inputs, AppendEvent(input)
      PROVE  /\ Len(log) \in Nat /\ Len(log') \in Nat /\ Len(log) <= Len(log') /\ Len(log') <= MaxLog /\ IsSeq(log')
             /\ \A i \in 1 .. Len(log) : log'[i] = log[i]
             /\ \A i \in 1 .. Len(log') : log'[i].event_time <= 2
  <2>1. PICK e : e = Sealed(log, input)
    OBVIOUS
  <2>2. log' = Append(log, e) /\ Len(log) < MaxLog
    BY <1>1, <2>1 DEF AppendEvent, append
  <2>3. /\ IsSeq(log') /\ Len(log') = Len(log) + 1 /\ log'[Len(log) + 1] = e
        /\ \A i \in 1 .. Len(log) : log'[i] = log[i]
    BY <1>0, <2>2, AppendIs
  <2>4. e.event_time = input.event_time
    BY <2>1 DEF Sealed
  <2>5. input.event_time <= 2
    <3>1. \/ input = Event("MarketData.trade", "c2", "", 1, 2, <<"t">>)
          \/ input = Event("Decision.outcome", "c1", "s1", 2, 1, <<"buy">>)
          \/ input = Event("Decision.outcome", "c2", "", 2, 1, <<"sell">>)
      BY Zenon DEF Inputs
    <3>2. input.event_time = 1 \/ input.event_time = 2
      <4>1. CASE input = Event("MarketData.trade", "c2", "", 1, 2, <<"t">>)
        <5>1. Event("MarketData.trade", "c2", "", 1, 2, <<"t">>).event_time = 1
          BY DEF Event
        <5> QED
          BY <4>1, <5>1, Zenon
      <4>2. CASE input = Event("Decision.outcome", "c1", "s1", 2, 1, <<"buy">>)
        <5>1. Event("Decision.outcome", "c1", "s1", 2, 1, <<"buy">>).event_time = 2
          BY DEF Event
        <5> QED
          BY <4>2, <5>1, Zenon
      <4>3. CASE input = Event("Decision.outcome", "c2", "", 2, 1, <<"sell">>)
        <5>1. Event("Decision.outcome", "c2", "", 2, 1, <<"sell">>).event_time = 2
          BY DEF Event
        <5> QED
          BY <4>3, <5>1, Zenon
      <4> QED
        BY <3>1, <4>1, <4>2, <4>3
    <3> QED
      BY <3>2
  <2>6. ASSUME NEW i \in 1 .. Len(log') PROVE log'[i].event_time <= 2
    <3>1. i = Len(log) + 1 \/ i \in 1 .. Len(log)
      BY <1>0, <2>3
    <3>2. CASE i = Len(log) + 1
      <4>1. log'[i] = e
        BY <2>3, <3>2
      <4> QED
        BY <2>4, <2>5, <4>1
    <3>3. CASE i \in 1 .. Len(log)
      BY <1>0, <2>3, <3>3
    <3> QED
      BY <3>1, <3>2, <3>3
  <2> QED
    BY <1>0, <2>2, <2>3, <2>6
<1>2. ASSUME NEW k \in DOMAIN log, Tamper(k)
      PROVE  /\ Len(log) \in Nat /\ Len(log') = Len(log) /\ Len(log') <= MaxLog /\ IsSeq(log')
             /\ \A i \in 1 .. Len(log) : /\ log'[i].hash = log[i].hash /\ log'[i].correlation_id = log[i].correlation_id
                                         /\ log'[i].event_time = log[i].event_time
  <2>1. PICK e : e = [log[k] EXCEPT !.payload = <<"altered">>]
    OBVIOUS
  <2>2. log' = [log EXCEPT ![k] = e]
    BY <1>2, <2>1 DEF Tamper
  <2>3. PICK S : log \in Seq(S)
    BY <1>0 DEF IsSeq
  <2>4. log' \in Seq(S \cup {e}) /\ Len(log') = Len(log)
    BY <2>2, <2>3
  <2>5. log'[k] = e /\ \A i \in 1 .. Len(log) : i # k => log'[i] = log[i]
    BY <2>2, <2>3
  <2>6. e.hash = log[k].hash /\ e.correlation_id = log[k].correlation_id /\ e.event_time = log[k].event_time
    BY <1>0, <2>1 DEF IsEntry
  <2>7. IsSeq(log') /\ Len(log') <= MaxLog
    BY <2>4 DEF IsSeq, TimesInv
  <2> QED
    BY <1>0, <2>4, <2>5, <2>6, <2>7
<1>3. CASE \E input \in Inputs : AppendEvent(input)
  BY <1>1, <1>3
<1>4. CASE \E k \in DOMAIN log : Tamper(k)
  <2>1. PICK k \in DOMAIN log : Tamper(k)
    BY <1>4
  <2>2. /\ Len(log) \in Nat /\ Len(log') = Len(log) /\ Len(log') <= MaxLog /\ IsSeq(log')
        /\ \A i \in 1 .. Len(log) : /\ log'[i].hash = log[i].hash /\ log'[i].correlation_id = log[i].correlation_id
                                    /\ log'[i].event_time = log[i].event_time
    BY <1>2, <2>1
  <2>3. \A i \in 1 .. Len(log') : log'[i].event_time <= 2
    BY <1>0, <2>2
  <2> QED
    BY <2>2, <2>3
<1> QED
  BY <1>3, <1>4

\* A slice holds positions of the log; the slice of the whole log, up to now,
\* holds each of them.
LEMMA SliceIs ==
    ASSUME IsSeq(log), NEW w
    PROVE  /\ slice(w) \in Seq(1 .. Len(log))
           /\ (\A i \in 1 .. Len(log) : log[i].event_time <= w.asOf /\ i >= w.from /\ i <= w.to) =>
                 slice(w) = [i \in 1 .. Len(log) |-> i]
<1>1. Len(log) \in Nat /\ DOMAIN log = 1 .. Len(log)
  <2>1. PICK S : log \in Seq(S)
    BY DEF IsSeq
  <2> QED
    BY <2>1
<1>2. PICK s, keep, n : /\ s = [i \in DOMAIN log |-> i] /\ n = Len(log)
                        /\ keep = {i \in DOMAIN log : log[i].event_time <= w.asOf /\ i >= w.from /\ i <= w.to}
  OBVIOUS
<1>3. slice(w) = Filter(s, keep)
  BY <1>2, Zenon DEF slice
<1>4. s \in Seq(1 .. n) /\ Len(s) = n /\ \A i \in 1 .. n : s[i] = i
  BY <1>1, <1>2
<1>5. Filter(s, keep) \in Seq(1 .. n)
  BY <1>4, FilterType
<1>6. (\A i \in 1 .. Len(s) : s[i] \in keep) => Filter(s, keep) = s
  BY <1>4, FilterKeeps
<1> QED
  BY <1>1, <1>2, <1>3, <1>4, <1>5, <1>6

\* The hashes of foldHash are those of HashOf.
LEMMA FoldHashIs == \A t : foldHash(t) = HashOf(log, t)
  BY Zenon DEF foldHash, hashesOf, HashOf

\* A new session stands before the start of a slice of the log.
LEMMA NewSessionOk ==
    ASSUME IsSeq(log), NEW w
    PROVE  LET s == [slice |-> slice(w), idx |-> 0, status |-> "running"]
           IN SessionOk(log, s) /\ s.status = "running" /\ s.slice = slice(w)
<1>1. PICK t : t = slice(w)
  OBVIOUS
<1>2. t \in Seq(1 .. Len(log)) /\ Len(t) \in Nat
  BY <1>1, SliceIs
<1>3. SessionOk(log, [slice |-> t, idx |-> 0, status |-> "running"])
  BY <1>2 DEF SessionOk
<1> QED
  BY <1>1, <1>3

\* A session run to its end has applied its whole slice.
LEMMA FinishedIs ==
    ASSUME NEW s, SessionOk(log, s), NEW id
    PROVE  /\ SessionOk(log, Finished(s)) /\ Finished(s).slice = s.slice /\ Finished(s).status = "finished"
           /\ Finished(s).idx = Len(s.slice)
           /\ FinishedEvent(Finished(s), id).session = id /\ FinishedEvent(Finished(s), id).type = "finished"
           /\ FinishedEvent(Finished(s), id).applied = Len(s.slice)
           /\ FinishedEvent(Finished(s), id).hash = HashOf(log, s.slice)
<1>1. s \in [slice : Seq(1 .. Len(log)), idx : Nat, status : {"running", "paused", "finished"}]
  BY DEF SessionOk
<1>2. PICK t, f : t = s.slice /\ f = Finished(s)
  OBVIOUS
<1>3. t \in Seq(1 .. Len(log)) /\ Len(t) \in Nat
  BY <1>1, <1>2
<1>4. /\ f \in [slice : Seq(1 .. Len(log)), idx : Nat, status : {"running", "paused", "finished"}]
      /\ f.slice = t /\ f.status = "finished" /\ f.idx = Len(t)
  BY <1>1, <1>2, <1>3 DEF Finished
<1>5. SessionOk(log, f)
  BY <1>3, <1>4 DEF SessionOk
<1>6. SubSeq(t, 1, Len(t)) = t
  BY <1>3
<1>7. stateHash(f) = HashOf(log, t)
  BY <1>4, <1>6, FoldHashIs, Zenon DEF stateHash, AppliedBy
<1>8. Len(appliedEvents(f)) = Len(t)
  <2>1. appliedEvents(f) = [k \in 1 .. Len(t) |-> log[f.slice[k]]]
    BY <1>4 DEF appliedEvents
  <2> QED
    BY <1>3, <2>1
<1> QED
  BY <1>2, <1>4, <1>5, <1>7, <1>8 DEF FinishedEvent

\* Pausing, resuming and seeking keep the slice, and neither start nor undo an end.
LEMMA MovedIs ==
    ASSUME NEW s, SessionOk(log, s), NEW toSeq, NEW s2, s2 \in {Paused(s), Resumed(s), Sought(s, toSeq)}
    PROVE  SessionOk(log, s2) /\ s2.slice = s.slice /\ (s2.status = "finished" <=> s.status = "finished")
<1>1. s \in [slice : Seq(1 .. Len(log)), idx : Nat, status : {"running", "paused", "finished"}] /\ s.idx <= Len(s.slice)
  BY DEF SessionOk
<1>2. CASE s2 = Paused(s)
  BY <1>1, <1>2 DEF Paused, SessionOk
<1>3. CASE s2 = Resumed(s)
  BY <1>1, <1>3 DEF Resumed, SessionOk
<1>4. CASE s2 = Sought(s, toSeq)
  <2>1. PICK t, n : t = s.slice /\ n = IF toSeq \in ToSet(t) THEN CHOOSE k \in DOMAIN t : t[k] = toSeq ELSE 0
    OBVIOUS
  <2>2. t \in Seq(1 .. Len(log)) /\ DOMAIN t = 1 .. Len(t) /\ Len(t) \in Nat
    BY <1>1, <2>1
  <2>3. n \in 0 .. Len(t)
    <3>1. CASE toSeq \in ToSet(t)
      <4>1. \E k \in DOMAIN t : t[k] = toSeq
        BY <3>1 DEF ToSet
      <4>2. n \in DOMAIN t
        BY <2>1, <3>1, <4>1
      <4> QED
        BY <2>2, <4>2
    <3>2. CASE toSeq \notin ToSet(t)
      BY <2>1, <2>2, <3>2
    <3> QED
      BY <3>1, <3>2
  <2>4. s2 = [s EXCEPT !.idx = n]
    BY <1>4, <2>1, Zenon DEF Sought
  <2>5. s2 \in [slice : Seq(1 .. Len(log)), idx : Nat, status : {"running", "paused", "finished"}]
        /\ s2.slice = t /\ s2.idx = n /\ s2.status = s.status
    <3>1. n \in Nat
      BY <2>2, <2>3
    <3>2. t = s.slice
      BY <2>1
    <3> QED
      BY <1>1, <3>1, <3>2, <2>4
  <2>6. s2.idx <= Len(s2.slice)
    <3>1. n <= Len(t)
      BY <2>2, <2>3
    <3> QED
      BY <2>5, <3>1, Zenon
  <2>7. t = s.slice
    BY <2>1
  <2> QED
    BY <2>5, <2>6, <2>7 DEF SessionOk
<1> QED
  BY <1>2, <1>3, <1>4

\* The replay log stays true of the sessions, and the sessions of the log.
LEMMA ReplayKeeps ==
    ASSUME ChainInv, TimesInv, ReplayInv, ByLog PROVE ReplayInv'
<1>0. /\ IsSeq(log) /\ IsSeq(sessions) /\ DOMAIN sessions = 1 .. Len(sessions) /\ Len(sessions) \in Nat
      /\ \A id \in 1 .. Len(sessions) : SessionOk(log, sessions[id])
  <2>1. IsSeq(log) /\ IsSeq(sessions) /\ \A id \in 1 .. Len(sessions) : SessionOk(log, sessions[id])
    BY DEF ChainInv, ReplayInv, ReplaysOk
  <2> QED
    BY <2>1, AppendIs
<1>a. PICK l, ss, rl : l = log /\ ss = sessions /\ rl = replayLog
  OBVIOUS
<1>b. ReplaysOk(l, ss, rl)
  BY <1>a DEF ReplayInv
<1>1. ASSUME \/ \E input \in Inputs : AppendEvent(input)
             \/ \E k \in DOMAIN log : Tamper(k)
      PROVE  ReplayInv'
  <2>1. UNCHANGED replay
    BY <1>1 DEF AppendEvent, Tamper
  <2>2. PICK m : m = log'
    OBVIOUS
  <2>3. Len(l) \in Nat /\ Len(m) \in Nat /\ Len(l) <= Len(m) /\ \A i \in 1 .. Len(l) : m[i].hash = l[i].hash
    BY <1>1, <1>a, <2>2, LogStep
  <2>4. ReplaysOk(m, ss, rl)
    BY <1>b, <2>3, ReplaysSurvive
  <2> QED
    BY <1>a, <2>1, <2>2, <2>4 DEF ReplayInv, replay
<1>2. ASSUME NEW w \in Windows, CreateSession(w) PROVE ReplayInv'
  <2>1. PICK s, r : s = [slice |-> slice(w), idx |-> 0, status |-> "running"] /\ r = ReplayEvent("started", Len(sessions) + 1)
    OBVIOUS
  <2>2. sessions' = Append(ss, s) /\ replayLog' = Append(rl, r) /\ log' = l
    BY <1>2, <1>a, <2>1 DEF CreateSession, source
  <2>3. SessionOk(l, s) /\ s.status = "running"
    BY <1>0, <1>a, <2>1, NewSessionOk
  <2>4. r.session = Len(ss) + 1 /\ r.type = "started"
    BY <1>a, <2>1 DEF ReplayEvent
  <2>5. ReplaysOk(l, Append(ss, s), Append(rl, r))
    BY <1>b, <2>3, <2>4, ReplaysGrow
  <2> QED
    BY <2>2, <2>5, Zenon DEF ReplayInv
<1>3. ASSUME NEW id \in DOMAIN sessions, NEW type \in {"paused", "resumed", "seeked"}, NEW toSeq,
             NEW after, after \in {Paused(sessions[id]), Resumed(sessions[id]), Sought(sessions[id], toSeq)},
             Control(id, type, after)
      PROVE  ReplayInv'
  <2>1. PICK s, r : s = after /\ r = ReplayEvent(type, id)
    OBVIOUS
  <2>2. sessions' = [ss EXCEPT ![id] = s] /\ replayLog' = Append(rl, r) /\ log' = l
    BY <1>3, <1>a, <2>1 DEF Control, source
  <2>3. id \in 1 .. Len(ss) /\ SessionOk(log, sessions[id])
    BY <1>0, <1>a
  <2>4. SessionOk(l, s) /\ s.slice = ss[id].slice /\ (s.status = "finished" <=> ss[id].status = "finished")
    BY <1>3, <1>a, <2>1, <2>3, MovedIs
  <2>5. r.session = id /\ r.type # "finished"
    BY <2>1 DEF ReplayEvent
  <2>6. ReplaysOk(l, [ss EXCEPT ![id] = s], Append(rl, r))
    BY <1>b, <2>3, <2>4, <2>5, ReplaysChange
  <2> QED
    BY <2>2, <2>6, Zenon DEF ReplayInv
<1>4. ASSUME NEW id \in DOMAIN sessions, RunToEnd(id) PROVE ReplayInv'
  <2>1. PICK s, r : s = Finished(ss[id]) /\ r = FinishedEvent(Finished(ss[id]), id)
    OBVIOUS
  <2>2. sessions' = [ss EXCEPT ![id] = s] /\ replayLog' = Append(rl, r) /\ log' = l
    BY <1>4, <1>a, <2>1 DEF RunToEnd, source
  <2>3. id \in 1 .. Len(ss) /\ SessionOk(log, ss[id])
    BY <1>0, <1>a
  <2>4. /\ SessionOk(l, s) /\ s.slice = ss[id].slice /\ s.status = "finished"
        /\ r.session = id /\ r.type = "finished" /\ r.applied = Len(s.slice) /\ r.hash = HashOf(l, s.slice)
    BY <1>a, <2>1, <2>3, FinishedIs
  <2>5. ReplaysOk(l, [ss EXCEPT ![id] = s], Append(rl, r))
    BY <1>b, <2>3, <2>4, ReplaysChange
  <2> QED
    BY <2>2, <2>5, Zenon DEF ReplayInv
<1>5. ASSUME OnFailure PROVE ReplayInv'
  <2>1. PICK w, n, s0, s, a, b : /\ w = [asOf |-> 2, from |-> 1, to |-> MaxLog] /\ n = Len(sessions) + 1
                                 /\ s0 = [slice |-> slice(w), idx |-> 0, status |-> "running"] /\ s = Finished(s0)
                                 /\ a = ReplayEvent("started", n) /\ b = FinishedEvent(s, n)
    OBVIOUS
  <2>2. sessions' = Append(ss, s) /\ replayLog' = rl \o <<a, b>> /\ log' = l
    BY <1>5, <1>a, <2>1, Zenon DEF OnFailure, source
  <2>3. SessionOk(l, s0) /\ s0.status = "running"
    BY <1>0, <1>a, <2>1, NewSessionOk
  <2>4. a.session = Len(ss) + 1 /\ a.type = "started"
    BY <1>a, <2>1 DEF ReplayEvent
  <2>5. PICK tt, ql : tt = Append(ss, s0) /\ ql = Append(rl, a)
    OBVIOUS
  <2>6. ReplaysOk(l, tt, ql)
    BY <1>b, <2>3, <2>4, <2>5, ReplaysGrow
  <2>7. n \in 1 .. Len(tt) /\ tt[n] = s0 /\ [tt EXCEPT ![n] = s] = Append(ss, s)
    <3>1. PICK S : ss \in Seq(S)
      BY <1>0, <1>a DEF IsSeq
    <3> DEFINE R == S \cup {s0, s}
    <3>2. ss \in Seq(R) /\ s0 \in R /\ s \in R /\ n = Len(ss) + 1
      BY <1>a, <2>1, <3>1
    <3> HIDE DEF R
    <3>3. PICK u, v : u = [tt EXCEPT ![n] = s] /\ v = Append(ss, s)
      OBVIOUS
    <3>4. tt \in Seq(R) /\ Len(tt) = n /\ n \in 1 .. Len(tt) /\ tt[n] = s0 /\ \A i \in 1 .. Len(ss) : tt[i] = ss[i]
      BY <2>5, <3>2
    <3>5. u \in Seq(R) /\ Len(u) = n /\ u[n] = s /\ \A i \in 1 .. Len(ss) : u[i] = ss[i]
      BY <3>2, <3>3, <3>4
    <3>6. v \in Seq(R) /\ Len(v) = n /\ v[n] = s /\ \A i \in 1 .. Len(ss) : v[i] = ss[i]
      BY <3>2, <3>3
    <3>7. \A i \in 1 .. n : u[i] = v[i]
      BY <3>2, <3>5, <3>6
    <3>8. u = v
      BY <3>5, <3>6, <3>7
    <3> QED
      BY <3>3, <3>4, <3>8
  <2>8. Append(ql, b) = rl \o <<a, b>>
    <3>1. PICK R : rl \in Seq(R)
      BY <1>b DEF ReplaysOk, IsSeq
    <3>2. rl \in Seq(R \cup {a, b})
      BY <3>1
    <3> QED
      BY <2>5, <3>2
  <2>9. /\ SessionOk(l, s) /\ s.slice = tt[n].slice /\ s.status = "finished"
        /\ b.session = n /\ b.type = "finished" /\ b.applied = Len(s.slice) /\ b.hash = HashOf(l, s.slice)
    BY <1>a, <2>1, <2>3, <2>7, FinishedIs
  <2>10. ReplaysOk(l, [tt EXCEPT ![n] = s], Append(ql, b))
    BY <2>6, <2>7, <2>9, ReplaysChange
  <2> QED
    BY <2>2, <2>7, <2>8, <2>10, Zenon DEF ReplayInv
<1>6. ASSUME NEW id \in DOMAIN sessions, Pause(id) \/ Resume(id) \/ (\E toSeq \in 1 .. MaxLog : Seek(id, toSeq))
      PROVE  ReplayInv'
  <2>1. CASE Pause(id)
    BY <1>3, <2>1 DEF Pause
  <2>2. CASE Resume(id)
    BY <1>3, <2>2 DEF Resume
  <2>3. CASE \E toSeq \in 1 .. MaxLog : Seek(id, toSeq)
    BY <1>3, <2>3 DEF Seek
  <2> QED
    BY <1>6, <2>1, <2>2, <2>3
<1> QED
  BY <1>1, <1>2, <1>4, <1>5, <1>6 DEF ByLog

\* The decision records of a log are of its cycles, one for each.
LEMMA DecisionsAreOfCycles ==
    ASSUME NEW S, NEW l \in Seq(S)
    PROVE  {d.decision_id : d \in decisionRecords(l)} = {l[i].correlation_id : i \in 1 .. Len(l)}
<1>1. Correlations(l) = {l[i].correlation_id : i \in 1 .. Len(l)}
  <2>1. SubSeq(l, 1, Len(l)) = l /\ Len(l) \in 0 .. Len(l)
    OBVIOUS
  <2> QED
    BY <2>1, CorrelationsAre
<1>2. ASSUME NEW c \in Correlations(l) PROVE projectDecision(byCorrelation(l, c)).decision_id = c
  <2>1. PICK keep, f : keep = {e \in ToSet(l) : e.correlation_id = c} /\ f = byCorrelation(l, c)
    OBVIOUS
  <2>2. f = Filter(l, keep)
    BY <2>1, Zenon DEF byCorrelation
  <2>3. PICK i \in 1 .. Len(l) : l[i].correlation_id = c
    BY <1>1, <1>2
  <2>4. l[i] \in keep
    BY <2>1, <2>3 DEF ToSet
  <2>5. /\ \A j \in 1 .. Len(f) : \E k \in 1 .. Len(l) : f[j] = l[k] /\ l[k] \in keep
        /\ \E j \in 1 .. Len(f) : f[j] = l[i]
    BY <2>2, <2>4, FilterKeeps
  <2>6. f \in Seq(S)
    BY <2>2, FilterType
  <2>7. 1 \in 1 .. Len(f)
    BY <2>5, <2>6
  <2>8. f[1].correlation_id = c
    BY <2>1, <2>5, <2>7
  <2>9. projectDecision(f).decision_id = f[1].correlation_id
    BY DEF projectDecision
  <2> QED
    BY <2>1, <2>8, <2>9
<1>3. {d.decision_id : d \in decisionRecords(l)} = {projectDecision(byCorrelation(l, c)).decision_id : c \in Correlations(l)}
  <2> HIDE DEF projectDecision, byCorrelation, Correlations
  <2> QED
    BY DEF decisionRecords
<1>4. {projectDecision(byCorrelation(l, c)).decision_id : c \in Correlations(l)} = Correlations(l)
  <2> HIDE DEF projectDecision, byCorrelation, Correlations
  <2> QED
    BY <1>2
<1> QED
  BY <1>1, <1>3, <1>4

\* Incident reports are about the entries there were.
LEMMA IncidentsKeep ==
    ASSUME ChainInv, TimesInv, IncidentInv, ByLog PROVE IncidentInv'
<1>0. /\ IsSeq(log) /\ Len(log) \in Nat /\ IsSeq(incidents)
      /\ \A k \in 1 .. Len(incidents) :
            incidents[k].known \in 0 .. Len(log) /\ incidents[k].decisions = Correlations(SubSeq(log, 1, incidents[k].known))
  <2>1. IsSeq(log)
    BY DEF ChainInv
  <2> QED
    BY <2>1, AppendIs DEF IncidentInv
<1>1. PICK S : log \in Seq(S)
  BY <1>0 DEF IsSeq
<1>2. CASE UNCHANGED <<log, incidents>>
  BY <1>2, Zenon DEF IncidentInv
<1>3. ASSUME \/ \E input \in Inputs : AppendEvent(input)
             \/ \E k \in DOMAIN log : Tamper(k)
      PROVE  IncidentInv'
  <2>1. incidents' = incidents
    BY <1>3 DEF AppendEvent, Tamper, replay
  <2>2. /\ Len(log') \in Nat /\ Len(log) <= Len(log') /\ IsSeq(log')
        /\ \A i \in 1 .. Len(log) : log'[i].correlation_id = log[i].correlation_id
    BY <1>3, LogStep
  <2>3. PICK R, l, m : m = log' /\ m \in Seq(R) /\ l = log
    BY <2>2 DEF IsSeq
  <2>4. ASSUME NEW n \in 0 .. Len(l) PROVE n \in 0 .. Len(m) /\ Correlations(SubSeq(m, 1, n)) = Correlations(SubSeq(l, 1, n))
    <3>1. n \in 0 .. Len(m) /\ l \in Seq(S)
      BY <1>0, <1>1, <2>2, <2>3
    <3>2. /\ Correlations(SubSeq(m, 1, n)) = {m[i].correlation_id : i \in 1 .. n}
          /\ Correlations(SubSeq(l, 1, n)) = {l[i].correlation_id : i \in 1 .. n}
      BY <2>3, <3>1, CorrelationsAre
    <3>3. \A i \in 1 .. n : m[i].correlation_id = l[i].correlation_id
      BY <1>0, <2>2, <2>3
    <3> QED
      <4>1. {m[i].correlation_id : i \in 1 .. n} = {l[i].correlation_id : i \in 1 .. n}
        BY <3>3
      <4> QED
        BY <3>1, <3>2, <4>1, Zenon
  <2>5. \A k \in 1 .. Len(incidents) :
           incidents[k].known \in 0 .. Len(m) /\ incidents[k].decisions = Correlations(SubSeq(m, 1, incidents[k].known))
    BY <1>0, <2>3, <2>4
  <2> QED
    BY <1>0, <2>1, <2>3, <2>5, Zenon DEF IncidentInv
<1>4. ASSUME OnFailure PROVE IncidentInv'
  <2>1. PICK w, n, s0, s, r, l : /\ w = [asOf |-> 2, from |-> 1, to |-> MaxLog] /\ n = Len(sessions) + 1
                                 /\ s0 = [slice |-> slice(w), idx |-> 0, status |-> "running"] /\ s = Finished(s0)
                                 /\ r = Incident(s, n) /\ l = log
    OBVIOUS
  <2>2. incidents' = Append(incidents, r) /\ log' = l
    BY <1>4, <2>1, Zenon DEF OnFailure, source
  <2>3. \A i \in 1 .. Len(log) : log[i].event_time <= w.asOf /\ i >= w.from /\ i <= w.to
    <3>1. MaxLog \in Nat /\ Len(log) <= MaxLog /\ \A i \in 1 .. Len(log) : log[i].event_time <= 2
      BY EventLogAssumption DEF TimesInv
    <3>2. w.asOf = 2 /\ w.from = 1 /\ w.to = MaxLog
      BY <2>1
    <3> QED
      BY <1>0, <3>1, <3>2
  <2>4. slice(w) = [i \in 1 .. Len(log) |-> i]
    BY <1>0, <2>3, SliceIs
  <2>5. SessionOk(log, s0) /\ s0.slice = slice(w)
    BY <1>0, <2>1, NewSessionOk
  <2>6. s.slice = slice(w) /\ s.idx = Len(slice(w))
    BY <2>1, <2>5, FinishedIs
  <2>7. s.slice = [i \in 1 .. Len(log) |-> i] /\ s.idx = Len(log)
    BY <1>0, <2>4, <2>6
  <2>8. appliedEvents(s) = l
    <3>1. l = [i \in 1 .. Len(l) |-> l[i]]
      BY <1>1, <2>1
    <3>2. appliedEvents(s) = [k \in 1 .. Len(l) |-> l[s.slice[k]]]
      BY <2>1, <2>7 DEF appliedEvents
    <3>3. \A k \in 1 .. Len(l) : s.slice[k] = k
      BY <2>1, <2>7
    <3>4. [k \in 1 .. Len(l) |-> l[s.slice[k]]] = [k \in 1 .. Len(l) |-> l[k]]
      BY <3>3
    <3> QED
      BY <3>1, <3>2, <3>4
  <2>9. r.known = Len(l) /\ r.decisions = {d.decision_id : d \in decisionRecords(l)}
    BY <2>1, <2>8 DEF Incident
  <2>10. r.decisions = Correlations(SubSeq(l, 1, Len(l)))
    <3>1. Len(l) \in 0 .. Len(l) /\ l \in Seq(S)
      BY <1>0, <1>1, <2>1
    <3>2. Correlations(SubSeq(l, 1, Len(l))) = {l[i].correlation_id : i \in 1 .. Len(l)}
      BY <3>1, CorrelationsAre
    <3> QED
      BY <2>9, <3>1, <3>2, DecisionsAreOfCycles
  <2>11. PICK j : j = incidents'
    OBVIOUS
  <2>12. /\ IsSeq(j) /\ Len(j) = Len(incidents) + 1 /\ Len(incidents) \in Nat /\ j[Len(incidents) + 1] = r
         /\ \A k \in 1 .. Len(incidents) : j[k] = incidents[k]
    BY <1>0, <2>2, <2>11, AppendIs
  <2>13. ASSUME NEW k \in 1 .. Len(j) PROVE j[k].known \in 0 .. Len(l) /\ j[k].decisions = Correlations(SubSeq(l, 1, j[k].known))
    <3>1. CASE k = Len(incidents) + 1
      <4>1. j[k] = r /\ r.known \in 0 .. Len(l)
        BY <1>0, <2>1, <2>9, <2>12, <3>1
      <4> QED
        BY <2>9, <2>10, <4>1, Zenon
    <3>2. CASE k # Len(incidents) + 1
      <4>1. k \in 1 .. Len(incidents) /\ j[k] = incidents[k]
        BY <2>12, <3>2
      <4> QED
        BY <1>0, <2>1, <4>1, Zenon
    <3> QED
      BY <3>1, <3>2
  <2> QED
    BY <2>2, <2>11, <2>12, <2>13, Zenon DEF IncidentInv
<1>5. ASSUME NEW w \in Windows, CreateSession(w) PROVE UNCHANGED <<log, incidents>>
  BY <1>5, Zenon DEF CreateSession, source
<1>6. ASSUME NEW id \in DOMAIN sessions, Pause(id) \/ Resume(id) \/ RunToEnd(id) \/ (\E toSeq \in 1 .. MaxLog : Seek(id, toSeq))
      PROVE  UNCHANGED <<log, incidents>>
  <2>1. ASSUME NEW type, NEW after, Control(id, type, after) PROVE UNCHANGED <<log, incidents>>
    BY <2>1, Zenon DEF Control, source
  <2>2. ASSUME RunToEnd(id) PROVE UNCHANGED <<log, incidents>>
    BY <2>2, Zenon DEF RunToEnd, source
  <2> QED
    BY <1>6, <2>1, <2>2, Zenon DEF Pause, Resume, Seek
<1> QED
  BY <1>2, <1>3, <1>4, <1>5, <1>6, Zenon DEF ByLog

\* The console: the cursor stays on a frame, and on the last one when the
\* recording is complete.
LastFrame == IF frames = 0 THEN 0 ELSE frames - 1
ConsoleStates == {"IDLE", "LOADED", "PLAYING", "PAUSED", "STOPPED", "COMPLETED"}
ConsoleInv ==
    /\ frames \in Nat \cup {Closed} /\ console \in [state : ConsoleStates, cursor : Nat]
    /\ IF frames = Closed THEN console.state = "IDLE"
       ELSE console.cursor <= LastFrame /\ (console.state = "COMPLETED" => console.cursor = LastFrame)

\* No move takes the cursor off the recording.
LEMMA ConsoleKeeps == ASSUME ConsoleInv, frames # Closed, ByOperator PROVE ConsoleInv'
<1>1. /\ frames \in Nat /\ console \in [state : ConsoleStates, cursor : Nat] /\ console.cursor <= LastFrame
      /\ LastFrame \in Nat
      /\ (console.state = "COMPLETED" => console.cursor = LastFrame)
  BY DEF ConsoleInv, LastFrame
<1>2. ASSUME NEW n \in Nat PROVE Moved(n) \in Nat /\ Moved(n) <= LastFrame
  BY <1>1 DEF Moved, LastFrame
<1>a. ASSUME frames' = frames, NEW c, c = console', c \in [state : ConsoleStates, cursor : Nat], c.cursor <= LastFrame,
             c.state = "COMPLETED" => c.cursor = LastFrame
      PROVE  ConsoleInv'
  <2>1. LastFrame' = LastFrame
    BY <1>a, Zenon DEF LastFrame
  <2>2. IF frames' = Closed THEN c.state = "IDLE"
        ELSE c.cursor <= LastFrame' /\ (c.state = "COMPLETED" => c.cursor = LastFrame')
    BY <1>a, <2>1
  <2> QED
    BY <1>1, <1>a, <2>2, Zenon DEF ConsoleInv
<1>3. CASE Load
  <2>1. frames' = frames /\ console' = [state |-> "LOADED", cursor |-> Moved(0)]
    BY <1>3 DEF Load, Quiet
  <2>2. Moved(0) \in Nat /\ Moved(0) <= LastFrame
    BY <1>2
  <2>3. PICK c, m : c = console' /\ m = Moved(0)
    OBVIOUS
  <2>4. m \in Nat /\ m <= LastFrame /\ c = [state |-> "LOADED", cursor |-> m]
    BY <2>1, <2>2, <2>3, Zenon
  <2>5. c \in [state : ConsoleStates, cursor : Nat] /\ c.cursor = m /\ c.state = "LOADED"
    BY <2>4 DEF ConsoleStates
  <2>6. c.cursor <= LastFrame /\ c.state # "COMPLETED"
    BY <2>4, <2>5
  <2> QED
    BY <1>a, <2>1, <2>3, <2>5, <2>6
<1>4. CASE Advance
  <2>1. PICK n, c : n = console.cursor + 1 /\ c = Moved(n)
    OBVIOUS
  <2>2. frames' = frames /\ console' = [state |-> AdvancedState(n), cursor |-> c]
    BY <1>4, <2>1 DEF Advance, Quiet
  <2>3. n \in Nat /\ n <= LastFrame + 1
    BY <1>1, <2>1
  <2>4. c \in Nat /\ c <= LastFrame
    BY <1>2, <2>1, <2>3
  <2>5. AdvancedState(n) \in ConsoleStates /\ (AdvancedState(n) = "COMPLETED" => n >= frames - 1)
    <3>1. CASE n >= frames - 1
      <4>1. AdvancedState(n) = "COMPLETED"
        BY <3>1, Zenon DEF AdvancedState
      <4> QED
        BY <3>1, <4>1 DEF ConsoleStates
    <3>2. CASE ~(n >= frames - 1)
      <4>1. AdvancedState(n) = "PLAYING"
        BY <3>2, Zenon DEF AdvancedState
      <4>2. AdvancedState(n) \in ConsoleStates /\ AdvancedState(n) # "COMPLETED"
        BY <4>1 DEF ConsoleStates
      <4> QED
        BY <4>2, Zenon
    <3> QED
      BY <3>1, <3>2
  <2>6. n >= frames - 1 => c = LastFrame
    BY <1>1, <2>1, <2>3 DEF Moved, LastFrame
  <2>7. PICK d : d = console'
    OBVIOUS
  <2> HIDE DEF Moved, AdvancedState
  <2>8. d \in [state : ConsoleStates, cursor : Nat] /\ d.cursor <= LastFrame /\ (d.state = "COMPLETED" => d.cursor = LastFrame)
    BY <2>2, <2>4, <2>5, <2>6, <2>7
  <2> QED
    BY <1>a, <2>2, <2>7, <2>8
<1>5. ASSUME NEW to \in {"PLAYING", "PAUSED", "STOPPED"}, Transport(to) PROVE ConsoleInv'
  <2>1. frames' = frames /\ console' = [console EXCEPT !.state = to]
    BY <1>5 DEF Transport, Quiet
  <2>2. PICK c : c = console'
    OBVIOUS
  <2>3. PICK d : d = console
    OBVIOUS
  <2>4. to \in ConsoleStates /\ to # "COMPLETED" /\ c = [d EXCEPT !.state = to] /\ d \in [state : ConsoleStates, cursor : Nat]
    BY <1>1, <1>5, <2>1, <2>2, <2>3 DEF ConsoleStates
  <2>5. c \in [state : ConsoleStates, cursor : Nat] /\ c.cursor = d.cursor /\ c.state = to
    BY <2>4
  <2>6. c.cursor <= LastFrame /\ c.state # "COMPLETED"
    BY <1>1, <2>3, <2>4, <2>5
  <2> QED
    BY <1>a, <2>1, <2>2, <2>5, <2>6
<1>6. ASSUME NEW i \in 0 .. frames - 1, Navigate(i) PROVE ConsoleInv'
  <2>1. frames' = frames /\ console' = [console EXCEPT !.cursor = i] /\ console.state \in {"LOADED", "PAUSED"}
    BY <1>6 DEF Navigate, Quiet
  <2>2. PICK c : c = console'
    OBVIOUS
  <2>3. i \in Nat /\ i <= LastFrame
    BY <1>1 DEF LastFrame
  <2>4. c \in [state : ConsoleStates, cursor : Nat] /\ c.cursor <= LastFrame /\ c.state # "COMPLETED"
    BY <1>1, <2>1, <2>2, <2>3
  <2> QED
    BY <1>a, <2>1, <2>2, <2>4
<1> QED
  BY <1>3, <1>4, <1>5, <1>6 DEF ByOperator

\* A step of the log either writes to it or leaves it alone, and the console
\* is not touched.
LEMMA ByLogStep ==
    ASSUME ByLog
    PROVE  /\ \/ UNCHANGED source
              \/ \E input \in Inputs : AppendEvent(input)
              \/ \E k \in DOMAIN log : Tamper(k)
           /\ UNCHANGED <<frames, console>>
<1>1. ASSUME NEW input \in Inputs, AppendEvent(input) PROVE UNCHANGED <<frames, console>>
  BY <1>1 DEF AppendEvent
<1>2. ASSUME NEW k \in DOMAIN log, Tamper(k) PROVE UNCHANGED <<frames, console>>
  BY <1>2 DEF Tamper
<1>3. ASSUME NEW w \in Windows, CreateSession(w) PROVE UNCHANGED <<source, frames, console>>
  BY <1>3, Zenon DEF CreateSession
<1>4. ASSUME NEW id \in DOMAIN sessions, Pause(id) \/ Resume(id) \/ (\E toSeq \in 1 .. MaxLog : Seek(id, toSeq))
      PROVE  UNCHANGED <<source, frames, console>>
  <2>1. ASSUME NEW type, NEW after, Control(id, type, after) PROVE UNCHANGED <<source, frames, console>>
    BY <2>1, Zenon DEF Control
  <2> QED
    BY <1>4, <2>1, Zenon DEF Pause, Resume, Seek
<1>5. ASSUME NEW id \in DOMAIN sessions, RunToEnd(id) PROVE UNCHANGED <<source, frames, console>>
  BY <1>5, Zenon DEF RunToEnd
<1>6. ASSUME OnFailure PROVE UNCHANGED <<source, frames, console>>
  BY <1>6, Zenon DEF OnFailure
<1> QED
  BY <1>1, <1>2, <1>3, <1>4, <1>5, <1>6, Zenon DEF ByLog

ReplayingInv == ChainInv /\ TimesInv /\ ReplayInv /\ IncidentInv /\ ConsoleInv

\* Two sessions with the same hash have applied the same entries.
LEMMA HashTellsSlice ==
    ASSUME ChainInv, NEW s, NEW t, s \in Seq(1 .. Len(log)), t \in Seq(1 .. Len(log)), foldHash(s) = foldHash(t)
    PROVE  s = t
<1>1. PICK p, q : p = hashesOf(s) /\ q = hashesOf(t)
  OBVIOUS
<1>2. /\ Len(s) \in Nat /\ Len(t) \in Nat /\ DOMAIN s = 1 .. Len(s) /\ DOMAIN t = 1 .. Len(t)
      /\ \A k \in 1 .. Len(s) : s[k] \in 1 .. Len(log)
      /\ \A k \in 1 .. Len(t) : t[k] \in 1 .. Len(log)
  OBVIOUS
<1>a. /\ p = [k \in 1 .. Len(s) |-> log[s[k]].hash]
      /\ q = [k \in 1 .. Len(t) |-> log[t[k]].hash]
  BY <1>1, <1>2, Zenon DEF hashesOf
<1>b. Len(p) = Len(s) /\ \A k \in 1 .. Len(s) : p[k] = log[s[k]].hash
  BY <1>2, <1>a
<1>c. Len(q) = Len(t) /\ \A k \in 1 .. Len(t) : q[k] = log[t[k]].hash
  BY <1>2, <1>a
<1>3. rolled(p) = rolled(q)
  BY <1>1, Zenon DEF foldHash
<1>d. Len(p) \in Nat /\ Len(q) \in Nat
  BY <1>2, <1>b, <1>c
<1>e. Len(p) = Len(q) /\ \A k \in 1 .. Len(p) : p[k] = q[k]
  BY <1>3, <1>d, RolledInjective
<1>4. Len(s) = Len(t) /\ \A k \in 1 .. Len(s) : p[k] = q[k]
  BY <1>b, <1>c, <1>e, Zenon
<1>5. ASSUME NEW i \in 1 .. Len(log), NEW j \in 1 .. Len(log), log[i].hash = log[j].hash PROVE i = j
  <2>1. ASSUME NEW k \in 1 .. Len(log)
        PROVE  log[k].hash = chainHash(HashBefore(sealed, k), contentHash(sealed[k], k))
    <3>1. IsLink(sealed, k) /\ SameButPayload(log[k], sealed[k])
      BY DEF ChainInv
    <3> QED
      BY <3>1, Zenon DEF IsLink, SameButPayload
  <2>2. PICK a, b, c, d : /\ a = HashBefore(sealed, i) /\ b = InputOf(sealed[i])
                          /\ c = HashBefore(sealed, j) /\ d = InputOf(sealed[j])
    OBVIOUS
  <2>3. log[i].hash = <<a, <<b, i>>>> /\ log[j].hash = <<c, <<d, j>>>>
    BY <2>1, <2>2, Zenon DEF chainHash, contentHash
  <2>4. <<a, <<b, i>>>> = <<c, <<d, j>>>>
    BY <1>5, <2>3, Zenon
  <2> QED
    BY <2>4
<1>6. ASSUME NEW k \in 1 .. Len(s) PROVE s[k] = t[k]
  <2>1. k \in 1 .. Len(t)
    BY <1>4
  <2>2. log[s[k]].hash = log[t[k]].hash
    BY <1>4, <1>b, <1>c, <2>1, Zenon
  <2> QED
    BY <1>2, <1>5, <2>1, <2>2, Zenon
<1> QED
  BY <1>2, <1>4, <1>6, SMTT(30)

\* The invariant is what ReplayIsTruthful needs.
LEMMA ReplayingInvIsEnough == ReplayingInv => ReplayIsTruthful
<1> SUFFICES ASSUME ReplayingInv PROVE ReplayIsTruthful
  OBVIOUS
<1>1. /\ IsSeq(sessions) /\ IsSeq(replayLog) /\ IsSeq(incidents) /\ IsSeq(log)
      /\ \A id \in 1 .. Len(sessions) : SessionOk(log, sessions[id])
      /\ Recorded(log, sessions, replayLog) /\ Audited(sessions, replayLog)
  BY DEF ReplayingInv, ReplayInv, ReplaysOk, IncidentInv, ChainInv
<1>2. /\ DOMAIN sessions = 1 .. Len(sessions) /\ DOMAIN replayLog = 1 .. Len(replayLog) /\ Len(replayLog) \in Nat
      /\ DOMAIN incidents = 1 .. Len(incidents)
  BY <1>1, AppendIs
<1>3. FinishedIsWhole
  <2>1. ASSUME NEW k \in 1 .. Len(replayLog), replayLog[k].type = "finished"
        PROVE  /\ replayLog[k].applied = Len(sessions[replayLog[k].session].slice)
               /\ replayLog[k].hash = foldHash(sessions[replayLog[k].session].slice)
    BY <1>1, <2>1, FoldHashIs DEF Recorded
  <2> QED
    BY <1>2, <2>1, Zenon DEF FinishedIsWhole, ToSet
<1>4. AuditIsTruthful
  <2>1. ASSUME NEW id \in 1 .. Len(sessions) PROVE audit(id).finished <=> sessions[id].status = "finished"
    <3>1. PICK u : u = {k \in DOMAIN replayLog : replayLog[k].session = id /\ replayLog[k].type = "finished"}
      OBVIOUS
    <3>2. audit(id).finished <=> Cardinality(u) > 0
      BY <3>1 DEF audit
    <3>3. IsFiniteSet(u)
      <4>1. IsFiniteSet(1 .. Len(replayLog)) /\ u \subseteq 1 .. Len(replayLog)
        BY <1>2, <3>1, FS_Interval
      <4> QED
        BY <4>1, FS_Subset
    <3>4. Cardinality(u) > 0 <=> u # {}
      BY <3>3, FS_EmptySet, FS_CardinalityType
    <3>5. u # {} <=> \E k \in 1 .. Len(replayLog) : replayLog[k].session = id /\ replayLog[k].type = "finished"
      BY <1>2, <3>1
    <3>6. sessions[id].status = "finished" => \E k \in 1 .. Len(replayLog) : replayLog[k].session = id /\ replayLog[k].type = "finished"
      BY <1>1 DEF Audited
    <3>7. (\E k \in 1 .. Len(replayLog) : replayLog[k].session = id /\ replayLog[k].type = "finished") => sessions[id].status = "finished"
      BY <1>1 DEF Recorded
    <3> QED
      BY <3>2, <3>4, <3>5, <3>6, <3>7
  <2> QED
    BY <1>2, <2>1, Zenon DEF AuditIsTruthful
<1>5. DiffTellsSessionsApart
  <2>1. ASSUME NEW i \in 1 .. Len(sessions) PROVE AppliedBy(sessions[i]) \in Seq(1 .. Len(log))
    <3>1. PICK s, t : s = sessions[i] /\ t = s.slice
      OBVIOUS
    <3>2. /\ s \in [slice : Seq(1 .. Len(log)), idx : Nat, status : {"running", "paused", "finished"}]
          /\ s.idx <= Len(s.slice)
      BY <1>1, <3>1 DEF SessionOk
    <3>3. t \in Seq(1 .. Len(log)) /\ s.idx \in Nat /\ s.idx <= Len(t)
      BY <3>1, <3>2
    <3>4. SubSeq(t, 1, s.idx) \in Seq(1 .. Len(log))
      BY <3>3
    <3> QED
      BY <3>1, <3>4, Zenon DEF AppliedBy
  <2>2. ASSUME NEW i \in 1 .. Len(sessions), NEW j \in 1 .. Len(sessions)
        PROVE  SameState(sessions[i], sessions[j]) <=> AppliedBy(sessions[i]) = AppliedBy(sessions[j])
    <3>1. PICK s, t : s = AppliedBy(sessions[i]) /\ t = AppliedBy(sessions[j])
      OBVIOUS
    <3>2. s \in Seq(1 .. Len(log)) /\ t \in Seq(1 .. Len(log))
      BY <2>1, <3>1
    <3>3. foldHash(s) = foldHash(t) => s = t
      BY <3>2, HashTellsSlice DEF ReplayingInv
    <3>4. SameState(sessions[i], sessions[j]) <=> foldHash(s) = foldHash(t)
      BY <3>1, Zenon DEF SameState, stateHash
    <3> QED
      BY <3>1, <3>3, <3>4, Zenon
  <2>3. ASSUME NEW s \in ToSet(sessions), NEW t \in ToSet(sessions)
        PROVE  SameState(s, t) <=> AppliedBy(s) = AppliedBy(t)
    <3>1. PICK i \in 1 .. Len(sessions), j \in 1 .. Len(sessions) : s = sessions[i] /\ t = sessions[j]
      BY <1>2, <2>3, Zenon DEF ToSet
    <3>2. SameState(sessions[i], sessions[j]) <=> AppliedBy(sessions[i]) = AppliedBy(sessions[j])
      BY <2>2
    <3> QED
      BY <3>1, <3>2, Zenon
  <2> QED
    BY <2>3, Zenon DEF DiffTellsSessionsApart
<1>6. IncidentCoversLog
  <2>1. \A k \in 1 .. Len(incidents) : incidents[k].decisions = Correlations(SubSeq(log, 1, incidents[k].known))
    BY DEF ReplayingInv, IncidentInv
  <2> QED
    BY <1>2, <2>1, Zenon DEF IncidentCoversLog, ToSet
<1>7. CompletedMeansLast
  <2>1. ASSUME NEW n \in Nat PROVE Max({0, n - 1}) = IF n = 0 THEN 0 ELSE n - 1
    <3>1. PICK a : a = n - 1
      OBVIOUS
    <3>2. \E x \in {0, a} : \A y \in {0, a} : x >= y
      BY <3>1
    <3>3. Max({0, a}) \in {0, a} /\ \A y \in {0, a} : Max({0, a}) >= y
      BY <3>2 DEF Max
    <3> HIDE DEF Max
    <3> QED
      BY <3>1, <3>3
  <2>2. console.state = "COMPLETED" => frames \in Nat /\ console.cursor = LastFrame
    BY DEF ReplayingInv, ConsoleInv
  <2> HIDE DEF Max
  <2> QED
    BY <2>1, <2>2 DEF CompletedMeansLast, LastFrame
<1> QED
  BY <1>3, <1>4, <1>5, <1>6, <1>7 DEF ReplayIsTruthful

\* A replay tells what it did, for every log, every number of sessions and
\* every length of a recording: a recorded end is of the whole slice and its
\* hash stays that of the log, the audit agrees with the session, equal
\* hashes mean equal histories, an incident report covers the log, and a
\* recording is complete only on its last frame (ReplayEngine, ReplaySession,
\* FailureAutomation, OperatorReplaySession).
THEOREM ReplaysHold == Spec => []ReplayIsTruthful
<1>1. Init => ReplayingInv
  <2> SUFFICES ASSUME Init PROVE ReplayingInv
    OBVIOUS
  <2>1. /\ log = <<>> /\ sealed = <<>> /\ sessions = <<>> /\ replayLog = <<>> /\ incidents = <<>>
        /\ frames \in FrameCounts \cup {Closed} /\ console = [state |-> "IDLE", cursor |-> 0]
    BY DEF Init
  <2>2. IsSeq(<<>>) /\ Len(<<>>) = 0
    <3>1. <<>> \in Seq({}) /\ Len(<<>>) = 0
      OBVIOUS
    <3> QED
      BY <3>1 DEF IsSeq
  <2>3. ChainInv
    BY <2>1, <2>2 DEF ChainInv
  <2>4. TimesInv
    BY <2>1, <2>2, EventLogAssumption DEF TimesInv
  <2>5. ReplayInv
    BY <2>1, <2>2 DEF ReplayInv, ReplaysOk, Recorded, Audited
  <2>6. IncidentInv
    BY <2>1, <2>2 DEF IncidentInv
  <2>7. ConsoleInv
    <3>1. frames \in Nat \cup {Closed}
      BY <2>1, EventLogAssumption
    <3>2. console \in [state : ConsoleStates, cursor : Nat] /\ console.state = "IDLE" /\ console.cursor = 0
      BY <2>1 DEF ConsoleStates
    <3>3. frames # Closed => 0 <= LastFrame
      BY <3>1 DEF LastFrame
    <3>4. console.state # "COMPLETED"
      BY <3>2
    <3> QED
      BY <3>1, <3>2, <3>3, <3>4 DEF ConsoleInv
  <2> QED
    BY <2>3, <2>4, <2>5, <2>6, <2>7 DEF ReplayingInv
<1>2. ReplayingInv /\ [Next]_vars => ReplayingInv'
  <2> SUFFICES ASSUME ReplayingInv, [Next]_vars PROVE ReplayingInv'
    OBVIOUS
  <2>1. ChainInv /\ TimesInv /\ ReplayInv /\ IncidentInv /\ ConsoleInv
    BY DEF ReplayingInv
  <2>2. ChainInv'
    <3>1. CASE UNCHANGED source
      BY <2>1, <3>1, Zenon DEF ChainInv, source
    <3> QED
      BY <2>1, <3>1, SourceStep, AppendKeepsChain, TamperKeepsChain
  <2>3. CASE ByLog
    <3>1. TimesInv'
      <4>1. CASE UNCHANGED source
        BY <2>1, <4>1, Zenon DEF TimesInv, source
      <4>2. ASSUME \/ \E input \in Inputs : AppendEvent(input)
                   \/ \E k \in DOMAIN log : Tamper(k)
            PROVE  TimesInv'
        BY <2>1, <4>2, LogStep DEF TimesInv
      <4> QED
        BY <2>3, <4>1, <4>2, ByLogStep
    <3>2. console' = console /\ frames' = frames
      BY <2>3, ByLogStep
    <3>3. ConsoleInv'
      BY <2>1, <3>2, Zenon DEF ConsoleInv, LastFrame
    <3> QED
      BY <2>1, <2>2, <2>3, <3>1, <3>3, ReplayKeeps, IncidentsKeep DEF ReplayingInv
  <2>4. CASE frames # Closed /\ ByOperator
    <3>1. UNCHANGED <<source, replay>>
      BY <2>4 DEF ByOperator, Load, Advance, Transport, Navigate, Quiet
    <3>2. ConsoleInv'
      BY <2>1, <2>4, ConsoleKeeps
    <3>3. TimesInv' /\ ReplayInv' /\ IncidentInv'
      BY <2>1, <3>1, Zenon DEF TimesInv, ReplayInv, IncidentInv, source, replay
    <3> QED
      BY <2>2, <3>2, <3>3 DEF ReplayingInv
  <2>5. CASE UNCHANGED vars
    <3>1. TimesInv' /\ ReplayInv' /\ IncidentInv' /\ ConsoleInv'
      BY <2>1, <2>5, Zenon DEF TimesInv, ReplayInv, IncidentInv, ConsoleInv, LastFrame, vars, source, replay
    <3> QED
      BY <2>2, <3>1 DEF ReplayingInv
  <2> QED
    BY <2>3, <2>4, <2>5 DEF Next
<1> QED
  BY <1>1, <1>2, ReplayingInvIsEnough, PTL DEF Spec

-----------------------------------------------------------------------------
(***************************************************************************)
(* Old schema versions.  The registry has at most two steps; registering   *)
(* them in either order leaves them sorted, and a fold over at most two    *)
(* elements is written out.                                                *)
(***************************************************************************)
MaxOver(u) == IF 2 \in u THEN 2 ELSE 1

LEMMA ShortMax ==
    /\ \A u \in SUBSET (1 .. 2) : u # {} => Max(u) = MaxOver(u)
    /\ Max({1, 1}) = 1 /\ Max({2, 2}) = 2 /\ Max({2, 1}) = 2 /\ Max({3, 1}) = 3 /\ Max({3, 2}) = 3
    /\ Max({2}) = 2 /\ Max({3}) = 3 /\ Max({2, 3}) = 3
<1>1. ASSUME NEW n \in 1 .. 3, NEW u \in SUBSET (1 .. 3), n \in u, \A y \in u : n >= y PROVE Max(u) = n
  <2>0. 3 \in Nat /\ u # {}
    BY <1>1
  <2>1. Max(u) \in u /\ \A y \in u : Max(u) >= y
    BY <2>0, MaxIsMember
  <2> HIDE DEF Max
  <2>2. PICK m : m = Max(u)
    OBVIOUS
  <2>3. m \in 1 .. 3 /\ m >= n /\ n >= m
    BY <1>1, <2>1, <2>2
  <2> QED
    BY <2>2, <2>3
<1> HIDE DEF Max
<1>2. ASSUME NEW u \in SUBSET (1 .. 2), u # {} PROVE Max(u) = MaxOver(u)
  <2>0. u \in SUBSET (1 .. 3) /\ \A y \in u : y = 1 \/ y = 2
    OBVIOUS
  <2>1. MaxOver(u) \in u /\ MaxOver(u) \in 1 .. 3
    BY <1>2, <2>0 DEF MaxOver
  <2>2. \A y \in u : MaxOver(u) >= y
    BY <2>0 DEF MaxOver
  <2> QED
    BY <1>1, <2>0, <2>1, <2>2
<1>3. Max({1}) = 1 /\ Max({2}) = 2 /\ Max({3}) = 3
  BY <1>1
<1>4. Max({2, 1}) = 2 /\ Max({3, 1}) = 3 /\ Max({3, 2}) = 3
  BY <1>1
<1>5. {1, 1} = {1} /\ {2, 2} = {2} /\ {2, 3} = {3, 2}
  OBVIOUS
<1> QED
  BY <1>2, <1>3, <1>4, <1>5, Zenon

\* Registering at most two steps, one after the other.
LEMMA RegisterFold ==
    ASSUME NEW s, NEW n \in 0 .. 2, DOMAIN s = 1 .. n
    PROVE  /\ n = 0 => FoldLeft(register, <<>>, s) = <<>>
           /\ n = 1 => FoldLeft(register, <<>>, s) = register(<<>>, s[1])
           /\ n = 2 => FoldLeft(register, <<>>, s) = register(register(<<>>, s[1]), s[2])
<1> DEFINE D == 1 .. n
           E(it) == [u \in SUBSET (DOMAIN s) |->
                        IF u = {} THEN <<>> ELSE register(it[u \ {Max(u)}], s[Max(u)])]
           ch == CHOOSE it : it = E(it)
           it0 == [u \in SUBSET (1 .. n) |->
                      IF u = {} THEN <<>>
                      ELSE IF 2 \in u THEN register(IF 1 \in u THEN register(<<>>, s[1]) ELSE <<>>, s[2])
                      ELSE register(<<>>, s[1])]
<1>1. it0 = E(it0)
  <2>1. ASSUME NEW u \in SUBSET (1 .. n), u # {}
        PROVE  it0[u] = register(it0[u \ {Max(u)}], s[Max(u)])
    <3>1. u \in SUBSET (1 .. 2)
      OBVIOUS
    <3>2. Max(u) = MaxOver(u)
      BY <2>1, <3>1, ShortMax
    <3> HIDE DEF Max
    <3>3. CASE 2 \in u
      <4>1. Max(u) = 2 /\ u \ {2} \in SUBSET (1 .. n) /\ 2 \notin u \ {2}
        BY <3>2, <3>3 DEF MaxOver
      <4>2. 1 \in u => u \ {2} # {} /\ 1 \in u
        OBVIOUS
      <4>3. 1 \notin u => u \ {2} = {}
        BY <3>1
      <4>4. it0[u \ {2}] = IF 1 \in u THEN register(<<>>, s[1]) ELSE <<>>
        <5> HIDE DEF register
        <5> QED
          BY <4>1, <4>2, <4>3
      <4>5. it0[u] = register(IF 1 \in u THEN register(<<>>, s[1]) ELSE <<>>, s[2])
        <5> HIDE DEF register
        <5> QED
          BY <2>1, <3>3
      <4> HIDE DEF it0, register
      <4> QED
        BY <4>1, <4>4, <4>5, Zenon
    <3>4. CASE 2 \notin u
      <4>1. Max(u) = 1 /\ u \ {1} = {} /\ {} \in SUBSET (1 .. n)
        BY <3>1, <3>2, <3>4 DEF MaxOver
      <4>2. it0[{}] = <<>> /\ it0[u] = register(<<>>, s[1])
        <5> HIDE DEF register
        <5> QED
          BY <2>1, <3>4, <4>1
      <4> HIDE DEF it0, register
      <4> QED
        BY <4>1, <4>2, Zenon
    <3> QED
      BY <3>3, <3>4
  <2>2. \A u \in SUBSET (1 .. n) : u = {} => it0[u] = <<>>
    OBVIOUS
  <2>3. it0 = [u \in SUBSET (1 .. n) |-> it0[u]]
    OBVIOUS
  <2> HIDE DEF it0, Max, register
  <2>4. \A u \in SUBSET (1 .. n) : it0[u] = IF u = {} THEN <<>> ELSE register(it0[u \ {Max(u)}], s[Max(u)])
    BY <2>1, <2>2
  <2> QED
    BY <2>3, <2>4
<1>2. ch = E(ch)
  <2> HIDE DEF E, it0
  <2> QED
    BY <1>1
<1>3. FoldLeft(register, <<>>, s) = ch[DOMAIN s]
  BY DEF FoldLeft, MapThenFoldSet
<1> HIDE DEF ch
<1>4. ASSUME NEW u \in SUBSET (DOMAIN s), u # {} PROVE ch[u] = register(ch[u \ {Max(u)}], s[Max(u)])
  BY <1>2, <1>4, Zenon
<1>5. ch[{}] = <<>>
  <2> HIDE DEF register, Max
  <2> QED
    BY <1>2
<1> HIDE DEF Max, register
<1>6. ASSUME n > 0 PROVE ch[{1}] = register(<<>>, s[1])
  <2>1. {1} \in SUBSET (DOMAIN s) /\ {1} # {} /\ {1} \ {1} = {} /\ {1} \in SUBSET (1 .. 2) /\ MaxOver({1}) = 1
    BY <1>6 DEF MaxOver
  <2>2. Max({1}) = 1
    BY <2>1, ShortMax
  <2> QED
    BY <1>4, <1>5, <2>1, <2>2, Zenon
<1>7. ASSUME n > 1 PROVE ch[{1, 2}] = register(ch[{1}], s[2])
  <2>1. {1, 2} \in SUBSET (DOMAIN s) /\ {1, 2} # {} /\ {1, 2} \ {2} = {1} /\ {1, 2} \in SUBSET (1 .. 2) /\ MaxOver({1, 2}) = 2
    BY <1>7 DEF MaxOver
  <2>2. Max({1, 2}) = 2
    BY <2>1, ShortMax
  <2> QED
    BY <1>4, <2>1, <2>2, Zenon
<1>8. (n = 0 => DOMAIN s = {}) /\ (n = 1 => DOMAIN s = {1} /\ n > 0) /\ (n = 2 => DOMAIN s = {1, 2} /\ n > 0 /\ n > 1)
  OBVIOUS
<1>9. n = 0 => FoldLeft(register, <<>>, s) = <<>>
  BY <1>3, <1>5, <1>8, Zenon
<1>10. n = 1 => FoldLeft(register, <<>>, s) = register(<<>>, s[1])
  BY <1>3, <1>6, <1>8, Zenon
<1>11. n = 2 => FoldLeft(register, <<>>, s) = register(register(<<>>, s[1]), s[2])
  BY <1>3, <1>6, <1>7, <1>8, Zenon
<1> QED
  BY <1>9, <1>10, <1>11, Zenon

\* Applying at most two steps, one after the other.
LEMMA MigrateFold ==
    ASSUME NEW e, NEW s, NEW n \in 0 .. 2, DOMAIN s = 1 .. n
    PROVE  /\ n = 0 => FoldLeft(Migrate, e, s) = e
           /\ n = 1 => FoldLeft(Migrate, e, s) = Migrate(e, s[1])
           /\ n = 2 => FoldLeft(Migrate, e, s) = Migrate(Migrate(e, s[1]), s[2])
<1> DEFINE D == 1 .. n
           E(it) == [u \in SUBSET (DOMAIN s) |->
                        IF u = {} THEN e ELSE Migrate(it[u \ {Max(u)}], s[Max(u)])]
           ch == CHOOSE it : it = E(it)
           it0 == [u \in SUBSET (1 .. n) |->
                      IF u = {} THEN e
                      ELSE IF 2 \in u THEN Migrate(IF 1 \in u THEN Migrate(e, s[1]) ELSE e, s[2])
                      ELSE Migrate(e, s[1])]
<1>1. it0 = E(it0)
  <2>1. ASSUME NEW u \in SUBSET (1 .. n), u # {}
        PROVE  it0[u] = Migrate(it0[u \ {Max(u)}], s[Max(u)])
    <3>1. u \in SUBSET (1 .. 2)
      OBVIOUS
    <3>2. Max(u) = MaxOver(u)
      BY <2>1, <3>1, ShortMax
    <3> HIDE DEF Max
    <3>3. CASE 2 \in u
      <4>1. Max(u) = 2 /\ u \ {2} \in SUBSET (1 .. n) /\ 2 \notin u \ {2}
        BY <3>2, <3>3 DEF MaxOver
      <4>2. 1 \in u => u \ {2} # {} /\ 1 \in u
        OBVIOUS
      <4>3. 1 \notin u => u \ {2} = {}
        BY <3>1
      <4>4. it0[u \ {2}] = IF 1 \in u THEN Migrate(e, s[1]) ELSE e
        <5> HIDE DEF Migrate
        <5> QED
          BY <4>1, <4>2, <4>3
      <4>5. it0[u] = Migrate(IF 1 \in u THEN Migrate(e, s[1]) ELSE e, s[2])
        <5> HIDE DEF Migrate
        <5> QED
          BY <2>1, <3>3
      <4> HIDE DEF it0, Migrate
      <4> QED
        BY <4>1, <4>4, <4>5, Zenon
    <3>4. CASE 2 \notin u
      <4>1. Max(u) = 1 /\ u \ {1} = {} /\ {} \in SUBSET (1 .. n)
        BY <3>1, <3>2, <3>4 DEF MaxOver
      <4>2. it0[{}] = e /\ it0[u] = Migrate(e, s[1])
        <5> HIDE DEF Migrate
        <5> QED
          BY <2>1, <3>4, <4>1
      <4> HIDE DEF it0, Migrate
      <4> QED
        BY <4>1, <4>2, Zenon
    <3> QED
      BY <3>3, <3>4
  <2>2. \A u \in SUBSET (1 .. n) : u = {} => it0[u] = e
    OBVIOUS
  <2>3. it0 = [u \in SUBSET (1 .. n) |-> it0[u]]
    OBVIOUS
  <2> HIDE DEF it0, Max, Migrate
  <2>4. \A u \in SUBSET (1 .. n) : it0[u] = IF u = {} THEN e ELSE Migrate(it0[u \ {Max(u)}], s[Max(u)])
    BY <2>1, <2>2
  <2> QED
    BY <2>3, <2>4
<1>2. ch = E(ch)
  <2> HIDE DEF E, it0
  <2> QED
    BY <1>1
<1>3. FoldLeft(Migrate, e, s) = ch[DOMAIN s]
  BY DEF FoldLeft, MapThenFoldSet
<1> HIDE DEF ch
<1>4. ASSUME NEW u \in SUBSET (DOMAIN s), u # {} PROVE ch[u] = Migrate(ch[u \ {Max(u)}], s[Max(u)])
  BY <1>2, <1>4, Zenon
<1>5. ch[{}] = e
  <2> HIDE DEF Migrate, Max
  <2> QED
    BY <1>2
<1> HIDE DEF Max, Migrate
<1>6. ASSUME n > 0 PROVE ch[{1}] = Migrate(e, s[1])
  <2>1. {1} \in SUBSET (DOMAIN s) /\ {1} # {} /\ {1} \ {1} = {} /\ {1} \in SUBSET (1 .. 2) /\ MaxOver({1}) = 1
    BY <1>6 DEF MaxOver
  <2>2. Max({1}) = 1
    BY <2>1, ShortMax
  <2> QED
    BY <1>4, <1>5, <2>1, <2>2, Zenon
<1>7. ASSUME n > 1 PROVE ch[{1, 2}] = Migrate(ch[{1}], s[2])
  <2>1. {1, 2} \in SUBSET (DOMAIN s) /\ {1, 2} # {} /\ {1, 2} \ {2} = {1} /\ {1, 2} \in SUBSET (1 .. 2) /\ MaxOver({1, 2}) = 2
    BY <1>7 DEF MaxOver
  <2>2. Max({1, 2}) = 2
    BY <2>1, ShortMax
  <2> QED
    BY <1>4, <2>1, <2>2, Zenon
<1>8. (n = 0 => DOMAIN s = {}) /\ (n = 1 => DOMAIN s = {1} /\ n > 0) /\ (n = 2 => DOMAIN s = {1, 2} /\ n > 0 /\ n > 1)
  OBVIOUS
<1>9. n = 0 => FoldLeft(Migrate, e, s) = e
  BY <1>3, <1>5, <1>8, Zenon
<1>10. n = 1 => FoldLeft(Migrate, e, s) = Migrate(e, s[1])
  BY <1>3, <1>6, <1>8, Zenon
<1>11. n = 2 => FoldLeft(Migrate, e, s) = Migrate(Migrate(e, s[1]), s[2])
  BY <1>3, <1>6, <1>7, <1>8, Zenon
<1> QED
  BY <1>9, <1>10, <1>11, Zenon

\* A step registered alone, and one registered after another.
LEMMA RegisterOne == ASSUME NEW a, a.from \in Nat PROVE register(<<>>, a) = <<a>>
<1> DEFINE s == Append(<<>>, a)
<1>2. s = <<a>> /\ DOMAIN s = {1} /\ s[1] = a
  OBVIOUS
<1> DEFINE place(i) == Cardinality({j \in DOMAIN s : s[j].from < s[i].from \/ (~(s[i].from < s[j].from) /\ j <= i)})
<1>3. register(<<>>, a) = [k \in DOMAIN s |-> s[CHOOSE i \in DOMAIN s : place(i) = k]]
  BY DEF register, StableSort
<1> HIDE DEF s
<1>4. place(1) = 1
  <2>1. {j \in DOMAIN s : s[j].from < s[1].from \/ (~(s[1].from < s[j].from) /\ j <= 1)} = {1}
    BY <1>2
  <2> QED
    BY <2>1, FS_Singleton
<1> HIDE DEF place
<1>5. (CHOOSE i \in DOMAIN s : place(i) = 1) = 1
  BY <1>2, <1>4
<1>6. PICK t : t = register(<<>>, a)
  OBVIOUS
<1>7. DOMAIN t = {1} /\ t[1] = a /\ t = [k \in {1} |-> t[k]]
  BY <1>2, <1>3, <1>5, <1>6
<1> QED
  BY <1>6, <1>7

LEMMA RegisterTwo ==
    ASSUME NEW a, NEW b, a.from \in Nat, b.from \in Nat, a.from # b.from
    PROVE  register(<<a>>, b) = IF a.from < b.from THEN <<a, b>> ELSE <<b, a>>
<1> DEFINE s == Append(<<a>>, b)
<1>2. s = <<a, b>> /\ DOMAIN s = {1, 2} /\ s[1] = a /\ s[2] = b
  <2>1. s = <<a, b>>
    BY Pair
  <2> QED
    BY <2>1
<1> DEFINE Before(i) == {j \in DOMAIN s : s[j].from < s[i].from \/ (~(s[i].from < s[j].from) /\ j <= i)}
           place(i) == Cardinality(Before(i))
<1>3. register(<<a>>, b) = [k \in DOMAIN s |-> s[CHOOSE i \in DOMAIN s : place(i) = k]]
  BY DEF register, StableSort
<1> HIDE DEF s
<1>4. Cardinality({1}) = 1 /\ Cardinality({2}) = 1 /\ Cardinality({1, 2}) = 2
  <2>1. IsFiniteSet({1}) /\ 2 \notin {1} /\ {1} \cup {2} = {1, 2} /\ Cardinality({1}) = 1 /\ Cardinality({2}) = 1
    BY FS_Singleton
  <2>2. Cardinality({1} \cup {2}) = Cardinality({1}) + 1
    BY <2>1, FS_AddElement
  <2> QED
    BY <2>1, <2>2
<1>5. PICK t : t = register(<<a>>, b)
  OBVIOUS
<1>6. CASE a.from < b.from
  <2>1. Before(1) = {1} /\ Before(2) = {1, 2}
    BY <1>2, <1>6
  <2>2. place(1) = 1 /\ place(2) = 2
    BY <1>4, <2>1, Zenon
  <2> HIDE DEF place
  <2>3. (CHOOSE i \in DOMAIN s : place(i) = 1) = 1 /\ (CHOOSE i \in DOMAIN s : place(i) = 2) = 2
    BY <1>2, <2>2
  <2> HIDE DEF Before
  <2>4. PICK at : at = [k \in DOMAIN s |-> CHOOSE i \in DOMAIN s : place(i) = k]
    OBVIOUS
  <2>5. at[1] = 1 /\ at[2] = 2 /\ t = [k \in {1, 2} |-> s[at[k]]]
    BY <1>2, <1>3, <1>5, <2>3, <2>4
  <2>6. t[1] = a /\ t[2] = b /\ t = [k \in {1, 2} |-> t[k]]
    BY <1>2, <2>5
  <2> QED
    BY <1>5, <1>6, <2>6
<1>7. CASE ~(a.from < b.from)
  <2>1. Before(1) = {1, 2} /\ Before(2) = {2}
    BY <1>2, <1>7
  <2>2. place(1) = 2 /\ place(2) = 1
    BY <1>4, <2>1, Zenon
  <2> HIDE DEF place
  <2>3. (CHOOSE i \in DOMAIN s : place(i) = 1) = 2 /\ (CHOOSE i \in DOMAIN s : place(i) = 2) = 1
    BY <1>2, <2>2
  <2> HIDE DEF Before
  <2>4. PICK at : at = [k \in DOMAIN s |-> CHOOSE i \in DOMAIN s : place(i) = k]
    OBVIOUS
  <2>5. at[1] = 2 /\ at[2] = 1 /\ t = [k \in {1, 2} |-> s[at[k]]]
    BY <1>2, <1>3, <1>5, <2>3, <2>4
  <2>6. t[1] = b /\ t[2] = a /\ t = [k \in {1, 2} |-> t[k]]
    BY <1>2, <2>5
  <2> QED
    BY <1>5, <1>7, <2>6
<1> QED
  BY <1>6, <1>7

\* The steps as they stand in the registry, whatever the order of registering.
Early == [from |-> 1, to |-> 2]
Late == [from |-> 2, to |-> 3]
Registered == {<<>>, <<Early>>, <<Late>>, <<Early, Late>>}

LEMMA RegistryIsSorted ==
    ASSUME NEW order \in SetToAllKPermutations(Migrations)
    PROVE  FoldLeft(register, <<>>, order) \in Registered
<1>1. Migrations = {Early, Late} /\ Early.from = 1 /\ Late.from = 2 /\ Early # Late
  BY DEF Migrations, Early, Late
<1>2. PICK u \in SUBSET Migrations : order \in SetToSeqs(u)
  BY DEF SetToAllKPermutations
<1>3. PICK n : n = Cardinality(u)
  OBVIOUS
<1>4. n \in 0 .. 2
  <2>1. u \in {{}, {Early}, {Late}, {Early, Late}}
    BY <1>1
  <2>2. IsFiniteSet({Early}) /\ Cardinality({Early}) = 1 /\ Cardinality({Late}) = 1 /\ Cardinality({}) = 0
    BY FS_Singleton, FS_EmptySet
  <2>3. Cardinality({Early} \cup {Late}) = Cardinality({Early}) + 1
    BY <1>1, <2>2, FS_AddElement
  <2>4. {Early} \cup {Late} = {Early, Late}
    OBVIOUS
  <2> QED
    BY <1>3, <2>1, <2>2, <2>3, <2>4
<1>5. order \in [1 .. n -> u] /\ \A i, j \in 1 .. n : i # j => order[i] # order[j]
  BY <1>2, <1>3 DEF SetToSeqs
<1>6. DOMAIN order = 1 .. n
  BY <1>5
<1> HIDE DEF register, FoldLeft
<1>7. CASE n = 0
  BY <1>4, <1>6, <1>7, RegisterFold DEF Registered
<1>8. CASE n = 1
  <2>1. order[1] \in {Early, Late} /\ order[1].from \in Nat
    BY <1>1, <1>5, <1>8
  <2>2. FoldLeft(register, <<>>, order) = register(<<>>, order[1])
    BY <1>4, <1>6, <1>8, RegisterFold
  <2>3. register(<<>>, order[1]) = <<order[1]>>
    BY <2>1, RegisterOne
  <2> QED
    BY <2>1, <2>2, <2>3 DEF Registered
<1>9. CASE n = 2
  <2>1. PICK a, b : a = order[1] /\ b = order[2]
    OBVIOUS
  <2>2. a \in {Early, Late} /\ b \in {Early, Late} /\ a # b
    BY <1>1, <1>5, <1>9, <2>1
  <2>3. a.from \in Nat /\ b.from \in Nat /\ a.from # b.from
    BY <1>1, <2>2
  <2>4. FoldLeft(register, <<>>, order) = register(register(<<>>, a), b)
    BY <1>4, <1>6, <1>9, <2>1, RegisterFold
  <2>5. register(<<>>, a) = <<a>> /\ register(<<a>>, b) = IF a.from < b.from THEN <<a, b>> ELSE <<b, a>>
    BY <2>3, RegisterOne, RegisterTwo
  <2>6. FoldLeft(register, <<>>, order) = IF a.from < b.from THEN <<a, b>> ELSE <<b, a>>
    BY <2>4, <2>5, Zenon
  <2>7. (a = Early /\ b = Late /\ a.from < b.from) \/ (a = Late /\ b = Early /\ ~(a.from < b.from))
    BY <1>1, <2>2
  <2> QED
    BY <2>6, <2>7, Zenon DEF Registered
<1> QED
  BY <1>4, <1>7, <1>8, <1>9

\* The versions from an event's own to the current one, in ascending order.
LEMMA VersionsBelow ==
    /\ Filter(<<1, 2>>, {}) = <<>> /\ Filter(<<1, 2>>, {1}) = <<1>>
    /\ Filter(<<1, 2>>, {2}) = <<2>> /\ Filter(<<1, 2>>, {1, 2}) = <<1, 2>>
<1>1. ASSUME NEW keep
      PROVE  Filter(<<1, 2>>, keep) = LET one == IF 1 \in keep THEN <<1>> ELSE <<>>
                                      IN IF 2 \in keep THEN Append(one, 2) ELSE one
  <2>1. /\ <<>> \in Seq(1 .. 2) /\ <<1>> \in Seq(1 .. 2) /\ 1 \in 1 .. 2 /\ 2 \in 1 .. 2
        /\ Append(<<>>, 1) = <<1>> /\ Append(<<1>>, 2) = <<1, 2>>
    <3>1. <<>> \in Seq(1 .. 2) /\ <<1>> \in Seq(1 .. 2) /\ 1 \in 1 .. 2 /\ 2 \in 1 .. 2
      OBVIOUS
    <3>2. Append(<<>>, 1) = <<1>>
      OBVIOUS
    <3> QED
      BY <3>1, <3>2, Pair
  <2>2. Filter(Append(<<>>, 1), keep) = IF 1 \in keep THEN Append(Filter(<<>>, keep), 1) ELSE Filter(<<>>, keep)
    <3>1. ASSUME NEW s \in Seq(1 .. 2)
          PROVE  Filter(Append(s, 1), keep) = IF 1 \in keep THEN Append(Filter(s, keep), 1) ELSE Filter(s, keep)
      BY <2>1, FilterAppend
    <3> QED
      BY <2>1, <3>1, Zenon
  <2>3. Filter(<<1>>, keep) = IF 1 \in keep THEN <<1>> ELSE <<>>
    BY <2>1, <2>2, FilterEmpty, Zenon
  <2>4. Filter(Append(<<1>>, 2), keep) = IF 2 \in keep THEN Append(Filter(<<1>>, keep), 2) ELSE Filter(<<1>>, keep)
    <3>1. ASSUME NEW s \in Seq(1 .. 2)
          PROVE  Filter(Append(s, 2), keep) = IF 2 \in keep THEN Append(Filter(s, keep), 2) ELSE Filter(s, keep)
      BY <2>1, FilterAppend
    <3> QED
      BY <2>1, <3>1, Zenon
  <2> QED
    BY <2>1, <2>3, <2>4, Zenon
<1>2. Append(<<>>, 2) = <<2>> /\ Append(<<1>>, 2) = <<1, 2>>
  <2>1. Append(<<>>, 2) = <<2>>
    OBVIOUS
  <2> QED
    BY <2>1, Pair
<1>3. (\A x \in {1, 2} : x \in {1, 2} /\ x \notin {}) /\ 1 \in {1} /\ 2 \notin {1} /\ 2 \in {2} /\ 1 \notin {2}
  OBVIOUS
<1>4. Filter(<<1, 2>>, {}) = <<>>
  BY <1>1, <1>3, Zenon
<1>5. Filter(<<1, 2>>, {1}) = <<1>>
  BY <1>1, <1>3, Zenon
<1>6. Filter(<<1, 2>>, {2}) = <<2>>
  BY <1>1, <1>2, <1>3, Zenon
<1>7. Filter(<<1, 2>>, {1, 2}) = <<1, 2>>
  BY <1>1, <1>2, <1>3, Zenon
<1> QED
  BY <1>4, <1>5, <1>6, <1>7

\* What is sealed has one of the versions of the inputs, and a payload.
VersionsInv ==
    /\ IsSeq(sealed)
    /\ \A i \in 1 .. Len(sealed) :
          /\ IsEntry(sealed[i]) /\ sealed[i].schema_version \in {1, 2}
          /\ \E S : sealed[i].payload \in Seq(S) /\ 1 .. 2 \subseteq S

LEMMA VersionsKept == VersionsInv /\ [Next]_vars => VersionsInv'
<1> SUFFICES ASSUME VersionsInv, [Next]_vars PROVE VersionsInv'
  OBVIOUS
<1>1. CASE sealed' = sealed
  BY <1>1, Zenon DEF VersionsInv
<1>2. ASSUME NEW input \in Inputs, sealed' = append(sealed, input) PROVE VersionsInv'
  <2>1. PICK e : e = Sealed(sealed, input)
    OBVIOUS
  <2>2. sealed' = Append(sealed, e)
    BY <1>2, <2>1 DEF append
  <2>3. PICK n : n = Len(sealed)
    OBVIOUS
  <2>4. /\ n \in Nat /\ IsSeq(sealed') /\ Len(sealed') = n + 1
        /\ \A i \in 1 .. n : sealed'[i] = sealed[i]
        /\ sealed'[n + 1] = e
    BY <2>2, <2>3, AppendIs DEF VersionsInv
  <2>5. IsEntry(e)
    BY <2>1, SealedIs, Zenon
  <2>6. e.schema_version = input.schema_version /\ e.payload = input.payload
    BY <2>1 DEF Sealed
  <2>7. input.schema_version \in {1, 2} /\ \E S : input.payload \in Seq(S) /\ 1 .. 2 \subseteq S
    <3>1. /\ input.schema_version \in {1, 2}
          /\ \E x : input.payload = <<x>>
      <4>1. ASSUME NEW a, NEW b, NEW c, NEW d, NEW v \in {1, 2}, NEW x, input = Event(a, b, c, d, v, <<x>>)
            PROVE  input.schema_version \in {1, 2} /\ input.payload = <<x>>
        BY <4>1 DEF Event
      <4> HIDE DEF Event
      <4>2. 1 \in {1, 2} /\ 2 \in {1, 2}
        OBVIOUS
      <4>3. \/ input = Event("MarketData.trade", "c2", "", 1, 2, <<"t">>)
            \/ input = Event("Decision.outcome", "c1", "s1", 2, 1, <<"buy">>)
            \/ input = Event("Decision.outcome", "c2", "", 2, 1, <<"sell">>)
        BY DEF Inputs
      <4> QED
        BY <4>1, <4>2, <4>3
    <3>2. ASSUME NEW x PROVE <<x>> \in Seq({x} \cup 1 .. 2) /\ 1 .. 2 \subseteq {x} \cup 1 .. 2
      OBVIOUS
    <3> QED
      BY <3>1, <3>2
  <2>8. \A i \in 1 .. n + 1 : i = n + 1 \/ i \in 1 .. n
    BY <2>4
  <2>9. e.schema_version \in {1, 2} /\ \E S : e.payload \in Seq(S) /\ 1 .. 2 \subseteq S
    BY <2>6, <2>7, Zenon
  <2>10. ASSUME NEW i \in 1 .. n + 1
         PROVE  /\ IsEntry(sealed'[i]) /\ sealed'[i].schema_version \in {1, 2}
                /\ \E S : sealed'[i].payload \in Seq(S) /\ 1 .. 2 \subseteq S
    <3>1. CASE i = n + 1
      BY <2>4, <2>5, <2>9, <3>1, Zenon
    <3>2. CASE i \in 1 .. n
      <4>1. sealed'[i] = sealed[i] /\ i \in 1 .. Len(sealed)
        BY <2>3, <2>4, <3>2
      <4> QED
        BY <4>1, Zenon DEF VersionsInv
    <3> QED
      BY <2>8, <3>1, <3>2
  <2> QED
    BY <2>4, <2>10, Zenon DEF VersionsInv
<1>3. \/ sealed' = sealed
      \/ \E input \in Inputs : sealed' = append(sealed, input)
  BY SourceStep DEF source, Tamper
<1> QED
  BY <1>1, <1>2, <1>3, Zenon

\* An event is brought from its version to the current one, a version at a time.
LEMMA EntryReachesCurrent ==
    ASSUME NEW e, IsEntry(e), e.schema_version \in {1, 2},
           NEW S, e.payload \in Seq(S), 1 .. 2 \subseteq S,
           NEW steps \in Registered
    PROVE  LET current == currentVersion(steps, e.schema_version)
               below == {v \in 1 .. 2 : e.schema_version <= v /\ v < current}
           IN below \subseteq {s.from : s \in ToSet(steps)} =>
                upcast(steps, e) = [e EXCEPT !.schema_version = Max({current, @}),
                                             !.payload = @ \o Filter(<<1, 2>>, below)]
<1>1. PICK v, p : v = e.schema_version /\ p = e.payload
  OBVIOUS
<1> DEFINE At(w, q) == [e EXCEPT !.schema_version = w, !.payload = q]
<1>2. v \in {1, 2} /\ p \in Seq(S) /\ 1 \in S /\ 2 \in S
  BY <1>1
<1>3. At(v, p) = e
  BY <1>1 DEF IsEntry
<1>4. Migrate(e, Early) = (IF v = 1 THEN At(2, Append(p, 1)) ELSE e) /\ Migrate(e, Late) = IF v = 2 THEN At(3, Append(p, 2)) ELSE e
  BY <1>1, <1>2 DEF Migrate, Early, Late, IsEntry
<1>5. Migrate(At(2, Append(p, 1)), Late) = At(3, Append(Append(p, 1), 2))
  BY <1>1 DEF Migrate, Late, IsEntry
<1>6. /\ p \o <<>> = p /\ p \o <<1>> = Append(p, 1) /\ p \o <<2>> = Append(p, 2)
      /\ p \o <<1, 2>> = Append(Append(p, 1), 2)
  <2>1. p \o <<>> = p /\ p \o <<1>> = Append(p, 1) /\ p \o <<2>> = Append(p, 2)
    BY <1>2, ConcatOne
  <2>2. p \o <<1, 2>> = Append(Append(p, 1), 2)
    <3>1. PICK t : t = <<1, 2>>
      OBVIOUS
    <3>2. t \in Seq(S) /\ Len(t) = 2 /\ t[1] = 1 /\ t[2] = 2
      BY <1>2, <3>1
    <3>3. PICK l, r : l = p \o t /\ r = Append(Append(p, 1), 2)
      OBVIOUS
    <3>4. /\ l \in Seq(S) /\ Len(p) \in Nat /\ Len(l) = Len(p) + 2
          /\ \A i \in 1 .. Len(p) : l[i] = p[i]
          /\ \A i \in 1 .. 2 : l[Len(p) + i] = t[i]
      <4>1. /\ p \o t \in Seq(S) /\ Len(p) \in Nat /\ Len(p \o t) = Len(p) + Len(t)
            /\ \A i \in 1 .. Len(p) : (p \o t)[i] = p[i]
            /\ \A i \in 1 .. Len(t) : (p \o t)[Len(p) + i] = t[i]
        BY <1>2, <3>2, ConcatFacts, SMTT(30)
      <4> QED
        BY <3>2, <3>3, <4>1, Zenon
    <3>5. PICK q : q = Append(p, 1)
      OBVIOUS
    <3>6. q \in Seq(S) /\ Len(q) = Len(p) + 1 /\ q[Len(p) + 1] = 1 /\ \A i \in 1 .. Len(p) : q[i] = p[i]
      BY <1>2, <3>5
    <3>7. r \in Seq(S) /\ Len(r) = Len(q) + 1 /\ r[Len(q) + 1] = 2 /\ \A i \in 1 .. Len(q) : r[i] = q[i]
      BY <1>2, <3>3, <3>5, <3>6
    <3>8. l[Len(p) + 1] = 1 /\ l[Len(p) + 2] = 2
      BY <3>2, <3>4
    <3>9. \A i \in 1 .. Len(l) : l[i] = r[i]
      BY <3>4, <3>6, <3>7, <3>8
    <3>10. l = r
      BY <3>4, <3>6, <3>7, <3>9, SameElements
    <3> QED
      BY <3>1, <3>3, <3>10, Zenon
  <2> QED
    BY <2>1, <2>2
<1>7. ASSUME NEW w, NEW q, NEW below
      PROVE  [e EXCEPT !.schema_version = Max({w, @}), !.payload = @ \o Filter(<<1, 2>>, below)]
               = At(Max({w, v}), p \o Filter(<<1, 2>>, below))
  BY <1>1, Zenon
<1>8. /\ \A w : DOMAIN <<w>> = {1} /\ <<w>>[1] = w
      /\ DOMAIN <<Early, Late>> = {1, 2} /\ <<Early, Late>>[1] = Early /\ <<Early, Late>>[2] = Late
  OBVIOUS
<1>9. ToSet(<<>>) = {} /\ ToSet(<<Early>>) = {Early} /\ ToSet(<<Late>>) = {Late} /\ ToSet(<<Early, Late>>) = {Early, Late}
  <2>1. ASSUME NEW t, DOMAIN t = {} PROVE ToSet(t) = {}
    BY <2>1 DEF ToSet
  <2>2. ASSUME NEW t, DOMAIN t = {1} PROVE ToSet(t) = {t[1]}
    BY <2>2 DEF ToSet
  <2>3. ASSUME NEW t, DOMAIN t = {1, 2} PROVE ToSet(t) = {t[1], t[2]}
    BY <2>3 DEF ToSet
  <2>4. DOMAIN <<>> = {}
    OBVIOUS
  <2> QED
    BY <1>8, <2>1, <2>2, <2>3, <2>4, Zenon
<1>10. Early.from = 1 /\ Early.to = 2 /\ Late.from = 2 /\ Late.to = 3
  BY DEF Early, Late
<1>11. /\ currentVersion(<<>>, v) = v
       /\ currentVersion(<<Early>>, v) = 2 /\ currentVersion(<<Late>>, v) = 3 /\ currentVersion(<<Early, Late>>, v) = 3
  <2>1. ASSUME NEW t, t # <<>> PROVE currentVersion(t, v) = Max({s.to : s \in ToSet(t)})
    BY <2>1, Zenon DEF currentVersion
  <2>2. <<Early>> # <<>> /\ <<Late>> # <<>> /\ <<Early, Late>> # <<>>
    OBVIOUS
  <2>3. currentVersion(<<>>, v) = v
    BY Zenon DEF currentVersion
  <2>4. /\ {s.to : s \in {Early}} = {2} /\ {s.to : s \in {Late}} = {3} /\ {s.to : s \in {Early, Late}} = {2, 3}
    BY <1>10
  <2>5. Max({2}) = 2 /\ Max({3}) = 3 /\ Max({2, 3}) = 3
    BY ShortMax
  <2> HIDE DEF Max
  <2>6. currentVersion(<<Early>>, v) = Max({2}) /\ currentVersion(<<Late>>, v) = Max({3})
    BY <1>9, <2>1, <2>2, <2>4, Zenon
  <2>7. currentVersion(<<Early, Late>>, v) = Max({2, 3})
    BY <1>9, <2>1, <2>2, <2>4, Zenon
  <2> QED
    BY <2>3, <2>5, <2>6, <2>7, Zenon
<1>12. /\ FoldLeft(Migrate, e, <<Early>>) = Migrate(e, Early)
       /\ FoldLeft(Migrate, e, <<Late>>) = Migrate(e, Late)
       /\ FoldLeft(Migrate, e, <<Early, Late>>) = Migrate(Migrate(e, Early), Late)
  <2>1. 1 .. 1 = {1} /\ 1 .. 2 = {1, 2} /\ 1 \in 0 .. 2 /\ 2 \in 0 .. 2
    OBVIOUS
  <2>2. ASSUME NEW t, DOMAIN t = {1} PROVE FoldLeft(Migrate, e, t) = Migrate(e, t[1])
    BY <2>1, <2>2, MigrateFold
  <2>3. ASSUME NEW t, DOMAIN t = {1, 2} PROVE FoldLeft(Migrate, e, t) = Migrate(Migrate(e, t[1]), t[2])
    BY <2>1, <2>3, MigrateFold
  <2> HIDE DEF FoldLeft, Migrate
  <2> QED
    BY <1>8, <2>2, <2>3, Zenon
<1>13. ASSUME NEW c, c = currentVersion(steps, v)
       PROVE  upcast(steps, e) = IF v >= c THEN e ELSE FoldLeft(Migrate, e, steps)
  BY <1>1, <1>13, Zenon DEF upcast
<1> DEFINE Below(c) == {w \in 1 .. 2 : v <= w /\ w < c}
           Reaches(c) == Below(c) \subseteq {s.from : s \in ToSet(steps)} =>
                           upcast(steps, e) = At(Max({c, v}), p \o Filter(<<1, 2>>, Below(c)))
<1>14. ASSUME NEW c, c = currentVersion(steps, v), Reaches(c)
       PROVE  LET current == currentVersion(steps, e.schema_version)
                  below == {w \in 1 .. 2 : e.schema_version <= w /\ w < current}
              IN below \subseteq {s.from : s \in ToSet(steps)} =>
                   upcast(steps, e) = [e EXCEPT !.schema_version = Max({current, @}),
                                                !.payload = @ \o Filter(<<1, 2>>, below)]
  <2>1. {w \in 1 .. 2 : e.schema_version <= w /\ w < currentVersion(steps, e.schema_version)} = Below(c)
    BY <1>1, <1>14, Zenon
  <2>2. currentVersion(steps, e.schema_version) = c
    BY <1>1, <1>14, Zenon
  <2>3. PICK b : b = Below(c)
    OBVIOUS
  <2>4. b \subseteq {s.from : s \in ToSet(steps)} => upcast(steps, e) = At(Max({c, v}), p \o Filter(<<1, 2>>, b))
    BY <1>14, <2>3, Zenon
  <2>5. [e EXCEPT !.schema_version = Max({c, @}), !.payload = @ \o Filter(<<1, 2>>, b)]
          = At(Max({c, v}), p \o Filter(<<1, 2>>, b))
    BY <1>7
  <2> HIDE DEF At, Below, Max
  <2> QED
    BY <2>1, <2>2, <2>3, <2>4, <2>5, Zenon
<1> HIDE DEF Max
<1>16. Max({1, 1}) = 1 /\ Max({2, 2}) = 2 /\ Max({2, 1}) = 2 /\ Max({3, 1}) = 3 /\ Max({3, 2}) = 3
  BY ShortMax
<1>17. CASE steps = <<>>
  <2>1. Below(v) = {} /\ v >= v /\ Max({v, v}) = v
    <3>1. Below(v) = {} /\ v >= v
      BY <1>2
    <3>2. Max({v, v}) = v
      BY <1>2, <1>16
    <3> QED
      BY <3>1, <3>2
  <2>2. upcast(steps, e) = e
    BY <1>11, <1>13, <1>17, <2>1, Zenon
  <2>3. p \o Filter(<<1, 2>>, {}) = p
    BY <1>6, VersionsBelow, Zenon
  <2>4. Reaches(v)
    <3> HIDE DEF At, Below
    <3> QED
      BY <1>3, <2>1, <2>2, <2>3, Zenon
  <2> QED
    BY <1>11, <1>14, <1>17, <2>4, Zenon
<1>18. CASE steps = <<Early>>
  <2>1. 2 = currentVersion(steps, v)
    BY <1>11, <1>18, Zenon
  <2>2. CASE v = 1
    <3>1. Below(2) = {1} /\ ~(v >= 2) /\ Max({2, v}) = 2
      BY <1>16, <2>2
    <3>2. upcast(steps, e) = At(2, Append(p, 1))
      <4> HIDE DEF At
      <4> QED
        BY <1>4, <1>12, <1>13, <1>18, <2>1, <2>2, <3>1, Zenon
    <3>3. p \o Filter(<<1, 2>>, {1}) = Append(p, 1)
      BY <1>6, VersionsBelow, Zenon
    <3> HIDE DEF At, Below
    <3> QED
      BY <1>14, <2>1, <3>1, <3>2, <3>3, Zenon
  <2>3. CASE v = 2
    <3>1. Below(2) = {} /\ v >= 2 /\ Max({2, v}) = v
      BY <1>16, <2>3
    <3>2. upcast(steps, e) = e
      BY <1>13, <2>1, <3>1, Zenon
    <3>3. p \o Filter(<<1, 2>>, {}) = p
      BY <1>6, VersionsBelow, Zenon
    <3>4. Reaches(2)
      <4> HIDE DEF At, Below
      <4> QED
        BY <1>3, <3>1, <3>2, <3>3, Zenon
    <3> QED
      BY <1>14, <2>1, <3>4, Zenon
  <2> QED
    BY <1>2, <2>2, <2>3
<1>19. CASE steps = <<Late>>
  <2>1. 3 = currentVersion(steps, v)
    BY <1>11, <1>19, Zenon
  <2>2. CASE v = 1
    <3>1. 1 \in Below(3) /\ 1 \notin {s.from : s \in ToSet(steps)}
      BY <1>9, <1>10, <1>19, <2>2
    <3>2. Reaches(3)
      <4> HIDE DEF At, Below
      <4> QED
        BY <3>1, Zenon
    <3> QED
      BY <1>14, <2>1, <3>2, Zenon
  <2>3. CASE v = 2
    <3>1. Below(3) = {2} /\ ~(v >= 3) /\ Max({3, v}) = 3
      BY <1>16, <2>3
    <3>2. upcast(steps, e) = At(3, Append(p, 2))
      <4> HIDE DEF At
      <4> QED
        BY <1>4, <1>12, <1>13, <1>19, <2>1, <2>3, <3>1, Zenon
    <3>3. p \o Filter(<<1, 2>>, {2}) = Append(p, 2)
      BY <1>6, VersionsBelow, Zenon
    <3>4. Reaches(3)
      <4> HIDE DEF At, Below
      <4> QED
        BY <3>1, <3>2, <3>3, Zenon
    <3> QED
      BY <1>14, <2>1, <3>4, Zenon
  <2> QED
    BY <1>2, <2>2, <2>3
<1>20. CASE steps = <<Early, Late>>
  <2>1. 3 = currentVersion(steps, v) /\ FoldLeft(Migrate, e, steps) = Migrate(Migrate(e, Early), Late)
    BY <1>11, <1>12, <1>20, Zenon
  <2>2. CASE v = 1
    <3>1. Below(3) = {1, 2} /\ ~(v >= 3) /\ Max({3, v}) = 3
      BY <1>16, <2>2
    <3>2. upcast(steps, e) = At(3, Append(Append(p, 1), 2))
      <4> HIDE DEF At
      <4> QED
        BY <1>4, <1>5, <1>13, <2>1, <2>2, <3>1, Zenon
    <3>3. p \o Filter(<<1, 2>>, {1, 2}) = Append(Append(p, 1), 2)
      BY <1>6, VersionsBelow, Zenon
    <3>4. Reaches(3)
      <4> HIDE DEF At, Below
      <4> QED
        BY <3>1, <3>2, <3>3, Zenon
    <3> QED
      BY <1>14, <2>1, <3>4, Zenon
  <2>3. CASE v = 2
    <3>1. Below(3) = {2} /\ ~(v >= 3) /\ Max({3, v}) = 3 /\ v # 1
      BY <1>16, <2>3
    <3>2. upcast(steps, e) = At(3, Append(p, 2))
      <4> HIDE DEF At
      <4> QED
        BY <1>4, <1>13, <2>1, <2>3, <3>1, Zenon
    <3>3. p \o Filter(<<1, 2>>, {2}) = Append(p, 2)
      BY <1>6, VersionsBelow, Zenon
    <3>4. Reaches(3)
      <4> HIDE DEF At, Below
      <4> QED
        BY <3>1, <3>2, <3>3, Zenon
    <3> QED
      BY <1>14, <2>1, <3>4, Zenon
  <2> QED
    BY <1>2, <2>2, <2>3
<1> QED
  BY <1>17, <1>18, <1>19, <1>20 DEF Registered

\* History is read as it was written, for a log of any length: tampering shows,
\* whatever was altered and whatever came after it, and an event of any version
\* is brought to the current one by every step from its own version on, once and
\* in ascending order, in whatever order the steps were registered
\* (InMemoryEventStore.verifyChain, UpcasterRegistry.upcast).
THEOREM HistoryHolds == Spec => []HistoryIsIntact
<1>1. Init => VersionsInv
  <2>1. <<>> \in Seq({}) /\ Len(<<>>) = 0
    OBVIOUS
  <2> QED
    BY <2>1 DEF Init, VersionsInv, IsSeq
<1>2. VersionsInv => UpcastReachesCurrent
  <2> SUFFICES ASSUME VersionsInv, NEW e \in ToSet(sealed), NEW order \in SetToAllKPermutations(Migrations)
               PROVE  LET steps == FoldLeft(register, <<>>, order)
                          current == currentVersion(steps, e.schema_version)
                          below == {v \in 1 .. 2 : e.schema_version <= v /\ v < current}
                      IN below \subseteq {s.from : s \in ToSet(steps)} =>
                           upcast(steps, e) = [e EXCEPT !.schema_version = Max({current, @}),
                                                        !.payload = @ \o Filter(<<1, 2>>, below)]
    BY Zenon DEF UpcastReachesCurrent
  <2>1. PICK steps : steps = FoldLeft(register, <<>>, order)
    OBVIOUS
  <2>2. steps \in Registered
    BY <2>1, RegistryIsSorted
  <2>3. PICK i \in 1 .. Len(sealed) : e = sealed[i]
    BY AppendIs DEF VersionsInv, ToSet
  <2>4. PICK S : IsEntry(e) /\ e.schema_version \in {1, 2} /\ e.payload \in Seq(S) /\ 1 .. 2 \subseteq S
    BY <2>3, Zenon DEF VersionsInv
  <2>5. LET current == currentVersion(steps, e.schema_version)
            below == {v \in 1 .. 2 : e.schema_version <= v /\ v < current}
        IN below \subseteq {s.from : s \in ToSet(steps)} =>
             upcast(steps, e) = [e EXCEPT !.schema_version = Max({current, @}),
                                          !.payload = @ \o Filter(<<1, 2>>, below)]
    BY <2>2, <2>4, EntryReachesCurrent
  <2> QED
    BY <2>1, <2>5, Zenon
<1>3. VersionsInv /\ [Next]_vars => VersionsInv'
  BY VersionsKept
<1>4. ChainDetectsTampering /\ UpcastReachesCurrent => HistoryIsIntact
  BY Zenon DEF HistoryIsIntact
<1>5. Spec => []UpcastReachesCurrent
  BY <1>1, <1>2, <1>3, PTL DEF Spec
<1> QED
  BY <1>4, <1>5, ChainShowsTampering, PTL
=============================================================================
