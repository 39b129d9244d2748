--------------------------- MODULE IngesterProofs ---------------------------
(***************************************************************************)
(* Theorems about the ingester, for any submissions, numbers of events,    *)
(* read sizes and numbers of crashes.                                      *)
(***************************************************************************)
EXTENDS Ingester, OperatorProofs

---------------------------------------------------------------------------
(* Offsets. *)

\* Every event of s up to n has been counted, or is no longer there to count.
CountedUpTo(s, n) ==
  \A i \in 1..n : i \in DOMAIN times[s] /\ (times[s][i] >= 1 \/ i <= trimmed[s])

OffsetTypes ==
  /\ stream \in [Subs -> Seq(BOOLEAN)]
  /\ times \in [Subs -> Seq(Nat)]
  /\ savedOffset \in [Subs -> Nat] /\ lastId \in [Subs -> Nat] /\ got \in [Subs -> Nat]
  /\ trimmed \in [Subs -> Nat] /\ from \in [Subs -> Nat]
  /\ \A s \in Subs : trimmed[s] <= Len(stream[s])
  /\ \A s \in Subs : Len(times[s]) = Len(stream[s]) /\ lastId[s] <= Len(stream[s])
  /\ consumer = "save" => saving \in Subs
  /\ crashes \in Nat

\* What xread returned lies after last_ids (until they move over it), at most the
\* trimmed events beyond it, and before the end of the stream.
ReadAhead ==
  \A s \in Subs : got[s] # 0 => /\ consumer \in {"process", "save"}
                                /\ lastId[s] <= got[s] /\ got[s] <= Len(stream[s])
                                /\ from[s] <= got[s]
                                /\ \/ lastId[s] <= from[s]
                                   \/ consumer = "save" /\ saving = s
                                /\ from[s] <= lastId[s] \/ from[s] <= trimmed[s]

\* Both the durable offset and the one in memory cover counted events only.
OffsetsCovered ==
  \A s \in Subs : /\ savedOffset[s] <= Len(stream[s])
                  /\ CountedUpTo(s, savedOffset[s]) /\ CountedUpTo(s, lastId[s])

\* Before the offsets are loaded this process has counted nothing; after that,
\* only what last_ids covers.
CountedHere ==
  \A s \in Subs : \A i \in DOMAIN times[s] :
    /\ times[s][i] <= 1 + crashes
    /\ consumer \in {"down", "load"} \/ i > lastId[s] => times[s][i] <= crashes

OffsetInv == OffsetTypes /\ ReadAhead /\ OffsetsCovered /\ CountedHere

LEMMA AppendFacts ==
  ASSUME NEW S, NEW h \in Seq(S), NEW x \in S
  PROVE  /\ Append(h, x) \in Seq(S) /\ Len(Append(h, x)) = Len(h) + 1 /\ Len(h) \in Nat
         /\ \A i \in DOMAIN h : i \in DOMAIN Append(h, x) /\ Append(h, x)[i] = h[i]
         /\ \A i \in DOMAIN Append(h, x) : i \in DOMAIN h \/ Append(h, x)[i] = x
OBVIOUS

LEMMA OffsetsInit == Init => OffsetInv
PROOF
<1> SUFFICES ASSUME Init PROVE OffsetInv
  OBVIOUS
<1>1. OffsetTypes
  <2>1. <<>> \in Seq(BOOLEAN) /\ <<>> \in Seq(Nat) /\ Len(<<>>) = 0
    OBVIOUS
  <2> QED BY <2>1 DEF Init, OffsetTypes, Zero
<1>2. ReadAhead /\ OffsetsCovered /\ CountedHere
  BY DEF Init, ReadAhead, OffsetsCovered, CountedUpTo, CountedHere, Zero
<1> QED BY <1>1, <1>2 DEF OffsetInv

LEMMA EmitOffsets ==
  ASSUME OffsetInv, NEW s \in Subs, NEW acked \in BOOLEAN, Emit(s, acked)
  PROVE  OffsetInv'
PROOF
<1>1. /\ stream' = [stream EXCEPT ![s] = Append(@, acked)]
      /\ times' = [times EXCEPT ![s] = Append(@, 0)]
      /\ UNCHANGED <<savedOffset, lastId, from, got, saving, consumer, crashes>>
  BY DEF Emit, processVars, consumeVars
<1>2. \A q \in Subs : /\ stream'[q] = IF q = s THEN Append(stream[q], acked) ELSE stream[q]
                      /\ times'[q] = IF q = s THEN Append(times[q], 0) ELSE times[q]
  BY <1>1 DEF OffsetInv, OffsetTypes
<1>3. \A q \in Subs : /\ stream[q] \in Seq(BOOLEAN) /\ times[q] \in Seq(Nat)
                      /\ Len(times[q]) = Len(stream[q])
  BY DEF OffsetInv, OffsetTypes
<1>a. \A q \in Subs : /\ Append(stream[q], acked) \in Seq(BOOLEAN)
                      /\ Len(Append(stream[q], acked)) = Len(stream[q]) + 1
                      /\ Len(stream[q]) \in Nat
  BY <1>3, AppendFacts
<1>b. \A q \in Subs : /\ Append(times[q], 0) \in Seq(Nat)
                      /\ Len(Append(times[q], 0)) = Len(times[q]) + 1
  BY <1>3, AppendFacts
<1>4. \A q \in Subs : /\ stream'[q] \in Seq(BOOLEAN) /\ times'[q] \in Seq(Nat)
                      /\ Len(times'[q]) = Len(stream'[q])
                      /\ Len(stream'[q]) >= Len(stream[q])
  <2> TAKE q \in Subs
  <2>1. CASE q = s
    <3>1. stream'[q] = Append(stream[q], acked) /\ times'[q] = Append(times[q], 0)
      BY <1>2, <2>1
    <3> QED BY <1>3, <1>a, <1>b, <3>1
  <2>2. CASE q # s
    <3>1. stream'[q] = stream[q] /\ times'[q] = times[q]
      BY <1>2, <2>2
    <3> QED BY <1>3, <1>a, <3>1
  <2> QED BY <2>1, <2>2
<1>5. \A q \in Subs : \A i \in DOMAIN times[q] :
        i \in DOMAIN times'[q] /\ times'[q][i] = times[q][i]
  <2>1. \A q \in Subs : \A i \in DOMAIN times[q] :
          i \in DOMAIN Append(times[q], 0) /\ Append(times[q], 0)[i] = times[q][i]
    BY <1>3, AppendFacts
  <2> QED BY <1>2, <2>1
<1>6. \A q \in Subs : \A i \in DOMAIN times'[q] : i \in DOMAIN times[q] \/ times'[q][i] = 0
  <2>1. \A q \in Subs : \A i \in DOMAIN Append(times[q], 0) :
          i \in DOMAIN times[q] \/ Append(times[q], 0)[i] = 0
    BY <1>3, AppendFacts
  <2> QED BY <1>2, <2>1
<1>c. \A q \in Subs : /\ Len(stream'[q]) \in Nat /\ Len(stream[q]) \in Nat
                      /\ trimmed[q] \in Nat /\ trimmed[q] <= Len(stream[q])
                      /\ trimmed[q] <= Len(stream'[q])
  <2>1. \A q \in Subs : /\ trimmed[q] \in Nat /\ trimmed[q] <= Len(stream[q])
                        /\ lastId[q] <= Len(stream[q])
    BY DEF OffsetInv, OffsetTypes
  <2>2. \A q \in Subs : Len(stream'[q]) \in Nat /\ Len(stream[q]) \in Nat
    BY <1>3, <1>4
  <2> QED BY <1>4, <2>1, <2>2
<1>d. /\ trimmed' \in [Subs -> Nat]
      /\ \A q \in Subs : trimmed[q] <= trimmed'[q] /\ trimmed'[q] <= Len(stream'[q])
  <2>0. trimmed \in [Subs -> Nat]
    BY DEF OffsetInv, OffsetTypes
  <2>1. CASE UNCHANGED trimmed
    BY <1>c, <2>0, <2>1
  <2>2. CASE \E n \in trimmed[s] + 1..Len(stream[s]) + 1 :
               n + MaxLen <= Len(stream[s]) + 1 /\ trimmed' = [trimmed EXCEPT ![s] = n]
    <3>1. PICK n \in trimmed[s] + 1..Len(stream[s]) + 1 : trimmed' = [trimmed EXCEPT ![s] = n]
      BY <2>2
    <3>2. Len(stream'[s]) = Len(stream[s]) + 1
      BY <1>2, <1>a
    <3>3. n \in Nat /\ trimmed[s] <= n /\ n <= Len(stream'[s])
      BY <1>c, <3>1, <3>2
    <3>4. \A q \in Subs : trimmed'[q] = IF q = s THEN n ELSE trimmed[q]
      BY <2>0, <3>1
    <3>5. trimmed' \in [Subs -> Nat]
      BY <2>0, <3>1, <3>3
    <3> QED BY <1>c, <3>3, <3>4, <3>5
  <2> QED BY <2>1, <2>2 DEF Emit
<1>7. OffsetTypes'
  <2>1. /\ savedOffset' \in [Subs -> Nat] /\ lastId' \in [Subs -> Nat]
        /\ got' \in [Subs -> Nat] /\ from' \in [Subs -> Nat]
        /\ consumer' = "save" => saving' \in Subs
        /\ crashes' \in Nat
    BY <1>1 DEF OffsetInv, OffsetTypes
  <2>2. stream' \in [Subs -> Seq(BOOLEAN)] /\ times' \in [Subs -> Seq(Nat)]
    BY <1>1, <1>4 DEF OffsetInv, OffsetTypes
  <2>3. \A q \in Subs : Len(times'[q]) = Len(stream'[q]) /\ lastId'[q] <= Len(stream'[q])
    <3>1. \A q \in Subs : lastId'[q] \in Nat /\ lastId'[q] <= Len(stream[q])
      BY <1>1 DEF OffsetInv, OffsetTypes
    <3> QED BY <1>4, <1>c, <3>1
  <2> QED BY <1>d, <2>1, <2>2, <2>3 DEF OffsetTypes
<1>e. \A q \in Subs : /\ from[q] \in Nat /\ got[q] \in Nat /\ lastId[q] \in Nat
                      /\ savedOffset[q] \in Nat /\ trimmed'[q] \in Nat
  BY <1>7, <1>1 DEF OffsetInv, OffsetTypes
<1>8. ReadAhead'
  BY <1>1, <1>4, <1>c, <1>d, <1>e, SMTT(30) DEF OffsetInv, ReadAhead
<1>9. OffsetsCovered'
  <2>1. \A q \in Subs : savedOffset'[q] <= Len(stream'[q])
    <3>1. \A q \in Subs : savedOffset[q] <= Len(stream[q])
      BY DEF OffsetInv, OffsetsCovered
    <3> QED BY <1>1, <1>4, <1>c, <1>e, <3>1
  <2>2. \A q \in Subs : CountedUpTo(q, savedOffset[q]) /\ CountedUpTo(q, lastId[q])
    BY DEF OffsetInv, OffsetsCovered
  <2>3. \A q \in Subs : CountedUpTo(q, savedOffset[q])' /\ CountedUpTo(q, lastId[q])'
    <3> TAKE q \in Subs
    <3>1. CountedUpTo(q, savedOffset[q]) /\ CountedUpTo(q, lastId[q])
      BY <2>2
    <3>2. \A i \in 1..savedOffset[q] : i \in DOMAIN times'[q] /\ (times'[q][i] >= 1 \/ i <= trimmed'[q])
      BY <1>5, <1>c, <1>d, <1>e, <3>1 DEF CountedUpTo
    <3>3. \A i \in 1..lastId[q] : i \in DOMAIN times'[q] /\ (times'[q][i] >= 1 \/ i <= trimmed'[q])
      BY <1>5, <1>c, <1>d, <1>e, <3>1 DEF CountedUpTo
    <3> QED BY <1>1, <3>2, <3>3 DEF CountedUpTo
  <2> QED BY <2>1, <2>3 DEF OffsetsCovered
<1>10. CountedHere'
  <2>1. crashes \in Nat /\ CountedHere
    BY DEF OffsetInv, OffsetTypes
  <2> QED BY <1>1, <1>5, <1>6, <2>1 DEF CountedHere
<1> QED BY <1>7, <1>8, <1>9, <1>10 DEF OffsetInv

LEMMA LoadOffsetsInv == OffsetInv /\ LoadOffsets => OffsetInv'
PROOF
<1> SUFFICES ASSUME OffsetInv, LoadOffsets PROVE OffsetInv'
  OBVIOUS
<1>1. /\ consumer = "load" /\ lastId' = savedOffset /\ consumer' = "read"
      /\ UNCHANGED <<stream, trimmed, savedOffset, from, got, saving, times, crashes>>
  BY DEF LoadOffsets, redisVars, observed
<1>2. OffsetTypes'
  BY <1>1 DEF OffsetInv, OffsetTypes, OffsetsCovered
<1>3. OffsetsCovered' /\ CountedHere'
  BY <1>1 DEF OffsetInv, OffsetsCovered, CountedUpTo, CountedHere
<1> QED BY <1>1, <1>2, <1>3 DEF OffsetInv, ReadAhead, OffsetsCovered

LEMMA ReadStreamsInv == OffsetInv /\ ReadStreams => OffsetInv'
PROOF
<1> SUFFICES ASSUME OffsetInv, ReadStreams PROVE OffsetInv'
  OBVIOUS
<1>1. /\ consumer = "read" /\ consumer' = "process"
      /\ from' = [s \in Subs |-> ReadAfter(s)]
      /\ got' = [s \in Subs |-> IF ReadAfter(s) = Len(stream[s]) THEN 0
                                ELSE ReadUpTo(ReadAfter(s), Len(stream[s]))]
      /\ UNCHANGED <<stream, trimmed, savedOffset, lastId, saving, times, crashes>>
  BY DEF ReadStreams, redisVars, processVars, observed
<1>2. \A s \in Subs : /\ lastId[s] \in Nat /\ Len(stream[s]) \in Nat /\ trimmed[s] \in Nat
                      /\ lastId[s] <= Len(stream[s]) /\ trimmed[s] <= Len(stream[s])
  BY DEF OffsetInv, OffsetTypes
<1>a. \A s \in Subs : /\ ReadAfter(s) \in Nat /\ lastId[s] <= ReadAfter(s)
                      /\ ReadAfter(s) <= Len(stream[s])
                      /\ ReadAfter(s) <= lastId[s] \/ ReadAfter(s) <= trimmed[s]
  BY <1>2 DEF ReadAfter
<1> HIDE DEF ReadAfter
<1>3. \A s \in Subs : /\ got'[s] \in Nat /\ from'[s] = ReadAfter(s)
                      /\ got'[s] # 0 => /\ lastId[s] <= got'[s] /\ got'[s] <= Len(stream[s])
                                        /\ ReadAfter(s) <= got'[s]
  BY <1>1, <1>2, <1>a, ReadCountAssumption DEF ReadUpTo
<1>4. OffsetTypes'
  BY <1>1, <1>3, <1>a DEF OffsetInv, OffsetTypes
<1>5. ReadAhead'
  BY <1>1, <1>3, <1>a DEF ReadAhead
<1>6. OffsetsCovered' /\ CountedHere'
  BY <1>1 DEF OffsetInv, OffsetsCovered, CountedUpTo, CountedHere
<1> QED BY <1>4, <1>5, <1>6 DEF OffsetInv

\* Counting moves last_ids over exactly the events it counts.
LEMMA ProcessInv == ASSUME OffsetInv, NEW s \in Subs, ProcessMessages(s) PROVE OffsetInv'
PROOF
<1>1. /\ consumer = "process" /\ consumer' = "save" /\ got[s] # 0
      /\ times' = [times EXCEPT ![s] = [i \in DOMAIN @ |->
                     IF i \in (from[s] + 1)..got[s] THEN @[i] + 1 ELSE @[i]]]
      /\ lastId' = [lastId EXCEPT ![s] = got[s]]
      /\ saving' = s
      /\ UNCHANGED <<stream, trimmed, savedOffset, from, got, crashes>>
  BY DEF ProcessMessages, redisVars
<1>2. \A q \in Subs : /\ stream[q] \in Seq(BOOLEAN) /\ times[q] \in Seq(Nat)
                      /\ Len(times[q]) = Len(stream[q]) /\ Len(stream[q]) \in Nat
                      /\ lastId[q] \in Nat /\ got[q] \in Nat /\ savedOffset[q] \in Nat
                      /\ from[q] \in Nat /\ trimmed[q] \in Nat
                      /\ DOMAIN times[q] = 1..Len(stream[q])
  BY DEF OffsetInv, OffsetTypes
<1>3. /\ lastId[s] <= got[s] /\ got[s] <= Len(stream[s]) /\ from[s] <= got[s]
      /\ lastId[s] <= from[s] /\ (from[s] <= lastId[s] \/ from[s] <= trimmed[s])
  BY <1>1 DEF OffsetInv, ReadAhead
<1> DEFINE new == [i \in 1..Len(stream[s]) |->
                     IF i \in (from[s] + 1)..got[s] THEN times[s][i] + 1 ELSE times[s][i]]
<1>4. /\ \A q \in Subs : /\ times'[q] = IF q = s THEN new ELSE times[q]
                         /\ lastId'[q] = IF q = s THEN got[s] ELSE lastId[q]
      /\ times' \in [Subs -> Seq(Nat)] /\ lastId' \in [Subs -> Nat]
  <2>1. \A i \in 1..Len(stream[s]) : new[i] \in Nat
    BY <1>2
  <2>2. new \in Seq(Nat)
    BY <1>2, <2>1
  <2>3. times' = [times EXCEPT ![s] = new]
    BY <1>1, <1>2
  <2> HIDE DEF new
  <2> QED BY <1>1, <1>2, <2>2, <2>3 DEF OffsetInv, OffsetTypes
<1>5. Len(new) = Len(stream[s]) /\ DOMAIN new = 1..Len(stream[s])
  BY <1>2
<1>6. OffsetTypes'
  <2> HIDE DEF new
  <2> QED BY <1>1, <1>2, <1>3, <1>4, <1>5 DEF OffsetInv, OffsetTypes
<1>7. ReadAhead'
  BY <1>1, <1>2, <1>3, <1>4 DEF OffsetInv, ReadAhead
<1>8. \A i \in 1..Len(stream[s]) :
        /\ new[i] \in Nat /\ times[s][i] \in Nat
        /\ new[i] >= times[s][i] /\ new[i] <= times[s][i] + 1
        /\ i > lastId[s] /\ i <= got[s] => new[i] >= 1 \/ i <= trimmed[s]
        /\ i > got[s] \/ i <= lastId[s] => new[i] = times[s][i]
  <2> SUFFICES ASSUME NEW i \in 1..Len(stream[s])
               PROVE  /\ new[i] \in Nat /\ times[s][i] \in Nat
                      /\ new[i] >= times[s][i] /\ new[i] <= times[s][i] + 1
                      /\ i > lastId[s] /\ i <= got[s] => new[i] >= 1 \/ i <= trimmed[s]
                      /\ i > got[s] \/ i <= lastId[s] => new[i] = times[s][i]
    OBVIOUS
  <2>1. times[s][i] \in Nat
    BY <1>2
  <2>2. CASE i \in (from[s] + 1)..got[s]
    <3>1. new[i] = times[s][i] + 1
      BY <2>2
    <3>2. i <= got[s] /\ i > lastId[s]
      BY <1>2, <1>3, <2>2
    <3> HIDE DEF new
    <3> QED BY <1>2, <2>1, <3>1, <3>2, SMTT(30)
  <2>3. CASE i \notin (from[s] + 1)..got[s]
    <3>1. new[i] = times[s][i]
      BY <2>3
    <3>2. i > lastId[s] /\ i <= got[s] => i <= trimmed[s]
      BY <1>2, <1>3, <2>3
    <3> HIDE DEF new
    <3> QED BY <2>1, <3>1, <3>2
  <2> QED BY <2>2, <2>3
<1> HIDE DEF new
<1>9. OffsetsCovered'
  <2> SUFFICES ASSUME NEW q \in Subs
               PROVE  /\ savedOffset[q] <= Len(stream[q])
                      /\ \A i \in 1..savedOffset[q] :
                           i \in DOMAIN times'[q] /\ (times'[q][i] >= 1 \/ i <= trimmed[q])
                      /\ \A i \in 1..lastId'[q] :
                           i \in DOMAIN times'[q] /\ (times'[q][i] >= 1 \/ i <= trimmed[q])
    BY <1>1 DEF OffsetsCovered, CountedUpTo
  <2>1. /\ savedOffset[q] <= Len(stream[q])
        /\ \A i \in 1..savedOffset[q] :
             i \in DOMAIN times[q] /\ (times[q][i] >= 1 \/ i <= trimmed[q])
        /\ \A i \in 1..lastId[q] :
             i \in DOMAIN times[q] /\ (times[q][i] >= 1 \/ i <= trimmed[q])
    BY DEF OffsetInv, OffsetsCovered, CountedUpTo
  <2>2. CASE q # s
    BY <1>4, <2>1, <2>2
  <2>3. CASE q = s
    <3>1. \A i \in 1..savedOffset[s] : i \in DOMAIN new /\ (new[i] >= 1 \/ i <= trimmed[s])
      <4> TAKE i \in 1..savedOffset[s]
      <4>1. i \in 1..Len(stream[s]) /\ (times[s][i] >= 1 \/ i <= trimmed[s])
        BY <1>2, <2>1, <2>3
      <4>2. new[i] \in Nat /\ times[s][i] \in Nat /\ new[i] >= times[s][i]
        BY <1>8, <4>1
      <4> QED BY <1>5, <4>1, <4>2
    <3>2. \A i \in 1..got[s] : i \in DOMAIN new /\ (new[i] >= 1 \/ i <= trimmed[s])
      <4> TAKE i \in 1..got[s]
      <4>1. i \in 1..Len(stream[s])
        BY <1>2, <1>3
      <4>2. CASE i <= lastId[s]
        BY <1>2, <1>5, <1>8, <2>1, <2>3, <4>1, <4>2
      <4>3. CASE i > lastId[s]
        BY <1>2, <1>5, <1>8, <4>1, <4>3
      <4> QED BY <1>2, <4>2, <4>3
    <3> QED BY <1>4, <2>1, <2>3, <3>1, <3>2
  <2> QED BY <2>2, <2>3
<1>10. CountedHere'
  <2> SUFFICES ASSUME NEW q \in Subs, NEW i \in DOMAIN times'[q]
               PROVE  /\ times'[q][i] <= 1 + crashes
                      /\ i > lastId'[q] => times'[q][i] <= crashes
    BY <1>1 DEF CountedHere
  <2>1. \A j \in DOMAIN times[q] : /\ times[q][j] <= 1 + crashes
                                   /\ j > lastId[q] => times[q][j] <= crashes
    BY DEF OffsetInv, CountedHere
  <2>2. CASE q # s
    <3>1. times'[q] = times[q] /\ lastId'[q] = lastId[q]
      BY <1>4, <2>2
    <3> QED BY <2>1, <3>1
  <2>3. CASE q = s
    <3>1. i \in 1..Len(stream[s]) /\ i \in DOMAIN times[s] /\ crashes \in Nat
      BY <1>2, <1>4, <1>5, <2>3 DEF OffsetInv, OffsetTypes
    <3>0. times'[q][i] = new[i] /\ lastId'[q] = got[s]
      BY <1>4, <2>3
    <3>2. CASE i <= lastId[s]
      <4>1. times'[q][i] = times[s][i]
        BY <1>8, <3>0, <3>1, <3>2
      <4>2. times[s][i] <= 1 + crashes
        BY <2>1, <2>3, <3>1
      <4>3. ~(i > lastId'[q])
        BY <1>2, <1>3, <3>0, <3>1, <3>2
      <4> QED BY <4>1, <4>2, <4>3
    <3>3. CASE i > lastId[s]
      <4>1. times'[q][i] = new[i] /\ lastId'[q] = got[s]
        BY <3>0
      <4>2. times[s][i] <= crashes /\ times[s][i] \in Nat
        BY <1>2, <2>1, <2>3, <3>1, <3>3
      <4>3. /\ new[i] \in Nat /\ new[i] <= times[s][i] + 1
            /\ i > got[s] => new[i] = times[s][i]
        BY <1>8, <3>1
      <4> QED BY <3>1, <4>1, <4>2, <4>3
    <3> QED BY <1>2, <3>1, <3>2, <3>3
  <2> QED BY <2>2, <2>3
<1> QED BY <1>6, <1>7, <1>9, <1>10 DEF OffsetInv

LEMMA SaveOffsetInv == OffsetInv /\ SaveOffset => OffsetInv'
PROOF
<1> SUFFICES ASSUME OffsetInv, SaveOffset PROVE OffsetInv'
  OBVIOUS
<1>1. /\ consumer = "save" /\ consumer' \in {"process", "read"} /\ saving \in Subs
      /\ consumer' = "read" => \A s \in Subs \ {saving} : got[s] = 0
      /\ savedOffset' = [savedOffset EXCEPT ![saving] = lastId[saving]]
      /\ got' = [got EXCEPT ![saving] = 0]
      /\ UNCHANGED <<stream, trimmed, lastId, from, times, crashes>>
  BY DEF SaveOffset, processVars, observed, OffsetInv, OffsetTypes
<1>2. OffsetTypes'
  BY <1>1 DEF OffsetInv, OffsetTypes
<1>3. ReadAhead'
  BY <1>1 DEF OffsetInv, OffsetTypes, ReadAhead
<1>4. OffsetsCovered'
  BY <1>1 DEF OffsetInv, OffsetTypes, OffsetsCovered, CountedUpTo
<1>5. CountedHere'
  BY <1>1 DEF OffsetInv, CountedHere
<1> QED BY <1>2, <1>3, <1>4, <1>5 DEF OffsetInv

\* A process that dies forgets last_ids; its successor owes one count more.
LEMMA CrashInv == OffsetInv /\ Crash => OffsetInv'
PROOF
<1> SUFFICES ASSUME OffsetInv, Crash PROVE OffsetInv'
  OBVIOUS
<1>1. /\ consumer' = "down" /\ crashes' = crashes + 1
      /\ lastId' = [s \in Subs |-> 0] /\ from' = [s \in Subs |-> 0]
      /\ got' = [s \in Subs |-> 0]
      /\ UNCHANGED <<stream, trimmed, savedOffset, times>>
  BY DEF Crash, redisVars, Zero
<1>2. OffsetTypes'
  BY <1>1 DEF OffsetInv, OffsetTypes
<1>3. ReadAhead' /\ OffsetsCovered'
  BY <1>1 DEF OffsetInv, ReadAhead, OffsetsCovered, CountedUpTo
<1>4. CountedHere'
  <2>1. \A s \in Subs : \A i \in DOMAIN times[s] : times[s][i] \in Nat /\ crashes \in Nat
    BY DEF OffsetInv, OffsetTypes
  <2> QED BY <1>1, <2>1 DEF OffsetInv, CountedHere
<1> QED BY <1>2, <1>3, <1>4 DEF OffsetInv

LEMMA RestartInv == OffsetInv /\ Restart => OffsetInv'
PROOF
<1> SUFFICES ASSUME OffsetInv, Restart PROVE OffsetInv'
  OBVIOUS
<1>1. /\ consumer = "down" /\ consumer' = "load"
      /\ UNCHANGED <<stream, trimmed, savedOffset, lastId, from, got, saving, times, crashes>>
  BY DEF Restart, redisVars, processVars, observed
<1> QED BY <1>1 DEF OffsetInv, OffsetTypes, ReadAhead, OffsetsCovered, CountedUpTo, CountedHere

LEMMA OffsetsNext == OffsetInv /\ [Next]_vars => OffsetInv'
PROOF
<1> SUFFICES ASSUME OffsetInv, [Next]_vars PROVE OffsetInv'
  OBVIOUS
<1>1. CASE \E s \in Subs, acked \in BOOLEAN : Emit(s, acked)
  BY <1>1, EmitOffsets
<1>2. CASE Consume
  BY <1>2, LoadOffsetsInv, ReadStreamsInv, ProcessInv, SaveOffsetInv DEF Consume
<1>3. CASE UNCHANGED <<stream, trimmed, savedOffset, lastId, from, got, saving, consumer,
                       times, crashes>>
  BY <1>3 DEF OffsetInv, OffsetTypes, ReadAhead, OffsetsCovered, CountedUpTo, CountedHere
<1>4. Flush \/ UNCHANGED vars
        => UNCHANGED <<stream, trimmed, savedOffset, lastId, from, got, saving, consumer,
                       times, crashes>>
  BY DEF Flush, StartRound, EndRound, TakeSnapshot, ReadErrors, PublishSnapshot, ResetWindow,
         vars, redisVars, processVars, consumeVars, observed
<1>5. CASE Crash
  BY <1>5, CrashInv
<1>6. CASE Restart
  BY <1>6, RestartInv
<1> QED BY <1>1, <1>2, <1>3, <1>4, <1>5, <1>6 DEF Next

LEMMA OffsetInvariant == Spec => []OffsetInv
BY OffsetsInit, OffsetsNext, PTL DEF Spec

\* The offset in ingester:offsets covers counted or trimmed events only,
\* whatever crashes come between counting them and saving it: a restart skips no event.
THEOREM OffsetsSkipNothing == Spec => []NoEventSkipped
PROOF
<1>1. OffsetInv => NoEventSkipped
  BY DEF OffsetInv, OffsetsCovered, CountedUpTo, NoEventSkipped
<1> QED BY <1>1, OffsetInvariant, PTL

\* An event is counted at most once by each process: n crashes repeat it at
\* most n times.
THEOREM CountedOncePerProcess == Spec => []OncePerProcess
PROOF
<1>1. OffsetInv => OncePerProcess
  BY DEF OffsetInv, CountedHere, OncePerProcess
<1> QED BY <1>1, OffsetInvariant, PTL

---------------------------------------------------------------------------
(* How consume_loop gets on. *)

\* Once they are loaded, the offsets in memory are never behind the durable ones.
OffsetAhead ==
  consumer \notin {"down", "load"} => \A s \in Subs : savedOffset[s] <= lastId[s]

\* What consume_loop has in hand: something, and nothing that it has counted before.
ReadsAreFresh ==
  /\ consumer = "process" => \E s \in Subs : got[s] # 0
  /\ \A s \in Subs : got[s] # 0 => from[s] < got[s]

OffsetsOnlyGrow == [][\A s \in Subs : savedOffset[s] <= savedOffset'[s]]_vars

ReadingMovesOn == [][\A s \in Subs : ProcessMessages(s) => lastId[s] < lastId'[s]]_vars

LEMMA ConsumeStep ==
  OffsetInv /\ OffsetAhead /\ ReadsAreFresh /\ [Next]_vars
    => /\ OffsetAhead' /\ ReadsAreFresh'
       /\ \A s \in Subs : savedOffset[s] <= savedOffset'[s]
       /\ \A s \in Subs : ProcessMessages(s) => lastId[s] < lastId'[s]
PROOF
<1> SUFFICES ASSUME OffsetInv, OffsetAhead, ReadsAreFresh, [Next]_vars
             PROVE  /\ OffsetAhead' /\ ReadsAreFresh'
                    /\ \A s \in Subs : savedOffset[s] <= savedOffset'[s]
                    /\ \A s \in Subs : ProcessMessages(s) => lastId[s] < lastId'[s]
  OBVIOUS
<1> DEFINE Goal == /\ OffsetAhead' /\ ReadsAreFresh'
                   /\ \A s \in Subs : savedOffset[s] <= savedOffset'[s]
<1>1. /\ savedOffset \in [Subs -> Nat] /\ lastId \in [Subs -> Nat]
      /\ got \in [Subs -> Nat] /\ from \in [Subs -> Nat]
      /\ \A s \in Subs : Len(stream[s]) \in Nat /\ trimmed[s] \in Nat
      /\ \A s \in Subs : lastId[s] <= Len(stream[s]) /\ trimmed[s] <= Len(stream[s])
  BY DEF OffsetInv, OffsetTypes
<1>2. ASSUME NEW s \in Subs, ProcessMessages(s)
      PROVE  /\ OffsetAhead' /\ ReadsAreFresh' /\ UNCHANGED savedOffset
             /\ lastId[s] < lastId'[s]
  <2>1. /\ consumer = "process" /\ consumer' = "save" /\ got[s] # 0
        /\ lastId' = [lastId EXCEPT ![s] = got[s]]
        /\ UNCHANGED <<savedOffset, from, got>>
    BY <1>2 DEF ProcessMessages, redisVars
  <2>2. lastId[s] <= from[s] /\ from[s] < got[s]
    BY <2>1 DEF OffsetInv, ReadAhead, ReadsAreFresh
  <2>3. lastId'[s] = got[s] /\ lastId[s] < got[s] /\ savedOffset[s] <= got[s]
    BY <1>1, <2>1, <2>2 DEF OffsetAhead
  <2> QED BY <1>1, <2>1, <2>3 DEF OffsetAhead, ReadsAreFresh
<1>3. \A s \in Subs : ProcessMessages(s) => lastId[s] < lastId'[s]
  BY <1>2
<1>4. ASSUME UNCHANGED <<savedOffset, lastId, from, got, consumer>>
      PROVE  Goal
  BY <1>1, <1>4 DEF OffsetAhead, ReadsAreFresh
<1>5. Flush \/ UNCHANGED vars \/ (\E s \in Subs, acked \in BOOLEAN : Emit(s, acked))
        => UNCHANGED <<savedOffset, lastId, from, got, consumer>>
  BY DEF Flush, StartRound, EndRound, TakeSnapshot, ReadErrors, PublishSnapshot, ResetWindow,
         Emit, vars, redisVars, processVars, consumeVars
<1>6. ASSUME LoadOffsets PROVE Goal
  BY <1>1, <1>6 DEF LoadOffsets, redisVars, OffsetAhead, ReadsAreFresh
<1>7. ASSUME ReadStreams PROVE Goal
  <2>1. /\ consumer' = "process"
        /\ from' = [s \in Subs |-> ReadAfter(s)]
        /\ got' = [s \in Subs |-> IF ReadAfter(s) = Len(stream[s]) THEN 0
                                  ELSE ReadUpTo(ReadAfter(s), Len(stream[s]))]
        /\ consumer = "read" /\ UNCHANGED <<savedOffset, lastId>>
        /\ \E s \in Subs : ReadAfter(s) < Len(stream[s])
    BY <1>7 DEF ReadStreams, redisVars, processVars
  <2>2. \A s \in Subs : ReadAfter(s) \in Nat /\ ReadAfter(s) <= Len(stream[s])
    BY <1>1 DEF ReadAfter
  <2> HIDE DEF ReadAfter
  <2>3. \A s \in Subs : ReadAfter(s) < Len(stream[s]) => got'[s] > from'[s] /\ got'[s] # 0
    BY <1>1, <2>1, <2>2, ReadCountAssumption DEF ReadUpTo
  <2>4. \A s \in Subs : got'[s] # 0 => ReadAfter(s) < Len(stream[s])
    BY <1>1, <2>1, <2>2
  <2> QED BY <1>1, <2>1, <2>3, <2>4 DEF OffsetAhead, ReadsAreFresh
<1>8. ASSUME SaveOffset PROVE Goal
  <2>1. /\ consumer = "save" /\ saving \in Subs
        /\ savedOffset' = [savedOffset EXCEPT ![saving] = lastId[saving]]
        /\ got' = [got EXCEPT ![saving] = 0]
        /\ consumer' = IF \E s \in Subs \ {saving} : got[s] # 0 THEN "process" ELSE "read"
        /\ UNCHANGED <<lastId, from>>
    BY <1>8 DEF SaveOffset, processVars, OffsetInv, OffsetTypes
  <2>2. \A s \in Subs : savedOffset[s] <= lastId[s]
    BY <2>1 DEF OffsetAhead
  <2> QED BY <1>1, <2>1, <2>2 DEF OffsetAhead, ReadsAreFresh
<1>9. ASSUME Crash PROVE Goal
  BY <1>1, <1>9 DEF Crash, Zero, redisVars, OffsetAhead, ReadsAreFresh
<1>10. ASSUME Restart PROVE Goal
  BY <1>1, <1>10 DEF Restart, redisVars, processVars, OffsetAhead, ReadsAreFresh
<1>11. Goal
  BY <1>1, <1>2, <1>4, <1>5, <1>6, <1>7, <1>8, <1>9, <1>10 DEF Next, Consume
<1> QED BY <1>3, <1>11

LEMMA ConsumeInvariant == Spec => [](OffsetAhead /\ ReadsAreFresh)
PROOF
<1>1. Init => OffsetAhead /\ ReadsAreFresh
  BY DEF Init, Zero, OffsetAhead, ReadsAreFresh
<1> QED BY <1>1, ConsumeStep, OffsetInvariant, PTL DEF Spec

\* The durable offset of a stream never goes back, whatever crashes and restarts come
\* between: save_offset writes what is in memory, which starts at what was saved.
THEOREM OffsetsNeverGoBack == Spec => OffsetsOnlyGrow
PROOF
<1>1. OffsetInv /\ OffsetAhead /\ ReadsAreFresh /\ [Next]_vars
        => [\A s \in Subs : savedOffset[s] <= savedOffset'[s]]_vars
  BY ConsumeStep
<1> QED BY <1>1, ConsumeInvariant, OffsetInvariant, PTL DEF Spec, OffsetsOnlyGrow

\* While it handles an answer of xread consume_loop always has a stream of it to handle,
\* and each moves its offset ahead: no answer is read twice by a process, and none stops
\* the loop.  This is what EveryEventCounted rests on besides fairness.
THEOREM EveryReadMovesOn == Spec => []ReadsAreFresh /\ ReadingMovesOn
PROOF
<1>1. OffsetInv /\ OffsetAhead /\ ReadsAreFresh /\ [Next]_vars
        => [\A s \in Subs : ProcessMessages(s) => lastId[s] < lastId'[s]]_vars
  BY ConsumeStep
<1> QED BY <1>1, ConsumeInvariant, OffsetInvariant, PTL DEF Spec, ReadingMovesOn

---------------------------------------------------------------------------
(* Windows. *)

AccountTypes ==
  /\ eventCount \in [Subs -> Int] /\ processed \in [Subs -> Int]
  /\ published \in [Subs -> Int] /\ lost \in [Subs -> Int]
  /\ flusher \in {"counted", "scored", "published"} => snap.sub \in Subs /\ snap.count \in Int

AccountInv == AccountTypes /\ WindowAccounting

LEMMA AccountProcess ==
  ASSUME OffsetInv, AccountInv, NEW s \in Subs, ProcessMessages(s)
  PROVE  AccountInv'
PROOF
<1> DEFINE count == got[s] - from[s]
<1>1. /\ eventCount' = [eventCount EXCEPT ![s] = @ + count]
      /\ processed' = [processed EXCEPT ![s] = @ + count]
      /\ UNCHANGED <<published, lost, flusher, snap>>
  BY DEF ProcessMessages, flushVars
<1>2. count \in Int
  BY DEF OffsetInv, OffsetTypes
<1> HIDE DEF count
<1> QED BY <1>1, <1>2 DEF AccountInv, AccountTypes, WindowAccounting

LEMMA AccountFlush == AccountInv /\ Flush => AccountInv'
PROOF
<1> SUFFICES ASSUME AccountInv, Flush PROVE AccountInv'
  OBVIOUS
<1> USE DEF AccountInv, AccountTypes, WindowAccounting
<1>1. CASE StartRound \/ EndRound
  BY <1>1 DEF StartRound, EndRound, processVars, observed
<1>2. ASSUME NEW s \in Subs, TakeSnapshot(s) PROVE AccountInv'
  <2>1. UNCHANGED <<eventCount, processed, published, lost>> /\ flusher = "pick"
    BY <1>2 DEF TakeSnapshot, processVars, observed
  <2>2. CASE eventCount[s] = 0
    BY <1>2, <2>1, <2>2 DEF TakeSnapshot
  <2>3. CASE eventCount[s] # 0
    <3>1. flusher' = "counted" /\ snap'.sub = s /\ snap'.count = eventCount[s]
      BY <1>2, <2>3 DEF TakeSnapshot
    <3> QED BY <2>1, <3>1
  <2> QED BY <2>2, <2>3
<1>3. CASE ReadErrors
  <2>1. /\ UNCHANGED <<eventCount, processed, published, lost>>
        /\ flusher = "counted" /\ flusher' = "scored"
        /\ snap' = [snap EXCEPT !.errors = errorCount[snap.sub],
                                !.attempts = snap.count + errorCount[snap.sub]]
    BY <1>3 DEF ReadErrors, processVars, observed
  <2>2. snap'.sub = snap.sub /\ snap'.count = snap.count
    BY <2>1
  <2> QED BY <2>1, <2>2
<1>4. CASE PublishSnapshot
  <2>1. /\ flusher = "scored" /\ flusher' = "published" /\ UNCHANGED snap
        /\ published' = [published EXCEPT ![snap.sub] = @ + snap.count]
        /\ UNCHANGED <<eventCount, processed, lost>>
    BY <1>4 DEF PublishSnapshot, processVars
  <2> QED BY <2>1
<1>5. CASE ResetWindow
  <2>1. /\ flusher = "published" /\ flusher' = "pick"
        /\ eventCount' = [eventCount EXCEPT ![snap.sub] = 0]
        /\ lost' = [lost EXCEPT ![snap.sub] = @ + (eventCount[snap.sub] - snap.count)]
        /\ UNCHANGED <<processed, published>>
    BY <1>5 DEF ResetWindow, Cleared
  <2> QED BY <2>1
<1> QED BY <1>1, <1>2, <1>3, <1>4, <1>5 DEF Flush

\* Every event a process has counted is in one published snapshot, in the open
\* window, or among the events a reset wiped after the snapshot was taken: the
\* interleaving of the two coroutines loses events there and nowhere else, and
\* publishes none twice.
THEOREM WindowsAddUp == Spec => []WindowAccounting
PROOF
<1>1. Init => AccountInv
  <2> SUFFICES ASSUME Init PROVE AccountInv
    OBVIOUS
  <2> QED BY DEF Init, Zero, AccountInv, AccountTypes, WindowAccounting
<1>2. OffsetInv /\ AccountInv /\ [Next]_vars => AccountInv'
  <2> SUFFICES ASSUME OffsetInv, AccountInv, [Next]_vars PROVE AccountInv'
    OBVIOUS
  <2>1. CASE \E s \in Subs : ProcessMessages(s)
    BY <2>1, AccountProcess
  <2>2. CASE Flush
    BY <2>2, AccountFlush
  <2>3. CASE Crash
    BY <2>3 DEF Crash, Zero, AccountInv, AccountTypes, WindowAccounting
  <2>4. CASE Restart
    BY <2>4 DEF Restart, processVars, observed, AccountInv, AccountTypes, WindowAccounting
  <2>5. CASE UNCHANGED <<eventCount, processed, published, lost, flusher, snap>>
    BY <2>5 DEF AccountInv, AccountTypes, WindowAccounting
  <2>6. LoadOffsets \/ ReadStreams \/ SaveOffset \/ UNCHANGED vars
          \/ (\E s \in Subs, acked \in BOOLEAN : Emit(s, acked))
          => UNCHANGED <<eventCount, processed, published, lost, flusher, snap>>
    BY DEF LoadOffsets, ReadStreams, SaveOffset, Emit, vars, processVars, flushVars, observed
  <2> QED BY <2>1, <2>2, <2>3, <2>4, <2>5, <2>6 DEF Next, Consume
<1>3. AccountInv => WindowAccounting
  BY DEF AccountInv
<1> QED BY <1>1, <1>2, <1>3, OffsetInvariant, PTL DEF Spec

---------------------------------------------------------------------------
(* Types. *)

Flushing == flusher \in {"counted", "scored", "published"}

\* A window only grows between its snapshot and its reset.
TypeInv == TypeOK /\ IsFiniteSet(board) /\ (Flushing => snap.count <= eventCount[snap.sub])

LEMMA UnackedFacts ==
  ASSUME OffsetTypes, NEW s \in Subs, NEW a \in Nat, NEW b \in Nat, a <= b
  PROVE  Unacked(s, a + 1, b) \in 0..(b - a)
PROOF
<1> DEFINE I == (a + 1)..b
           U == {i \in I : stream[s][i] = FALSE}
<1>1. IsFiniteSet(I) /\ Cardinality(I) = b - a
  <2>1. a + 1 \in Int /\ b \in Int /\ (a + 1 > b => b - a = 0) /\ b - (a + 1) + 1 = b - a
    OBVIOUS
  <2>2. IsFiniteSet(I) /\ Cardinality(I) = IF a + 1 > b THEN 0 ELSE b - (a + 1) + 1
    BY <2>1, FS_Interval
  <2> QED BY <2>1, <2>2
<1>2. U \subseteq I
  OBVIOUS
<1> HIDE DEF I, U
<1>3. IsFiniteSet(U) /\ Cardinality(U) <= Cardinality(I)
  BY <1>1, <1>2, FS_Subset
<1>4. Cardinality(U) \in Nat
  BY <1>3, FS_CardinalityType
<1>5. Unacked(s, a + 1, b) = Cardinality(U)
  BY DEF Unacked, U, I
<1> QED BY <1>1, <1>3, <1>4, <1>5

LEMMA TypeProcess ==
  ASSUME OffsetInv, OffsetInv', TypeInv, NEW s \in Subs, ProcessMessages(s)
  PROVE  TypeInv'
PROOF
<1> DEFINE count == got[s] - from[s]
           unacked == Unacked(s, from[s] + 1, got[s])
<1>1. /\ consumer = "process" /\ consumer' = "save" /\ saving' = s /\ got[s] # 0
      /\ tracked' = tracked \cup {s}
      /\ eventCount' = [eventCount EXCEPT ![s] = @ + count]
      /\ measured' = [measured EXCEPT ![s] = @ + (count - unacked)]
      /\ errorCount' = [errorCount EXCEPT ![s] = @ + unacked]
      /\ processed' = [processed EXCEPT ![s] = @ + count]
      /\ UNCHANGED <<board, flusher, todo, snap, published, lost, crashes>>
  BY DEF ProcessMessages, redisVars, flushVars
<1>2. got[s] \in Nat /\ from[s] \in Nat /\ from[s] <= got[s]
  BY <1>1 DEF OffsetInv, OffsetTypes, ReadAhead
<1>3. count \in Nat /\ unacked \in Nat /\ count - unacked \in Nat
  <2>1. unacked \in 0..(got[s] - from[s])
    BY <1>2, UnackedFacts DEF OffsetInv
  <2> HIDE DEF unacked
  <2> QED BY <1>2, <2>1
<1> HIDE DEF count, unacked
<1>4. /\ eventCount' \in [Subs -> Nat] /\ measured' \in [Subs -> Nat]
      /\ errorCount' \in [Subs -> Nat] /\ processed' \in [Subs -> Nat]
      /\ \A q \in Subs : eventCount[q] <= eventCount'[q]
  <2>1. \A q \in Subs : /\ eventCount[q] \in Nat /\ measured[q] \in Nat
                        /\ errorCount[q] \in Nat /\ processed[q] \in Nat
    BY DEF TypeInv, TypeOK
  <2>2. /\ eventCount[s] + count \in Nat /\ measured[s] + (count - unacked) \in Nat
        /\ errorCount[s] + unacked \in Nat /\ processed[s] + count \in Nat
        /\ eventCount[s] <= eventCount[s] + count
    BY <1>3, <2>1
  <2>3. \A q \in Subs : eventCount'[q] = IF q = s THEN eventCount[s] + count ELSE eventCount[q]
    BY <1>1 DEF TypeInv, TypeOK
  <2>4. \A q \in Subs : eventCount[q] <= eventCount'[q]
    BY <2>1, <2>2, <2>3
  <2>5. eventCount' \in [Subs -> Nat] /\ measured' \in [Subs -> Nat]
    BY <1>1, <2>2 DEF TypeInv, TypeOK
  <2>6. errorCount' \in [Subs -> Nat] /\ processed' \in [Subs -> Nat]
    BY <1>1, <2>2 DEF TypeInv, TypeOK
  <2> QED BY <2>4, <2>5, <2>6
<1>5. Flushing => snap \in Snapshot
  BY DEF Flushing, TypeInv, TypeOK
<1>6. Flushing' => snap'.count <= eventCount'[snap'.sub]
  <2> SUFFICES ASSUME Flushing PROVE snap.count <= eventCount'[snap.sub]
    BY <1>1 DEF Flushing
  <2>1. snap.sub \in Subs /\ snap.count \in Nat
    BY <1>5 DEF Snapshot
  <2>2. /\ snap.count <= eventCount[snap.sub] /\ eventCount[snap.sub] <= eventCount'[snap.sub]
        /\ eventCount[snap.sub] \in Nat /\ eventCount'[snap.sub] \in Nat
    BY <1>4, <2>1 DEF TypeInv, TypeOK
  <2> QED BY <2>1, <2>2
<1>7. s # None
  BY NoneAssumption
<1>8. OffsetTypes'
  BY DEF OffsetInv
<1> QED BY <1>1, <1>4, <1>6, <1>7, <1>8 DEF TypeInv, TypeOK, OffsetTypes

LEMMA TypeFlush == ASSUME OffsetInv, OffsetInv', TypeInv, Flush PROVE TypeInv'
PROOF
<1>1. OffsetTypes'
  BY DEF OffsetInv
<1>2. UNCHANGED <<consumer, saving, tracked, measured, times, processed, crashes>>
  BY DEF Flush, StartRound, EndRound, TakeSnapshot, ReadErrors, PublishSnapshot, ResetWindow,
         processVars, consumeVars, observed
<1>3. ASSUME UNCHANGED <<board, eventCount, errorCount, published, lost>>, todo' \subseteq tracked,
             flusher' \in {"down", "sleep", "pick", "counted", "scored", "published"},
             snap' \in Snapshot \cup {None}, Flushing' <=> snap' # None,
             Flushing' => snap'.count <= eventCount[snap'.sub]
      PROVE  TypeInv'
  BY <1>1, <1>2, <1>3 DEF TypeInv, TypeOK, OffsetTypes, Flushing
<1>4. CASE StartRound \/ EndRound
  <2>1. /\ UNCHANGED <<board, eventCount, errorCount, published, lost, snap>> /\ todo' \subseteq tracked
        /\ flusher' \in {"sleep", "pick"} /\ flusher \in {"sleep", "pick"}
    BY <1>4 DEF StartRound, EndRound, redisVars, processVars, observed, TypeInv, TypeOK
  <2> QED BY <1>3, <2>1 DEF TypeInv, TypeOK, Flushing
<1>5. ASSUME NEW s \in Subs, TakeSnapshot(s) PROVE TypeInv'
  <2>1. UNCHANGED <<board, eventCount, errorCount, published, lost>> /\ flusher = "pick"
    BY <1>5 DEF TakeSnapshot, redisVars, processVars, observed
  <2>2. CASE eventCount[s] = 0
    <3>1. todo' = todo \ {s} /\ UNCHANGED <<flusher, snap>>
      BY <1>5, <2>2 DEF TakeSnapshot
    <3> QED BY <1>3, <2>1, <3>1 DEF TypeInv, TypeOK, Flushing
  <2>3. CASE eventCount[s] # 0
    <3> DEFINE new == [sub |-> s, count |-> eventCount[s], measured |-> measured[s],
                       errors |-> 0, attempts |-> 0, serial |-> Cardinality(board)]
    <3>1. snap' = new /\ flusher' = "counted" /\ todo' = todo
      BY <1>5, <2>3 DEF TakeSnapshot
    <3>2. eventCount[s] \in Nat /\ measured[s] \in Nat /\ Cardinality(board) \in Nat
      BY FS_CardinalityType DEF TypeInv, TypeOK
    <3>3. new \in Snapshot /\ new.count <= eventCount[new.sub]
      BY <3>2 DEF Snapshot
    <3> HIDE DEF new
    <3>4. new # None
      BY <3>3, NoneAssumption
    <3> QED BY <1>3, <2>1, <3>1, <3>3, <3>4 DEF TypeInv, TypeOK, Flushing
  <2> QED BY <2>2, <2>3
<1>6. CASE ReadErrors
  <2> DEFINE errors == errorCount[snap.sub]
             new == [snap EXCEPT !.errors = errors, !.attempts = snap.count + errors]
  <2>1. /\ flusher = "counted" /\ flusher' = "scored" /\ snap' = new
        /\ UNCHANGED <<board, eventCount, errorCount, published, lost, todo>>
    BY <1>6 DEF ReadErrors, redisVars, processVars, observed
  <2>2. snap \in Snapshot /\ snap.count <= eventCount[snap.sub]
    BY <2>1 DEF TypeInv, TypeOK, Flushing
  <2>3. errors \in Nat /\ snap.count \in Nat
    BY <2>2 DEF TypeInv, TypeOK, Snapshot
  <2>4. new \in Snapshot /\ new.count = snap.count /\ new.sub = snap.sub
    <3> HIDE DEF errors
    <3>1. snap.count + errors \in Nat
      BY <2>3
    <3> QED BY <2>2, <2>3, <3>1 DEF Snapshot
  <2> HIDE DEF new
  <2>5. new # None
    BY <2>4, NoneAssumption
  <2> QED BY <1>3, <2>1, <2>2, <2>4, <2>5 DEF TypeInv, TypeOK, Flushing
<1>7. CASE PublishSnapshot
  <2>1. /\ flusher = "scored" /\ flusher' = "published" /\ board' = board \cup {snap}
        /\ published' = [published EXCEPT ![snap.sub] = @ + snap.count]
        /\ UNCHANGED <<eventCount, errorCount, lost, todo, snap>>
    BY <1>7 DEF PublishSnapshot, processVars
  <2>2. snap \in Snapshot /\ snap # None /\ snap.count <= eventCount[snap.sub]
    BY <2>1 DEF TypeInv, TypeOK, Flushing
  <2>3. snap.sub \in Subs /\ snap.count \in Nat
    BY <2>2 DEF Snapshot
  <2>4. published' \in [Subs -> Nat] /\ board' \subseteq Snapshot
    <3>0. published[snap.sub] \in Nat
      BY <2>3 DEF TypeInv, TypeOK
    <3>1. published[snap.sub] + snap.count \in Nat
      BY <2>3, <3>0
    <3> QED BY <2>1, <2>2, <2>3, <3>1 DEF TypeInv, TypeOK
  <2>5. IsFiniteSet(board')
    BY <2>1, FS_AddElement DEF TypeInv
  <2> QED BY <1>1, <1>2, <2>1, <2>2, <2>4, <2>5 DEF TypeInv, TypeOK, OffsetTypes, Flushing
<1>8. CASE ResetWindow
  <2>1. /\ flusher = "published" /\ flusher' = "pick" /\ snap' = None
        /\ todo' = todo \ {snap.sub}
        /\ eventCount' = [eventCount EXCEPT ![snap.sub] = 0]
        /\ errorCount' = [errorCount EXCEPT ![snap.sub] = 0]
        /\ lost' = [lost EXCEPT ![snap.sub] = @ + (eventCount[snap.sub] - snap.count)]
        /\ UNCHANGED <<board, published>>
    BY <1>8 DEF ResetWindow, Cleared, redisVars
  <2>2. snap \in Snapshot /\ snap.count <= eventCount[snap.sub]
    BY <2>1 DEF TypeInv, TypeOK, Flushing
  <2>3. snap.sub \in Subs /\ snap.count \in Nat /\ eventCount[snap.sub] \in Nat
    BY <2>2 DEF Snapshot, TypeInv, TypeOK
  <2>4. /\ eventCount' \in [Subs -> Nat] /\ errorCount' \in [Subs -> Nat]
    BY <2>1, <2>3 DEF TypeInv, TypeOK
  <2>5. lost' \in [Subs -> Nat]
    <3>1. lost[snap.sub] \in Nat
      BY <2>3 DEF TypeInv, TypeOK
    <3>2. lost[snap.sub] + (eventCount[snap.sub] - snap.count) \in Nat
      BY <2>2, <2>3, <3>1
    <3> QED BY <2>1, <2>3, <3>2 DEF TypeInv, TypeOK
  <2> QED BY <1>1, <1>2, <2>1, <2>4, <2>5 DEF TypeInv, TypeOK, OffsetTypes, Flushing
<1> QED BY <1>4, <1>5, <1>6, <1>7, <1>8 DEF Flush

LEMMA TypeInvariant == Spec => []TypeInv
PROOF
<1>1. Init => TypeInv
  <2> SUFFICES ASSUME Init PROVE TypeInv
    OBVIOUS
  <2>1. OffsetTypes
    BY OffsetsInit DEF OffsetInv
  <2>2. 0 \in 0..MaxCrashes
    BY BoundsAssumption
  <2> QED BY <2>1, <2>2, FS_EmptySet, NoneAssumption
          DEF Init, Zero, TypeInv, TypeOK, OffsetTypes, Flushing
<1>2. OffsetInv /\ OffsetInv' /\ TypeInv /\ [Next]_vars => TypeInv'
  <2> SUFFICES ASSUME OffsetInv, OffsetInv', TypeInv, [Next]_vars PROVE TypeInv'
    OBVIOUS
  <2>0. OffsetTypes'
    BY DEF OffsetInv
  <2>1. CASE \E s \in Subs : ProcessMessages(s)
    BY <2>1, TypeProcess
  <2>2. CASE Flush
    BY <2>2, TypeFlush
  <2>3. CASE Crash
    <3>1. crashes' \in 0..MaxCrashes
      <4>1. crashes \in 0..MaxCrashes
        BY DEF TypeInv, TypeOK
      <4>2. crashes < MaxCrashes /\ crashes' = crashes + 1
        BY <2>3 DEF Crash
      <4> QED BY <4>1, <4>2, BoundsAssumption
    <3> QED BY <2>0, <2>3, <3>1, NoneAssumption
            DEF Crash, Zero, redisVars, TypeInv, TypeOK, OffsetTypes, Flushing
  <2>4. ASSUME UNCHANGED <<board, tracked, todo, eventCount, measured, errorCount, snap, processed,
                           published, lost, crashes>>,
               \/ flusher' = flusher
               \/ flusher = "down" /\ flusher' = "sleep",
               consumer' \in {"down", "load", "read", "process", "save"},
               saving' \in Subs \cup {None}, consumer' = "save" <=> saving' # None
        PROVE  TypeInv'
    BY <2>0, <2>4 DEF TypeInv, TypeOK, OffsetTypes, Flushing
  <2>5. CASE LoadOffsets \/ ReadStreams \/ Restart
    BY <2>4, <2>5 DEF LoadOffsets, ReadStreams, Restart, redisVars, processVars, flushVars, observed,
                      TypeInv, TypeOK
  <2>6. CASE SaveOffset
    BY <2>4, <2>6 DEF SaveOffset, processVars, flushVars, observed
  <2>7. CASE \E s \in Subs, acked \in BOOLEAN : Emit(s, acked)
    BY <2>4, <2>7 DEF Emit, processVars, consumeVars, flushVars, TypeInv, TypeOK
  <2>8. CASE UNCHANGED vars
    BY <2>4, <2>8 DEF vars, redisVars, processVars, consumeVars, flushVars, observed, TypeInv, TypeOK
  <2> QED BY <2>1, <2>2, <2>3, <2>5, <2>6, <2>7, <2>8 DEF Next, Consume
<1> QED BY <1>1, <1>2, OffsetInvariant, PTL DEF Spec

\* The types hold: no count goes below zero though the window of a snapshot is
\* wiped long after it was read, and a snapshot is held exactly while it is on
\* its way to the board.
THEOREM TypeCorrect == Spec => []TypeOK
PROOF
<1>1. TypeInv => TypeOK
  BY DEF TypeInv
<1> QED BY <1>1, TypeInvariant, PTL

---------------------------------------------------------------------------
(* Errors. *)

Charged(s) == SumFunctionOnSet([e \in board |-> e.errors], {e \in board : e.sub = s})

UnackedEvents(s) == {i \in DOMAIN times[s] : ~stream[s][i]}
UnackedTimes(s) == SumFunctionOnSet(times[s], UnackedEvents(s))

\* The errors of s that are on the board and in the open window both.
ErrorsInBoth(s) == IF flusher = "published" /\ snap.sub = s THEN snap.errors ELSE 0

\* Between the reading of the error count and its reset the count only grows, so
\* that the reset, or a crash, wipes no less than the snapshot has charged.
ErrorInv ==
  /\ \A s \in Subs : Charged(s) + errorCount[s] - ErrorsInBoth(s) <= UnackedTimes(s)
  /\ flusher \in {"scored", "published"} => snap.errors <= errorCount[snap.sub]

LEMMA ErrorTypes ==
  ASSUME OffsetTypes, TypeInv
  PROVE  /\ \A s \in Subs : /\ Charged(s) \in Int /\ UnackedTimes(s) \in Int
                            /\ errorCount[s] \in Nat /\ ErrorsInBoth(s) \in Nat
                            /\ IsFiniteSet(UnackedEvents(s))
                            /\ \A i \in UnackedEvents(s) : times[s][i] \in Nat
         /\ Flushing => snap \in Snapshot
PROOF
<1>1. Flushing => snap \in Snapshot
  BY DEF Flushing, TypeInv, TypeOK
<1>2. ASSUME NEW s \in Subs
      PROVE  /\ Charged(s) \in Int /\ UnackedTimes(s) \in Int
             /\ errorCount[s] \in Nat /\ ErrorsInBoth(s) \in Nat
             /\ IsFiniteSet(UnackedEvents(s))
             /\ \A i \in UnackedEvents(s) : times[s][i] \in Nat
  <2>1. errorCount[s] \in Nat
    BY DEF TypeInv, TypeOK
  <2>2. ErrorsInBoth(s) \in Nat
    BY <1>1 DEF ErrorsInBoth, Flushing, Snapshot
  <2>3. Charged(s) \in Int
    <3> DEFINE B == {e \in board : e.sub = s}
    <3>1. IsFiniteSet(B)
      BY FS_Subset DEF TypeInv
    <3>2. \A e \in B : [d \in board |-> d.errors][e] \in Int
      BY DEF TypeInv, TypeOK, Snapshot
    <3> HIDE DEF B
    <3>3. SumFunctionOnSet([e \in board |-> e.errors], B) \in Int
      BY <3>1, <3>2, SumRemove
    <3> QED BY <3>3 DEF Charged, B
  <2>4. /\ IsFiniteSet(UnackedEvents(s))
        /\ \A i \in UnackedEvents(s) : times[s][i] \in Nat
    <3>1. times[s] \in Seq(Nat) /\ Len(times[s]) \in Nat
      BY DEF OffsetTypes
    <3>2. DOMAIN times[s] = 1..Len(times[s]) /\ IsFiniteSet(1..Len(times[s]))
      BY <3>1, FS_Interval, SMTT(30)
    <3>3. UnackedEvents(s) \subseteq 1..Len(times[s])
      BY <3>2 DEF UnackedEvents
    <3>4. IsFiniteSet(UnackedEvents(s))
      BY <3>2, <3>3, FS_Subset
    <3>5. \A i \in 1..Len(times[s]) : times[s][i] \in Nat
      BY <3>1
    <3> QED BY <3>3, <3>4, <3>5
  <2>5. UnackedTimes(s) \in Int
    BY <2>4, SumOfNaturals DEF UnackedTimes
  <2> QED BY <2>1, <2>2, <2>3, <2>4, <2>5
<1> QED BY <1>1, <1>2

\* A new event has not been counted, acked or not.
LEMMA EmitErrors ==
  ASSUME OffsetTypes, OffsetTypes', TypeInv, NEW s \in Subs, NEW acked \in BOOLEAN, Emit(s, acked),
         NEW q \in Subs
  PROVE  UnackedTimes(q)' = UnackedTimes(q)
PROOF
<1>1. /\ stream' = [stream EXCEPT ![s] = Append(@, acked)]
      /\ times' = [times EXCEPT ![s] = Append(@, 0)]
  BY DEF Emit
<1>2. CASE q # s
  <2>1. stream'[q] = stream[q] /\ times'[q] = times[q]
    BY <1>1, <1>2 DEF OffsetTypes
  <2> QED BY <2>1 DEF UnackedTimes, UnackedEvents
<1>3. CASE q = s
  <2> DEFINE n == Len(times[s]) + 1
             I == UnackedEvents(s)
  <2>1. /\ times[s] \in Seq(Nat) /\ stream[s] \in Seq(BOOLEAN) /\ Len(times[s]) \in Nat
        /\ Len(stream[s]) = Len(times[s])
        /\ times'[s] = Append(times[s], 0) /\ stream'[s] = Append(stream[s], acked)
    <3>1. times[s] \in Seq(Nat) /\ stream[s] \in Seq(BOOLEAN) /\ Len(stream[s]) = Len(times[s])
      BY DEF OffsetTypes
    <3>2. times'[s] = Append(times[s], 0) /\ stream'[s] = Append(stream[s], acked)
      BY <1>1 DEF OffsetTypes
    <3>3. Len(times[s]) \in Nat
      BY <3>1
    <3> QED BY <3>1, <3>2, <3>3
  <2>2. /\ DOMAIN times[s] = 1..(n - 1) /\ DOMAIN times'[s] = (1..(n - 1)) \cup {n}
        /\ \A i \in 1..(n - 1) : times'[s][i] = times[s][i] /\ stream'[s][i] = stream[s][i]
        /\ times'[s][n] = 0 /\ n \notin 1..(n - 1)
    BY <2>1
  <2>3. IsFiniteSet(I) /\ \A i \in I : times[s][i] \in Nat
    BY ErrorTypes
  <2>4. I \subseteq 1..(n - 1)
    BY <2>2 DEF UnackedEvents
  <2>5. UnackedEvents(s)' \in {I, I \cup {n}}
    <3> HIDE DEF n
    <3>1. UnackedEvents(s)' = I \cup {i \in {n} : ~stream'[s][i]}
      BY <2>2 DEF UnackedEvents
    <3> QED BY <3>1
  <2>6. \A i \in I : times'[s][i] = times[s][i] /\ times'[s][i] \in Int
    BY <2>2, <2>3, <2>4
  <2>7. n \notin I /\ times'[s][n] = 0
    BY <2>2, <2>4
  <2> HIDE DEF I, n
  <2>8. SumFunctionOnSet(times'[s], I) = SumFunctionOnSet(times[s], I)
    BY <2>3, <2>6, SumSame
  <2>9. SumFunctionOnSet(times'[s], I \cup {n}) = SumFunctionOnSet(times[s], I)
    <3>1. \A i \in I \cup {n} : times'[s][i] \in Int
      BY <2>6, <2>7
    <3>2. SumFunctionOnSet(times'[s], I \cup {n}) = times'[s][n] + SumFunctionOnSet(times'[s], I)
      BY <2>3, <2>7, <3>1, SumAdd
    <3>3. SumFunctionOnSet(times[s], I) \in Nat
      BY <2>3, SumOfNaturals
    <3> QED BY <2>7, <2>8, <3>2, <3>3
  <2>10. UnackedTimes(s)' = SumFunctionOnSet(times[s], I)
    BY <2>5, <2>8, <2>9 DEF UnackedTimes
  <2> QED BY <1>3, <2>10 DEF UnackedTimes, I
<1> QED BY <1>2, <1>3

\* process_event counts every unacked event it passes in error_counts, too.
LEMMA ProcessErrors ==
  ASSUME OffsetInv, OffsetInv', TypeInv, NEW s \in Subs, ProcessMessages(s), NEW q \in Subs
  PROVE  /\ UnackedTimes(q)' = UnackedTimes(q) + (errorCount'[q] - errorCount[q])
         /\ errorCount[q] <= errorCount'[q]
PROOF
<1> DEFINE first == from[s] + 1
           unacked == Unacked(s, first, got[s])
<1>1. /\ consumer = "process" /\ got[s] # 0
      /\ errorCount' = [errorCount EXCEPT ![s] = @ + unacked]
      /\ times' = [times EXCEPT ![s] = [i \in DOMAIN @ |->
                     IF i \in first..got[s] THEN @[i] + 1 ELSE @[i]]]
      /\ UNCHANGED <<stream, from, got>>
  BY DEF ProcessMessages, redisVars
<1>2. OffsetTypes /\ OffsetTypes'
  BY DEF OffsetInv
<1>3. \A p \in Subs : /\ UnackedTimes(p) \in Int /\ errorCount[p] \in Nat
                      /\ IsFiniteSet(UnackedEvents(p))
                      /\ \A i \in UnackedEvents(p) : times[p][i] \in Nat
  BY <1>2, ErrorTypes
<1>4. /\ got[s] \in Nat /\ from[s] \in Nat /\ from[s] <= got[s] /\ got[s] <= Len(stream[s])
      /\ times[s] \in Seq(Nat) /\ Len(times[s]) = Len(stream[s]) /\ stream[s] \in Seq(BOOLEAN)
      /\ DOMAIN times[s] = 1..Len(stream[s]) /\ Len(stream[s]) \in Nat
  BY <1>1 DEF OffsetInv, OffsetTypes, ReadAhead
<1>5. unacked \in Nat
  <2>1. unacked \in 0..(got[s] - from[s])
    BY <1>2, <1>4, UnackedFacts
  <2> HIDE DEF unacked
  <2> QED BY <1>4, <2>1
<1>6. CASE q # s
  <2>1. times'[q] = times[q] /\ stream'[q] = stream[q] /\ errorCount'[q] = errorCount[q]
    BY <1>1, <1>2, <1>6 DEF OffsetTypes, TypeInv, TypeOK
  <2>2. UnackedTimes(q)' = UnackedTimes(q)
    BY <2>1 DEF UnackedTimes, UnackedEvents
  <2> QED BY <1>3, <2>1, <2>2
<1>7. CASE q = s
  <2> DEFINE I == UnackedEvents(s)
             A == {i \in first..got[s] : stream[s][i] = FALSE}
             new == [i \in 1..Len(stream[s]) |->
                       IF i \in first..got[s] THEN times[s][i] + 1 ELSE times[s][i]]
  <2>1. times'[s] = new /\ stream'[s] = stream[s] /\ DOMAIN new = DOMAIN times[s]
    BY <1>1, <1>2, <1>4 DEF OffsetTypes
  <2>2. UnackedEvents(s)' = I
    BY <2>1 DEF UnackedEvents
  <2>3. A \subseteq I /\ \A i \in I : i \in first..got[s] => i \in A
    <3>1. \A i \in first..got[s] : i \in 1..Len(stream[s])
      BY <1>4
    <3>2. \A i \in 1..Len(stream[s]) : stream[s][i] \in BOOLEAN
      BY <1>4
    <3> QED BY <1>4, <3>1, <3>2 DEF UnackedEvents
  <2>4. \A i \in I : new[i] = IF i \in A THEN times[s][i] + 1 ELSE times[s][i]
    BY <1>4, <2>3 DEF UnackedEvents
  <2>5. IsFiniteSet(I) /\ \A i \in I : times[s][i] \in Int
    BY <1>3
  <2>6. unacked = Cardinality(A)
    BY DEF Unacked
  <2> HIDE DEF I, A, new, unacked
  <2>7. SumFunctionOnSet(new, I) = SumFunctionOnSet(times[s], I) + Cardinality(A)
    BY <2>3, <2>4, <2>5, SumCountedOnceMore
  <2>8. UnackedTimes(s)' = UnackedTimes(s) + unacked
    BY <2>1, <2>2, <2>6, <2>7 DEF UnackedTimes, I
  <2>9. errorCount'[s] = errorCount[s] + unacked
    BY <1>1 DEF TypeInv, TypeOK
  <2> QED BY <1>3, <1>5, <1>7, <2>8, <2>9
<1> QED BY <1>6, <1>7

\* Putting a snapshot on the board charges its errors, once.
LEMMA PublishCharges ==
  ASSUME TypeInv, PublishSnapshot, NEW s \in Subs
  PROVE  /\ Charged(s)' \in Int
         /\ Charged(s)' <= Charged(s) + (IF snap.sub = s THEN snap.errors ELSE 0)
PROOF
<1> DEFINE B == {e \in board : e.sub = s}
           f == [e \in board |-> e.errors]
           g == [e \in board' |-> e.errors]
<1>1. flusher = "scored" /\ board' = board \cup {snap}
  BY DEF PublishSnapshot
<1>2. snap \in Snapshot /\ board \subseteq Snapshot /\ IsFiniteSet(board)
  BY <1>1 DEF TypeInv, TypeOK
<1>3. IsFiniteSet(B) /\ B \subseteq board
  BY <1>2, FS_Subset
<1>4. \A e \in B : f[e] \in Nat /\ g[e] = f[e]
  BY <1>1, <1>2, <1>3 DEF Snapshot
<1>5. {e \in board' : e.sub = s} = IF snap.sub = s THEN B \cup {snap} ELSE B
  BY <1>1
<1>6. g[snap] = snap.errors /\ snap.errors \in Nat
  BY <1>1, <1>2 DEF Snapshot
<1>7. Charged(s)' = SumFunctionOnSet(g, IF snap.sub = s THEN B \cup {snap} ELSE B)
  BY <1>5 DEF Charged
<1>8. Charged(s) = SumFunctionOnSet(f, B)
  BY DEF Charged
<1> HIDE DEF B, f, g
<1>9. SumFunctionOnSet(g, B) = SumFunctionOnSet(f, B)
  BY <1>3, <1>4, SumSame
<1>10. SumFunctionOnSet(f, B) \in Nat
  BY <1>3, <1>4, SumOfNaturals
<1>11. snap \notin B => SumFunctionOnSet(g, B \cup {snap}) = snap.errors + SumFunctionOnSet(g, B)
  <2>1. \A e \in B \cup {snap} : g[e] \in Int
    BY <1>4, <1>6
  <2> QED BY <1>3, <1>6, <2>1, SumAdd
<1>12. snap \in B => B \cup {snap} = B
  OBVIOUS
<1> QED BY <1>6, <1>7, <1>8, <1>9, <1>10, <1>11, <1>12

LEMMA ErrorStep ==
  ASSUME OffsetInv, OffsetInv', TypeInv, TypeInv', ErrorInv, [Next]_vars
  PROVE  ErrorInv'
PROOF
<1>1. OffsetTypes /\ OffsetTypes'
  BY DEF OffsetInv
<1>2. /\ \A s \in Subs : /\ Charged(s) \in Int /\ UnackedTimes(s) \in Int
                         /\ errorCount[s] \in Nat /\ ErrorsInBoth(s) \in Nat
                         /\ ErrorsInBoth(s) <= errorCount[s]
      /\ Flushing => snap \in Snapshot /\ snap.sub \in Subs
  BY <1>1, ErrorTypes DEF ErrorInv, ErrorsInBoth, Flushing, Snapshot
<1>3. ASSUME UNCHANGED <<board, errorCount, stream, times>>,
             \/ UNCHANGED <<flusher, snap>>
             \/ flusher' \notin {"scored", "published"} /\ flusher # "published"
      PROVE  ErrorInv'
  <2>1. \A s \in Subs : Charged(s)' = Charged(s) /\ UnackedTimes(s)' = UnackedTimes(s)
    BY <1>3 DEF Charged, UnackedTimes, UnackedEvents
  <2> QED BY <1>3, <2>1 DEF ErrorInv, ErrorsInBoth
<1>4. ASSUME NEW s \in Subs, NEW acked \in BOOLEAN, Emit(s, acked) PROVE ErrorInv'
  <2>1. \A q \in Subs : UnackedTimes(q)' = UnackedTimes(q)
    BY <1>1, <1>4, EmitErrors
  <2>2. UNCHANGED <<board, errorCount, flusher, snap>>
    BY <1>4 DEF Emit, processVars, flushVars
  <2>3. \A q \in Subs : Charged(q)' = Charged(q) /\ ErrorsInBoth(q)' = ErrorsInBoth(q)
    BY <2>2 DEF Charged, ErrorsInBoth
  <2> QED BY <2>1, <2>2, <2>3 DEF ErrorInv
<1>5. ASSUME NEW s \in Subs, ProcessMessages(s) PROVE ErrorInv'
  <2>1. \A q \in Subs : /\ UnackedTimes(q)' = UnackedTimes(q) + (errorCount'[q] - errorCount[q])
                        /\ errorCount[q] <= errorCount'[q]
    BY <1>5, ProcessErrors
  <2>2. UNCHANGED <<board, flusher, snap>>
    BY <1>5 DEF ProcessMessages, redisVars, flushVars
  <2>3. \A q \in Subs : Charged(q)' = Charged(q) /\ ErrorsInBoth(q)' = ErrorsInBoth(q)
    BY <2>2 DEF Charged, ErrorsInBoth
  <2>4. \A q \in Subs : errorCount'[q] \in Nat
    BY DEF TypeInv, TypeOK
  <2>5. \A q \in Subs : Charged(q)' + errorCount'[q] - ErrorsInBoth(q)' <= UnackedTimes(q)'
    BY <1>2, <2>1, <2>3, <2>4 DEF ErrorInv
  <2>6. flusher' \in {"scored", "published"} => snap'.errors <= errorCount'[snap'.sub]
    <3> SUFFICES ASSUME flusher \in {"scored", "published"}
                 PROVE  snap.errors <= errorCount'[snap.sub]
      BY <2>2
    <3>1. snap.sub \in Subs /\ snap.errors \in Nat /\ snap.errors <= errorCount[snap.sub]
      BY <1>2 DEF ErrorInv, Flushing, Snapshot
    <3> QED BY <1>2, <2>1, <2>4, <3>1
  <2> QED BY <2>5, <2>6 DEF ErrorInv
<1>6. CASE ReadErrors
  <2> DEFINE errors == errorCount[snap.sub]
  <2>1. /\ flusher = "counted" /\ flusher' = "scored"
        /\ snap' = [snap EXCEPT !.errors = errors, !.attempts = snap.count + errors]
        /\ UNCHANGED <<board, errorCount, stream, times>>
    BY <1>6 DEF ReadErrors, redisVars, processVars, observed
  <2>2. snap'.errors = errorCount[snap'.sub] /\ snap'.sub \in Subs
    BY <1>2, <2>1 DEF Flushing, Snapshot
  <2>3. \A s \in Subs : Charged(s)' = Charged(s) /\ UnackedTimes(s)' = UnackedTimes(s)
    BY <2>1 DEF Charged, UnackedTimes, UnackedEvents
  <2> QED BY <1>2, <2>1, <2>2, <2>3 DEF ErrorInv, ErrorsInBoth
<1>7. CASE PublishSnapshot
  <2>1. /\ flusher = "scored" /\ flusher' = "published" /\ snap' = snap
        /\ UNCHANGED <<errorCount, stream, times>>
    BY <1>7 DEF PublishSnapshot, processVars
  <2>2. \A s \in Subs : /\ Charged(s)' \in Int
                        /\ Charged(s)' <= Charged(s) + (IF snap.sub = s THEN snap.errors ELSE 0)
    BY <1>7, PublishCharges
  <2>3. \A s \in Subs : /\ UnackedTimes(s)' = UnackedTimes(s)
                        /\ ErrorsInBoth(s) = 0
                        /\ ErrorsInBoth(s)' = IF snap.sub = s THEN snap.errors ELSE 0
    BY <2>1 DEF UnackedTimes, UnackedEvents, ErrorsInBoth
  <2>4. snap.errors \in Nat
    BY <1>2, <2>1 DEF Flushing, Snapshot
  <2>5. \A s \in Subs : Charged(s)' + errorCount'[s] - ErrorsInBoth(s)' <= UnackedTimes(s)'
    BY <1>2, <2>1, <2>2, <2>3, <2>4 DEF ErrorInv
  <2> QED BY <2>1, <2>5 DEF ErrorInv
<1>8. CASE ResetWindow
  <2>1. /\ flusher = "published" /\ flusher' = "pick"
        /\ errorCount' = [errorCount EXCEPT ![snap.sub] = 0]
        /\ UNCHANGED <<board, stream, times>>
    BY <1>8 DEF ResetWindow, Cleared, redisVars
  <2>2. \A s \in Subs : /\ Charged(s)' = Charged(s) /\ UnackedTimes(s)' = UnackedTimes(s)
                        /\ ErrorsInBoth(s)' = 0
    BY <2>1 DEF Charged, UnackedTimes, UnackedEvents, ErrorsInBoth
  <2>3. \A s \in Subs : errorCount'[s] = IF s = snap.sub THEN 0 ELSE errorCount[s]
    BY <2>1 DEF TypeInv, TypeOK
  <2>4. \A s \in Subs : s # snap.sub => ErrorsInBoth(s) = 0
    BY DEF ErrorsInBoth
  <2> QED BY <1>2, <2>1, <2>2, <2>3, <2>4 DEF ErrorInv
<1>9. CASE Crash
  <2>1. /\ flusher' = "down" /\ errorCount' = [s \in Subs |-> 0]
        /\ UNCHANGED <<board, stream, times>>
    BY <1>9 DEF Crash, Zero, redisVars
  <2>2. \A s \in Subs : /\ Charged(s)' = Charged(s) /\ UnackedTimes(s)' = UnackedTimes(s)
                        /\ ErrorsInBoth(s)' = 0
    BY <2>1 DEF Charged, UnackedTimes, UnackedEvents, ErrorsInBoth
  <2> QED BY <1>2, <2>1, <2>2 DEF ErrorInv
<1>10. CASE LoadOffsets \/ ReadStreams \/ SaveOffset \/ StartRound \/ EndRound \/ Restart
              \/ (\E s \in Subs : TakeSnapshot(s)) \/ UNCHANGED vars
  <2>1. /\ UNCHANGED <<board, errorCount, stream, times>>
        /\ \/ UNCHANGED <<flusher, snap>>
           \/ flusher' \notin {"scored", "published"} /\ flusher # "published"
    BY <1>10 DEF LoadOffsets, ReadStreams, SaveOffset, StartRound, EndRound, Restart, TakeSnapshot,
                 vars, redisVars, processVars, flushVars, observed
  <2> QED BY <1>3, <2>1
<1> QED BY <1>4, <1>5, <1>6, <1>7, <1>8, <1>9, <1>10 DEF Next, Consume, Flush

\* The board never charges a submission for more errors than its unacked events
\* were counted: though error count and window are read an await apart and wiped
\* two awaits later, a snapshot takes each error at most once.
THEOREM NoErrorChargedTwice == Spec => []ErrorsCountedOnce
PROOF
<1>1. Init => ErrorInv
  <2> SUFFICES ASSUME Init PROVE ErrorInv
    OBVIOUS
  <2>1. ASSUME NEW s \in Subs PROVE Charged(s) = 0 /\ UnackedTimes(s) = 0
    <3>1. {e \in board : e.sub = s} = {}
      BY DEF Init
    <3>2. times[s] = <<>> /\ DOMAIN times[s] = {}
      BY DEF Init
    <3>3. UnackedEvents(s) = {}
      BY <3>2 DEF UnackedEvents
    <3> QED BY <3>1, <3>3, SumEmpty DEF Charged, UnackedTimes
  <2> QED BY <2>1 DEF Init, Zero, ErrorInv, ErrorsInBoth
<1>2. ErrorInv => ErrorsCountedOnce
  BY DEF ErrorInv, ErrorsCountedOnce, Charged, ErrorsInBoth, UnackedTimes, UnackedEvents
<1> QED BY <1>1, <1>2, ErrorStep, OffsetInvariant, TypeInvariant, PTL DEF Spec

---------------------------------------------------------------------------
(* How flush_snapshots gets on. *)

\* A window with events in it is one the next round will look at; while a snapshot is
\* on its way the round has not passed its window.
WindowsAreHeld ==
  /\ \A s \in Subs : eventCount[s] # 0 => s \in tracked
  /\ Flushing => snap.sub \in todo

RoundsPassNoWindow == [][\A s \in todo \ todo' : eventCount'[s] = 0]_vars

Stage == CASE flusher = "pick"      -> 0
           [] flusher = "counted"   -> 1
           [] flusher = "scored"    -> 2
           [] flusher = "published" -> 3
           [] OTHER                 -> 4

RoundsRunDown ==
  [][Flush /\ flusher # "sleep" => \/ todo' \subseteq todo /\ todo' # todo
                                   \/ todo' = todo /\ Stage' > Stage]_vars

LEMMA FlushStep ==
  TypeInv /\ WindowsAreHeld /\ [Next]_vars
    => /\ WindowsAreHeld'
       /\ \A s \in todo \ todo' : eventCount'[s] = 0
       /\ Flush /\ flusher # "sleep" => \/ todo' \subseteq todo /\ todo' # todo
                                        \/ todo' = todo /\ Stage' > Stage
PROOF
<1> DEFINE Passes == \A s \in todo \ todo' : eventCount'[s] = 0
           Nearer == \/ todo' \subseteq todo /\ todo' # todo
                     \/ todo' = todo /\ Stage' > Stage
<1> SUFFICES ASSUME TypeInv, WindowsAreHeld, [Next]_vars
             PROVE  WindowsAreHeld' /\ Passes /\ (Flush /\ flusher # "sleep" => Nearer)
  OBVIOUS
<1>1. /\ todo \subseteq tracked /\ tracked \subseteq Subs /\ eventCount \in [Subs -> Nat]
      /\ Flushing => snap \in Snapshot /\ snap.sub \in Subs
  BY DEF TypeInv, TypeOK, Flushing, Snapshot
<1>2. ASSUME UNCHANGED <<eventCount, tracked, todo, snap>>, Flushing' <=> Flushing
      PROVE  WindowsAreHeld' /\ Passes
  BY <1>2 DEF WindowsAreHeld
<1>3. ASSUME StartRound PROVE WindowsAreHeld' /\ Passes
  <2>1. /\ flusher = "sleep" /\ flusher' = "pick" /\ todo' = tracked
        /\ UNCHANGED <<eventCount, tracked, snap>>
    BY <1>3 DEF StartRound, processVars
  <2> QED BY <1>1, <2>1 DEF WindowsAreHeld, Flushing
<1>4. ASSUME EndRound PROVE WindowsAreHeld' /\ Passes /\ Nearer
  <2>1. /\ flusher = "pick" /\ flusher' = "sleep" /\ UNCHANGED <<eventCount, tracked, todo, snap>>
    BY <1>4 DEF EndRound, processVars
  <2>2. Nearer
    BY <2>1 DEF Stage
  <2> QED BY <1>2, <2>1, <2>2 DEF Flushing
<1>5. ASSUME NEW s \in Subs, TakeSnapshot(s) PROVE WindowsAreHeld' /\ Passes /\ Nearer
  <2>1. flusher = "pick" /\ s \in todo /\ UNCHANGED <<eventCount, tracked>>
    BY <1>5 DEF TakeSnapshot, processVars
  <2>2. CASE eventCount[s] = 0
    <3>1. todo' = todo \ {s} /\ UNCHANGED <<flusher, snap>>
      BY <1>5, <2>2 DEF TakeSnapshot
    <3> QED BY <2>1, <2>2, <3>1 DEF WindowsAreHeld, Flushing
  <2>3. CASE eventCount[s] # 0
    <3>1. todo' = todo /\ flusher' = "counted" /\ snap'.sub = s
      BY <1>5, <2>3 DEF TakeSnapshot
    <3>2. Nearer
      BY <2>1, <3>1 DEF Stage
    <3> QED BY <2>1, <3>1, <3>2 DEF WindowsAreHeld, Flushing
  <2> QED BY <2>2, <2>3
<1>6. ASSUME ReadErrors PROVE WindowsAreHeld' /\ Passes /\ Nearer
  <2>1. /\ flusher = "counted" /\ flusher' = "scored"
        /\ UNCHANGED <<eventCount, tracked, todo>>
        /\ snap' = [snap EXCEPT !.errors = errorCount[snap.sub],
                                !.attempts = snap.count + errorCount[snap.sub]]
    BY <1>6 DEF ReadErrors, processVars
  <2>2. snap'.sub = snap.sub
    BY <1>1, <2>1 DEF Flushing, Snapshot
  <2>3. Nearer
    BY <2>1 DEF Stage
  <2> QED BY <2>1, <2>2, <2>3 DEF WindowsAreHeld, Flushing
<1>7. ASSUME PublishSnapshot PROVE WindowsAreHeld' /\ Passes /\ Nearer
  <2>1. /\ flusher = "scored" /\ flusher' = "published"
        /\ UNCHANGED <<eventCount, tracked, todo, snap>>
    BY <1>7 DEF PublishSnapshot, processVars
  <2>2. Nearer
    BY <2>1 DEF Stage
  <2> QED BY <1>2, <2>1, <2>2 DEF Flushing
<1>8. ASSUME ResetWindow PROVE WindowsAreHeld' /\ Passes /\ Nearer
  <2>1. /\ flusher = "published" /\ flusher' = "pick" /\ todo' = todo \ {snap.sub}
        /\ eventCount' = [eventCount EXCEPT ![snap.sub] = 0] /\ UNCHANGED tracked
    BY <1>8 DEF ResetWindow, Cleared
  <2>2. snap.sub \in todo /\ snap.sub \in Subs
    BY <1>1, <2>1 DEF WindowsAreHeld, Flushing
  <2> QED BY <1>1, <2>1, <2>2 DEF WindowsAreHeld, Flushing
<1>9. ASSUME NEW s \in Subs, ProcessMessages(s) PROVE WindowsAreHeld' /\ Passes
  <2>1. /\ tracked' = tracked \cup {s} /\ UNCHANGED <<flusher, todo, snap>>
        /\ \A q \in Subs \ {s} : eventCount'[q] = eventCount[q]
    BY <1>1, <1>9 DEF ProcessMessages, flushVars
  <2> QED BY <2>1 DEF WindowsAreHeld, Flushing
<1>10. ASSUME Crash PROVE WindowsAreHeld' /\ Passes
  BY <1>1, <1>10 DEF Crash, Zero, WindowsAreHeld, Flushing
<1>11. ASSUME \/ LoadOffsets \/ ReadStreams \/ SaveOffset \/ Restart \/ UNCHANGED vars
              \/ \E s \in Subs, acked \in BOOLEAN : Emit(s, acked)
       PROVE  WindowsAreHeld' /\ Passes
  <2>1. UNCHANGED <<eventCount, tracked, todo, snap>>
        /\ (UNCHANGED flusher \/ (flusher = "down" /\ flusher' = "sleep"))
    BY <1>11 DEF LoadOffsets, ReadStreams, SaveOffset, Restart, Emit, vars, processVars, flushVars
  <2> QED BY <1>2, <2>1 DEF Flushing
<1>12. Flush => WindowsAreHeld' /\ Passes /\ (flusher # "sleep" => Nearer)
  <2> HIDE DEF Passes, Nearer
  <2>1. StartRound => flusher = "sleep"
    BY DEF StartRound
  <2> QED BY <1>3, <1>4, <1>5, <1>6, <1>7, <1>8, <2>1 DEF Flush
<1> HIDE DEF Passes, Nearer
<1>13. WindowsAreHeld' /\ Passes
  BY <1>9, <1>10, <1>11, <1>12 DEF Next, Consume
<1> QED BY <1>12, <1>13

\* A window with events in it is never out of the flusher's sight, and a snapshot on its
\* way belongs to a window its round has still to reset.
THEOREM NoWindowIsForgotten == Spec => []WindowsAreHeld
PROOF
<1>1. Init => WindowsAreHeld
  BY DEF Init, Zero, WindowsAreHeld, Flushing
<1> QED BY <1>1, FlushStep, TypeInvariant, PTL DEF Spec

\* A round ends: each of its steps passes a window for good or takes the one it is at to
\* the next await.  And it passes only windows it leaves empty, however much consume_loop
\* counts in between.  Besides fairness this is what WindowIsFlushed rests on.
THEOREM RoundsEnd == Spec => RoundsPassNoWindow /\ RoundsRunDown
PROOF
<1>1. TypeInv /\ WindowsAreHeld /\ [Next]_vars
        => /\ [\A s \in todo \ todo' : eventCount'[s] = 0]_vars
           /\ [Flush /\ flusher # "sleep" => \/ todo' \subseteq todo /\ todo' # todo
                                             \/ todo' = todo /\ Stage' > Stage]_vars
  BY FlushStep
<1> QED BY <1>1, NoWindowIsForgotten, TypeInvariant, PTL
        DEF Spec, RoundsPassNoWindow, RoundsRunDown
=============================================================================
