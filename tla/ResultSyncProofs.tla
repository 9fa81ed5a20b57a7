-------------------------- MODULE ResultSyncProofs --------------------------
(***************************************************************************)
(* Proofs about ResultSync for any number of entries, any size and number  *)
(* of batches, any number of copies and any bounds: type correctness, that *)
(* the center shows what ResultChannel allows, and which losses the copies *)
(* make up for.                                                            *)
(***************************************************************************)
EXTENDS ResultSync, FiniteSetTheorems, SequenceTheorems, TLAPS

-----------------------------------------------------------------------------
(* Batches and the queue of the center.                                    *)

LEMMA EntriesFinite == IsFiniteSet(Entries) /\ 0 \in Entries
<1>1. N \in Nat \ {0} BY InfoTableAssumption
<1>2. IsFiniteSet(0..(N - 1)) BY <1>1, FS_Interval
<1>3. QED BY <1>1, <1>2 DEF Entries

LEMMA BatchDef ==
  ASSUME NEW b
  PROVE  b \in Batches <=> DOMAIN b \subseteq Entries /\ b \in [DOMAIN b -> Values]
BY DEF Batches

LEMMA NoBatchIsBatch == NoBatch \in Batches /\ DOMAIN NoBatch = {}
BY BatchDef DEF NoBatch

LEMMA TakenFits ==
  ASSUME NEW f \in [Entries -> Flags], NEW m \in Entries, NEW end \in m..(N - 1),
         EndsAt(f, m, end)
  PROVE  Taken(f, m, end) \subseteq Entries /\ Cardinality(Taken(f, m, end)) <= Max
<1>1. Max \in Nat /\ N \in Nat BY InfoTableAssumption
<1>2. Taken(f, m, end) \subseteq m..end BY DEF Taken
<1>3. Taken(f, m, end) \subseteq Entries BY <1>1, <1>2 DEF Entries
<1>4. Cardinality(Taken(f, m, end)) \in Nat
  BY <1>3, EntriesFinite, FS_Subset, FS_CardinalityType
<1>5. QED BY <1>1, <1>3, <1>4 DEF EndsAt

\* The bound on all results together bounds those of each entry.
LEMMA PublishedBound ==
  ASSUME NEW i \in Entries, last \in [Entries -> Values], Cardinality(Published) < MaxRound
  PROVE  last[i] + 1 \in Rounds
<1>1. MaxRound \in Nat BY ResultSyncAssumption
<1> SUFFICES ASSUME last[i] >= MaxRound PROVE FALSE
  BY <1>1 DEF Values, Rounds, Blank
<1>2. IsFiniteSet(Rounds) /\ Cardinality(Rounds) = MaxRound
  BY <1>1, FS_Interval DEF Rounds
<1>3. IsFiniteSet(Entries \X Rounds) BY <1>2, EntriesFinite, FS_Product
<1>4. Published \in SUBSET (Entries \X Rounds) BY DEF Published
<1>5. IsFiniteSet(Published) BY <1>3, <1>4, FS_Subset
<1> DEFINE f == [r \in Rounds |-> <<i, r>>]
<1>6. \A r \in Rounds : <<i, r>> \in Published
  BY <1>1 DEF Published, Rounds, Values, Blank
<1>7. f \in Injection(Rounds, Published)
  BY <1>6 DEF Injection, IsInjective
<1> HIDE DEF f
<1>8. Cardinality(Rounds) <= Cardinality(Published)
  BY <1>5, <1>7, FS_Injection
<1>9. Cardinality(Published) \in Nat BY <1>5, FS_CardinalityType
<1>10. QED BY <1>1, <1>2, <1>8, <1>9

\* Taking one element out of a sequence.
LEMMA Removed ==
  ASSUME NEW S, NEW q \in Seq(S), NEW k \in 1..Len(q)
  PROVE  /\ Without(q, k) \in Seq(S)
         /\ Len(Without(q, k)) = Len(q) - 1
         /\ \A j \in 1..(Len(q) - 1) : Without(q, k)[j] = IF j < k THEN q[j] ELSE q[j + 1]
<1>1. Len(q) \in Nat /\ \A j \in 1..Len(q) : q[j] \in S
  BY LenProperties, ElementOfSeq
<1> DEFINE s == SubSeq(q, 1, k - 1)
           t == SubSeq(q, k + 1, Len(q))
<1>2. s \in Seq(S) /\ Len(s) = k - 1 /\ \A j \in 1..(k - 1) : s[j] = q[j]
  <2>1. \A j \in 1..(k - 1) : q[j] \in S BY <1>1
  <2>2. 1 \in Int /\ k - 1 \in Int BY <1>1
  <2>3. QED BY <1>1, <2>1, <2>2, SubSeqProperties
<1>3. /\ t \in Seq(S) /\ Len(t) = Len(q) - k
      /\ \A j \in 1..(Len(q) - k) : t[j] = q[j + k]
  <2>1. \A j \in (k + 1)..Len(q) : q[j] \in S BY <1>1
  <2>2. k + 1 \in Int /\ Len(q) \in Int BY <1>1
  <2>3. /\ t \in Seq(S) /\ Len(t) = IF k + 1 <= Len(q) THEN Len(q) - (k + 1) + 1 ELSE 0
        /\ \A j \in 1..(Len(q) - (k + 1) + 1) : t[j] = q[(k + 1) + j - 1]
    BY <2>1, <2>2, SubSeqProperties
  <2>4. QED BY <1>1, <2>3
<1> HIDE DEF s, t
<1>4. /\ s \o t \in Seq(S) /\ Len(s \o t) = Len(s) + Len(t)
      /\ \A j \in 1..(Len(s) + Len(t)) :
            (s \o t)[j] = IF j <= Len(s) THEN s[j] ELSE t[j - Len(s)]
  BY <1>2, <1>3, ConcatProperties
<1>5. Without(q, k) = s \o t BY DEF Without, s, t
<1>6. QED
  <2> SUFFICES ASSUME NEW j \in 1..(Len(q) - 1)
               PROVE (s \o t)[j] = IF j < k THEN q[j] ELSE q[j + 1]
    <3>1. Len(s) + Len(t) = Len(q) - 1 BY <1>1, <1>2, <1>3
    <3>2. QED BY <1>4, <1>5, <3>1
  <2>3. j < k \/ j >= k
    BY <1>1
  <2>1. CASE j < k
    BY <1>1, <1>2, <1>3, <1>4, <2>1
  <2>2. CASE j >= k
    <3>1. j - (k - 1) \in 1..(Len(q) - k) BY <1>1, <2>2
    <3>2. t[j - (k - 1)] = q[(j - (k - 1)) + k] BY <1>3, <3>1
    <3>3. (s \o t)[j] = t[j - (k - 1)] BY <1>1, <1>2, <1>3, <1>4, <2>2
    <3>4. (j - (k - 1)) + k = j + 1 BY <1>1
    <3>5. QED BY <2>2, <3>2, <3>3, <3>4
  <2>4. QED BY <2>1, <2>2, <2>3

LEMMA TailRemoves ==
  ASSUME NEW S, NEW q \in Seq(S), q # <<>>
  PROVE  /\ 1 \in 1..Len(q) /\ Head(q) = q[1] /\ Head(q) \in S
         /\ Tail(q) \in Seq(S) /\ Len(Tail(q)) = Len(q) - 1
         /\ \A j \in 1..(Len(q) - 1) : Tail(q)[j] = q[j + 1]
<1>1. Len(q) \in Nat \ {0} BY EmptySeq
<1>2. QED BY <1>1, HeadTailProperties

LEMMA SuffixOf ==
  ASSUME NEW S, NEW q \in Seq(S), NEW n \in 0..Len(q)
  PROVE  /\ SubSeq(q, n + 1, Len(q)) \in Seq(S)
         /\ Len(SubSeq(q, n + 1, Len(q))) = Len(q) - n
         /\ \A j \in 1..(Len(q) - n) : SubSeq(q, n + 1, Len(q))[j] = q[j + n]
<1>1. Len(q) \in Nat /\ \A j \in 1..Len(q) : q[j] \in S
  BY LenProperties, ElementOfSeq
<1>2. \A j \in (n + 1)..Len(q) : q[j] \in S BY <1>1
<1>3. n + 1 \in Int /\ Len(q) \in Int BY <1>1
<1> DEFINE t == SubSeq(q, n + 1, Len(q))
<1>4. /\ t \in Seq(S) /\ Len(t) = IF n + 1 <= Len(q) THEN Len(q) - (n + 1) + 1 ELSE 0
      /\ \A j \in 1..(Len(q) - (n + 1) + 1) : t[j] = q[(n + 1) + j - 1]
  BY <1>2, <1>3, SubSeqProperties
<1>5. QED BY <1>1, <1>4

-----------------------------------------------------------------------------
(* Type correctness.                                                       *)

\* The types, and that copies are counted while a batch is sent.
TypeInv == TypeOK /\ (pc = "send" => time \in 1..Times)

LEMMA TypeInit == Init => TypeInv
<1> SUFFICES ASSUME Init PROVE TypeInv
  OBVIOUS
<1> USE InfoTableAssumption, ResultSyncAssumption DEF Init
<1>1. batch \in Batches /\ applying \in Batches /\ Cardinality(DOMAIN batch) <= Max
  BY NoBatchIsBatch, FS_EmptySet
<1>2. net \in Seq(Batches)
  BY EmptySeq
<1>3. memo \in Entries
  BY EntriesFinite
<1>4. {flag, flag0} \subseteq [Entries -> Flags]
  OBVIOUS
<1>5. /\ val \in [Entries -> Values] /\ last \in [Entries -> Values]
      /\ cval \in [Entries -> Values \cup {Missing}] /\ applied \in [Entries -> Values]
      /\ {sent, failed} \subseteq [Entries -> Values]
  BY DEF Values
<1>6. faults \in [FaultKinds -> Nat]
  OBVIOUS
<1>7. part \in 0..Parts /\ time \in 0..Times /\ pc \in {"wait", "parse", "send"}
  OBVIOUS
<1>8. QED BY <1>1, <1>2, <1>3, <1>4, <1>5, <1>6, <1>7 DEF TypeOK, TypeInv

\* A new batch is made of the present values of some entries.
LEMMA NewBatch ==
  ASSUME TypeInv, Parse
  PROVE  /\ batch' \in Batches /\ Cardinality(DOMAIN batch') <= Max
         /\ \A i \in DOMAIN batch' : i \in Entries /\ batch'[i] = val[i]
         /\ \A i \in Entries : flag'[i] = IF i \in DOMAIN batch' THEN NotNewest ELSE flag[i]
         /\ flag' \in [Entries -> Flags] /\ memo' \in Entries
<1>0. /\ flag \in [Entries -> Flags] /\ memo \in Entries /\ val \in [Entries -> Values]
      /\ N \in Nat
  BY InfoTableAssumption DEF TypeInv, TypeOK
<1>1. PICK end \in memo..(N - 1) :
          /\ EndsAt(flag, memo, end)
          /\ batch' = [i \in Taken(flag, memo, end) |-> val[i]]
          /\ flag' = Unflag(flag, Taken(flag, memo, end))
          /\ memo' = NextMemo(end)
  BY DEF Parse
<1>2. Taken(flag, memo, end) \subseteq Entries /\ Cardinality(Taken(flag, memo, end)) <= Max
  BY <1>0, <1>1, TakenFits
<1>3. DOMAIN batch' = Taken(flag, memo, end) BY <1>1
<1>4. batch' \in Batches BY <1>0, <1>1, <1>2, <1>3, BatchDef
<1>5. memo' \in Entries
  BY <1>0, <1>1, EntriesFinite DEF NextMemo, Entries
<1>6. flag' \in [Entries -> Flags]
  BY <1>0, <1>1 DEF Unflag, Flags
<1>7. \A i \in Entries : flag'[i] = IF i \in DOMAIN batch' THEN NotNewest ELSE flag[i]
  BY <1>1, <1>3 DEF Unflag
<1>8. QED BY <1>1, <1>2, <1>3, <1>4, <1>5, <1>6, <1>7

\* What a step does to the thread that sends: its batch and its counters.
LEMMA Proceeds ==
  ASSUME TypeInv, pc = "send", Proceed
  PROVE  /\ batch' \in Batches /\ Cardinality(DOMAIN batch') <= Max
         /\ pc' \in {"wait", "parse", "send"} /\ part' \in 0..Parts /\ time' \in 0..Times
         /\ pc' = "send" => time' \in 1..Times
<1> USE ResultSyncAssumption, InfoTableAssumption DEF TypeInv, TypeOK, Proceed
<1>1. CASE time < Times
  BY <1>1
<1>2. CASE ~(time < Times)
  <2>1. batch' = NoBatch BY <1>2
  <2>2. batch' \in Batches /\ Cardinality(DOMAIN batch') <= Max
    BY <2>1, NoBatchIsBatch, FS_EmptySet
  <2>3. QED BY <1>2, <2>2
<1>3. QED BY <1>1, <1>2

\* One more fault.
LEMMA Counted ==
  ASSUME TypeOK, NEW kind \in FaultKinds, Fault(kind)
  PROVE  /\ faults' \in [FaultKinds -> Nat]
         /\ \A k \in FaultKinds : faults'[k] = IF k = kind THEN faults[k] + 1 ELSE faults[k]
BY DEF TypeOK, Fault

LEMMA TypeNext == TypeInv /\ [Next]_vars => TypeInv'
<1> SUFFICES ASSUME TypeInv, [Next]_vars PROVE TypeInv'
  OBVIOUS
<1> USE DEF TypeInv, TypeOK, node, thread, center
<1>1. ASSUME NEW i \in Entries, Update(i) PROVE TypeInv'
  <2>1. last[i] + 1 \in Rounds BY <1>1, PublishedBound DEF Update
  <2>2. last' \in [Entries -> Values] /\ val' \in [Entries -> Values]
    BY <1>1, <2>1 DEF Update, Values
  <2>3. {flag', flag0'} \subseteq [Entries -> Flags]
    BY <1>1 DEF Update, Flags
  <2>4. QED BY <1>1, <2>2, <2>3 DEF Update
<1>2. CASE BeginSync
  BY <1>2, ResultSyncAssumption DEF BeginSync
<1>3. CASE Parse
  <2>1. pc' = "send" /\ time' = 1 /\ 1 \in 1..Times
    BY <1>3, ResultSyncAssumption DEF Parse
  <2>2. UNCHANGED <<val, last, flag0, part, net, center, faults, sent, failed>>
    BY <1>3 DEF Parse
  <2>3. QED BY <1>3, <2>1, <2>2, NewBatch, ResultSyncAssumption
<1>4. CASE Send
  <2>1. net' \in Seq(Batches) BY <1>4, AppendProperties DEF Send
  <2>2. sent' \in [Entries -> Values]
    <3>1. batch \in [DOMAIN batch -> Values] BY BatchDef
    <3>2. QED BY <1>4, <3>1 DEF Send
  <2>3. UNCHANGED <<node, flag0, center, faults, failed>> BY <1>4 DEF Send
  <2>4. pc = "send" /\ Proceed BY <1>4 DEF Send
  <2>5. QED BY <2>1, <2>2, <2>3, <2>4, Proceeds
<1>5. CASE SendFails
  <2>1. /\ pc' = "wait" /\ part' = 0 /\ time' = 0 /\ batch' = NoBatch
        /\ Fault("failure") /\ UNCHANGED <<node, flag0, net, center, sent>>
    BY <1>5 DEF SendFails
  <2>2. batch' \in Batches /\ Cardinality(DOMAIN batch') <= Max
    BY <2>1, NoBatchIsBatch, FS_EmptySet, InfoTableAssumption
  <2>3. failed' \in [Entries -> Values]
    <3>1. batch \in [DOMAIN batch -> Values] BY BatchDef
    <3>2. QED BY <1>5, <3>1 DEF SendFails
  <2>4. faults' \in [FaultKinds -> Nat] BY <2>1, Counted DEF FaultKinds
  <2>5. QED BY <2>1, <2>2, <2>3, <2>4, ResultSyncAssumption
<1>6. CASE Restart
  <2>1. /\ pc' = "wait" /\ part' = 0 /\ time' = 0 /\ batch' = NoBatch
        /\ Fault("restart") /\ UNCHANGED <<last, flag0, net, center, sent, failed>>
        /\ flag' = flag0 /\ memo' = 0 /\ val' = [i \in Entries |-> Blank]
    BY <1>6 DEF Restart
  <2>2. batch' \in Batches /\ Cardinality(DOMAIN batch') <= Max
    BY <2>1, NoBatchIsBatch, FS_EmptySet, InfoTableAssumption
  <2>3. faults' \in [FaultKinds -> Nat] BY <2>1, Counted DEF FaultKinds
  <2>4. val' \in [Entries -> Values] /\ memo' \in Entries
    BY <2>1, EntriesFinite DEF Values
  <2>5. QED BY <2>1, <2>2, <2>3, <2>4, ResultSyncAssumption
<1>7. CASE Deliver
  <2>1. applying' \in Batches /\ net' \in Seq(Batches)
    BY <1>7, TailRemoves DEF Deliver
  <2>2. QED BY <1>7, <2>1 DEF Deliver
<1>8. ASSUME NEW k \in 1..Len(net), Lose(k) PROVE TypeInv'
  <2>1. net' \in Seq(Batches) BY <1>8, Removed DEF Lose
  <2>2. faults' \in [FaultKinds -> Nat] BY <1>8, Counted DEF FaultKinds, Lose
  <2>3. QED BY <1>8, <2>1, <2>2 DEF Lose
<1>9. ASSUME NEW k \in 1..Len(net), Overtake(k) PROVE TypeInv'
  <2>1. net' \in Seq(Batches) /\ applying' \in Batches
    BY <1>9, Removed, ElementOfSeq DEF Overtake
  <2>2. faults' \in [FaultKinds -> Nat] BY <1>9, Counted DEF FaultKinds, Overtake
  <2>3. QED BY <1>9, <2>1, <2>2 DEF Overtake
<1>10. CASE ApplyEntry
  <2>1. PICK i \in DOMAIN applying :
            /\ cval' = [cval EXCEPT ![i] = applying[i]]
            /\ applied' = [applied EXCEPT ![i] = IF @ > applying[i] THEN @ ELSE applying[i]]
            /\ applying' = [j \in DOMAIN applying \ {i} |-> applying[j]]
            /\ UNCHANGED <<node, flag0, thread, net, faults, sent, failed>>
    BY <1>10 DEF ApplyEntry
  <2>2. DOMAIN applying \subseteq Entries /\ applying \in [DOMAIN applying -> Values]
    BY BatchDef
  <2>3. i \in Entries /\ applying[i] \in Values BY <2>2
  <2>4. cval' \in [Entries -> Values \cup {Missing}] /\ applied' \in [Entries -> Values]
    BY <2>1, <2>3
  <2>5. applying' \in Batches
    BY <2>1, <2>2, BatchDef
  <2>6. QED BY <2>1, <2>4, <2>5
<1>11. CASE Recover
  <2>1. net' \in Seq(Batches) BY <1>11, SuffixOf DEF Recover
  <2>2. faults' \in [FaultKinds -> Nat] BY <1>11, Counted DEF FaultKinds, Recover
  <2>3. applying' \in Batches /\ cval' \in [Entries -> Values \cup {Missing}]
    BY <1>11, NoBatchIsBatch DEF Recover
  <2>4. QED BY <1>11, <2>1, <2>2, <2>3 DEF Recover
<1>12. CASE UNCHANGED vars
  BY <1>12 DEF vars
<1>13. QED
  BY <1>1, <1>2, <1>3, <1>4, <1>5, <1>6, <1>7, <1>8, <1>9, <1>10, <1>11, <1>12 DEF Next

LEMMA TypeInvariance == Spec => []TypeInv
  BY TypeInit, TypeNext, PTL DEF Spec

\* Every variable keeps its type; in particular no batch has more entries than
\* one message has room for, however many have changed.
THEOREM TypeCorrect == Spec => []TypeOK
<1>1. TypeInv => TypeOK BY DEF TypeInv
<1>2. QED BY <1>1, TypeInvariance, PTL

-----------------------------------------------------------------------------
(***************************************************************************)
(* What is under way has been published: the node shows the last result of *)
(* an entry or, after a restart, nothing; no batch holds a later one, and  *)
(* the center has applied no later one.                                    *)
(***************************************************************************)
Known(b) == \A i \in DOMAIN b : b[i] <= last[i]

KnownInv ==
    /\ \A i \in Entries : val[i] \in {Blank, last[i]} /\ applied[i] <= last[i]
    /\ Known(batch) /\ Known(applying)
    /\ \A k \in 1..Len(net) : Known(net[k])

\* Facts about types that the steps below keep needing.
Typed ==
    /\ val \in [Entries -> Nat] /\ last \in [Entries -> Nat]
    /\ applied \in [Entries -> Nat] /\ failed \in [Entries -> Nat]
    /\ Len(net) \in Nat /\ net \in Seq(Batches)
    /\ \A b \in Batches : DOMAIN b \subseteq Entries /\ b \in [DOMAIN b -> Nat]
    /\ batch \in Batches /\ applying \in Batches
    /\ \A k \in 1..Len(net) : net[k] \in Batches
    /\ faults \in [FaultKinds -> Nat]

LEMMA TypeFacts == TypeInv => Typed
<1> SUFFICES ASSUME TypeInv PROVE Typed
  OBVIOUS
<1>1. Values \subseteq Nat BY DEF Values, Rounds, Blank
<1>2. \A b \in Batches : DOMAIN b \subseteq Entries /\ b \in [DOMAIN b -> Nat]
  BY <1>1, BatchDef
<1>3. net \in Seq(Batches) BY DEF TypeInv, TypeOK
<1>4. \A k \in 1..Len(net) : net[k] \in Batches BY <1>3, ElementOfSeq
<1>5. Len(net) \in Nat BY <1>3, LenProperties
<1>6. /\ val \in [Entries -> Nat] /\ last \in [Entries -> Nat]
      /\ applied \in [Entries -> Nat] /\ failed \in [Entries -> Nat]
  BY <1>1 DEF TypeInv, TypeOK
<1>7. QED BY <1>2, <1>3, <1>4, <1>5, <1>6 DEF TypeInv, TypeOK, Typed

\* One turn of the loop that applies a batch, for the entry i.
Applies(i) ==
    /\ i \in DOMAIN applying /\ applying[i] \in Nat
    /\ cval' = [cval EXCEPT ![i] = applying[i]]
    /\ applied' = [applied EXCEPT ![i] =
                       IF applied[i] > applying[i] THEN applied[i] ELSE applying[i]]
    /\ DOMAIN applying' = DOMAIN applying \ {i}
    /\ \A j \in DOMAIN applying \ {i} : applying'[j] = applying[j]
    /\ UNCHANGED <<node, flag0, thread, net, faults, sent, failed>>

LEMMA EntryApplied ==
  ASSUME TypeInv, ApplyEntry
  PROVE  \E i \in Entries : Applies(i)
<1>1. PICK i \in DOMAIN applying :
          /\ cval' = [cval EXCEPT ![i] = applying[i]]
          /\ applied' = [applied EXCEPT ![i] = IF @ > applying[i] THEN @ ELSE applying[i]]
          /\ applying' = [j \in DOMAIN applying \ {i} |-> applying[j]]
          /\ UNCHANGED <<node, flag0, thread, net, faults, sent, failed>>
  BY DEF ApplyEntry
<1>2. i \in Entries /\ applying[i] \in Nat BY TypeFacts DEF Typed
<1>3. applied' = [applied EXCEPT ![i] =
                     IF applied[i] > applying[i] THEN applied[i] ELSE applying[i]]
  BY <1>1, <1>2, TypeFacts DEF Typed
<1>4. QED BY <1>1, <1>2, <1>3 DEF Applies

\* The messages that stay under way keep their order.
KeepsOrder(f) ==
    /\ f \in [1..Len(net') -> 1..Len(net)]
    /\ \A j \in 1..Len(net') : net'[j] = net[f[j]]
    /\ \A j, k \in 1..Len(net') : j < k => f[j] < f[k]

LEMMA DeliverKeepsOrder ==
  ASSUME Typed, Deliver
  PROVE  /\ \E f : KeepsOrder(f) /\ \A j \in 1..Len(net') : 1 < f[j]
         /\ 1 \in 1..Len(net) /\ applying' = net[1]
<1>1. net \in Seq(Batches) /\ net # <<>> /\ net' = Tail(net) /\ applying' = Head(net)
  BY DEF Typed, Deliver
<1>2. /\ 1 \in 1..Len(net) /\ Head(net) = net[1] /\ Len(net') = Len(net) - 1
      /\ \A j \in 1..(Len(net) - 1) : net'[j] = net[j + 1]
  BY <1>1, TailRemoves
<1> DEFINE f == [j \in 1..Len(net') |-> j + 1]
<1>3. Len(net) \in Nat BY DEF Typed
<1>4. KeepsOrder(f) /\ \A j \in 1..Len(net') : 1 < f[j]
  BY <1>2, <1>3 DEF KeepsOrder
<1>5. QED BY <1>1, <1>2, <1>4

LEMMA RemovalKeepsOrder ==
  ASSUME Typed, NEW k \in 1..Len(net), net' = Without(net, k)
  PROVE  \E f : KeepsOrder(f)
<1>1. /\ Len(net') = Len(net) - 1
      /\ \A j \in 1..(Len(net) - 1) : net'[j] = IF j < k THEN net[j] ELSE net[j + 1]
  BY Removed DEF Typed
<1> DEFINE f == [j \in 1..Len(net') |-> IF j < k THEN j ELSE j + 1]
<1>2. Len(net) \in Nat BY DEF Typed
<1>3. KeepsOrder(f) BY <1>1, <1>2 DEF KeepsOrder
<1>4. QED BY <1>3

LEMMA RecoverKeepsOrder ==
  ASSUME Typed, Recover
  PROVE  \E f : KeepsOrder(f)
<1>1. PICK waited \in 0..Len(net) : net' = SubSeq(net, waited + 1, Len(net))
  BY DEF Recover
<1>2. /\ Len(net') = Len(net) - waited
      /\ \A j \in 1..(Len(net) - waited) : net'[j] = net[j + waited]
  BY <1>1, SuffixOf DEF Typed
<1> DEFINE f == [j \in 1..Len(net') |-> j + waited]
<1>3. Len(net) \in Nat BY DEF Typed
<1>4. KeepsOrder(f) BY <1>2, <1>3 DEF KeepsOrder
<1>5. QED BY <1>4

LEMMA KnownInit == Init => KnownInv
<1> SUFFICES ASSUME Init PROVE KnownInv
  OBVIOUS
<1>1. Len(net) = 0 BY EmptySeq DEF Init
<1>2. Known(batch) /\ Known(applying) BY NoBatchIsBatch DEF Init, Known
<1>3. QED BY <1>1, <1>2 DEF Init, KnownInv, Blank

LEMMA KnownNext == TypeInv /\ KnownInv /\ [Next]_vars => KnownInv'
<1> SUFFICES ASSUME TypeInv, KnownInv, [Next]_vars PROVE KnownInv'
  OBVIOUS
<1>0. Typed BY TypeFacts
<1>1. ASSUME NEW f, KeepsOrder(f), UNCHANGED last
      PROVE  \A k \in 1..Len(net') : Known(net[k])'
  BY <1>1 DEF KnownInv, KeepsOrder, Known
<1> USE DEF KnownInv, node, thread, center
<1>2. ASSUME NEW i \in Entries, Update(i) PROVE KnownInv'
  <2>1. UNCHANGED <<net, batch, applying, applied>> BY <1>2 DEF Update
  <2>2. /\ \A j \in Entries : last[j] <= last'[j] /\ last'[j] \in Nat
        /\ \A j \in Entries : val'[j] \in {Blank, last'[j]}
    BY <1>0, <1>2 DEF Update, Typed
  <2>3. \A j \in Entries : applied'[j] <= last'[j]
    BY <1>0, <2>1, <2>2 DEF Typed
  <2>4. \A b \in Batches : Known(b) => \A j \in DOMAIN b : b[j] <= last'[j]
    BY <1>0, <2>2 DEF Known, Typed
  <2>5. QED BY <1>0, <2>1, <2>2, <2>3, <2>4 DEF Known, Typed
<1>3. CASE BeginSync
  BY <1>3 DEF BeginSync, Known
<1>4. CASE Parse
  <2>1. UNCHANGED <<val, last, net, applying, applied>> BY <1>4 DEF Parse, center
  <2>2. \A i \in DOMAIN batch' : i \in Entries /\ batch'[i] = val[i]
    BY <1>4, NewBatch
  <2>3. \A i \in Entries : val[i] <= last[i]
    <3> SUFFICES ASSUME NEW i \in Entries PROVE val[i] <= last[i]
      OBVIOUS
    <3>1. last[i] \in Nat BY <1>0 DEF Typed
    <3>2. val[i] = 0 \/ val[i] = last[i] BY DEF Blank
    <3>3. QED BY <3>1, <3>2
  <2>4. Known(batch)' BY <2>1, <2>2, <2>3 DEF Known
  <2>5. QED BY <2>1, <2>4 DEF Known
<1>5. CASE Send
  <2>1. UNCHANGED <<val, last, applying, applied>> BY <1>5 DEF Send
  <2>2. batch' = batch \/ batch' = NoBatch BY <1>5 DEF Send, Proceed
  <2>3. Known(batch)' BY <2>1, <2>2, NoBatchIsBatch DEF Known
  <2>4. /\ Len(net') = Len(net) + 1 /\ net'[Len(net) + 1] = batch
        /\ \A k \in 1..Len(net) : net'[k] = net[k]
    BY <1>0, <1>5, AppendProperties DEF Send, Typed
  <2>5. \A k \in 1..Len(net') : Known(net[k])'
    <3> SUFFICES ASSUME NEW k \in 1..Len(net') PROVE Known(net[k])'
      OBVIOUS
    <3>1. k \in 1..Len(net) \/ k = Len(net) + 1 BY <1>0, <2>4 DEF Typed
    <3>2. CASE k \in 1..Len(net)
      BY <2>1, <2>4, <3>2 DEF Known
    <3>3. CASE k = Len(net) + 1
      BY <2>1, <2>4, <3>3 DEF Known
    <3>4. QED BY <3>1, <3>2, <3>3
  <2>6. QED BY <2>1, <2>3, <2>5 DEF Known
<1>6. CASE SendFails
  BY <1>6, NoBatchIsBatch DEF SendFails, Known
<1>7. CASE Restart
  BY <1>7, NoBatchIsBatch DEF Restart, Known
<1>8. CASE Deliver
  <2>1. UNCHANGED <<val, last, batch, applied>> BY <1>8 DEF Deliver
  <2>2. Known(applying)'
    BY <1>0, <1>8, <2>1, DeliverKeepsOrder DEF Known
  <2>3. \A k \in 1..Len(net') : Known(net[k])'
    BY <1>0, <1>1, <1>8, <2>1, DeliverKeepsOrder
  <2>4. QED BY <2>1, <2>2, <2>3 DEF Known
<1>9. ASSUME NEW k \in 1..Len(net), Lose(k) PROVE KnownInv'
  <2>1. UNCHANGED <<val, last, batch, applying, applied>> BY <1>9 DEF Lose
  <2>2. \A j \in 1..Len(net') : Known(net[j])'
    BY <1>0, <1>1, <1>9, <2>1, RemovalKeepsOrder DEF Lose
  <2>3. QED BY <2>1, <2>2 DEF Known
<1>10. ASSUME NEW k \in 1..Len(net), Overtake(k) PROVE KnownInv'
  <2>1. UNCHANGED <<val, last, batch, applied>> BY <1>10 DEF Overtake
  <2>2. Known(applying)' BY <1>10, <2>1 DEF Overtake, Known
  <2>3. \A j \in 1..Len(net') : Known(net[j])'
    BY <1>0, <1>1, <1>10, <2>1, RemovalKeepsOrder DEF Overtake
  <2>4. QED BY <2>1, <2>2, <2>3 DEF Known
<1>11. CASE ApplyEntry
  <2>1. PICK i \in Entries : Applies(i)
    BY <1>11, EntryApplied
  <2>2. UNCHANGED <<val, last, batch, net>> BY <2>1 DEF Applies
  <2>3. Known(applying)' BY <2>1, <2>2 DEF Known, Applies
  <2>4. \A j \in Entries : applied'[j] <= last'[j]
    BY <1>0, <2>1, <2>2 DEF Known, Applies, Typed
  <2>5. QED BY <2>2, <2>3, <2>4 DEF Known
<1>12. CASE Recover
  <2>1. UNCHANGED <<val, last, batch, applied>> /\ applying' = NoBatch
    BY <1>12 DEF Recover
  <2>2. \A j \in 1..Len(net') : Known(net[j])'
    BY <1>0, <1>1, <1>12, <2>1, RecoverKeepsOrder
  <2>3. Known(applying)' BY <2>1, NoBatchIsBatch DEF Known
  <2>4. QED BY <2>1, <2>2, <2>3 DEF Known
<1>13. CASE UNCHANGED vars
  BY <1>13 DEF vars, Known
<1>14. QED
  BY <1>2, <1>3, <1>4, <1>5, <1>6, <1>7, <1>8, <1>9, <1>10, <1>11, <1>12, <1>13 DEF Next

-----------------------------------------------------------------------------
(***************************************************************************)
(* As long as no message has overtaken another one, every result that is   *)
(* under way is at least as new as those before it on the way, and as what *)
(* the center has applied.  Blank entries, which a restarted node sends,   *)
(* are the exception: they are older than anything.                        *)
(***************************************************************************)
Follows(b, c) == \A i \in DOMAIN b \cap DOMAIN c : c[i] # Blank => b[i] <= c[i]

Fresh(b) == \A i \in DOMAIN b : b[i] # Blank => applied[i] <= b[i]

Ordered ==
    /\ \A k \in 1..Len(net) : Fresh(net[k]) /\ Follows(applying, net[k]) /\ Follows(net[k], batch)
    /\ \A j, k \in 1..Len(net) : j < k => Follows(net[j], net[k])
    /\ Follows(applying, batch) /\ Fresh(applying) /\ Fresh(batch)

InOrder == faults.overtake = 0

OrderInv == InOrder => Ordered

LEMMA OrderInit == Init => OrderInv
<1> SUFFICES ASSUME Init PROVE Ordered
  BY DEF OrderInv
<1>1. Len(net) = 0 BY EmptySeq DEF Init
<1>2. DOMAIN batch = {} /\ DOMAIN applying = {} BY NoBatchIsBatch DEF Init
<1>3. QED BY <1>1, <1>2 DEF Ordered, Follows, Fresh

\* What the batch, the messages and the entries to apply lose keeps them in
\* order.
LEMMA FewerOrdered ==
  ASSUME Ordered, NEW f, KeepsOrder(f), UNCHANGED applied,
         UNCHANGED batch \/ batch' = NoBatch,
         UNCHANGED applying \/ applying' = NoBatch
  PROVE  Ordered'
<1>1. \A j \in 1..Len(net') : f[j] \in 1..Len(net) /\ net'[j] = net[f[j]]
  BY DEF KeepsOrder
<1>2. Fresh(batch)' /\ Fresh(applying)'
  BY NoBatchIsBatch DEF Ordered, Fresh
<1>3. Follows(applying, batch)'
  BY NoBatchIsBatch DEF Ordered, Follows
<1>4. ASSUME NEW k \in 1..Len(net')
      PROVE  Fresh(net[k])' /\ Follows(applying, net[k])' /\ Follows(net[k], batch)'
  <2>1. Fresh(net[f[k]]) /\ Follows(applying, net[f[k]]) /\ Follows(net[f[k]], batch)
    BY <1>1 DEF Ordered
  <2>2. Fresh(net[k])' BY <1>1, <2>1 DEF Fresh
  <2>3. Follows(applying, net[k])' BY <1>1, <2>1, NoBatchIsBatch DEF Follows
  <2>4. Follows(net[k], batch)' BY <1>1, <2>1, NoBatchIsBatch DEF Follows
  <2>5. QED BY <2>2, <2>3, <2>4
<1>5. ASSUME NEW j \in 1..Len(net'), NEW k \in 1..Len(net'), j < k
      PROVE  Follows(net[j], net[k])'
  <2>1. f[j] < f[k] BY <1>5 DEF KeepsOrder
  <2>2. Follows(net[f[j]], net[f[k]]) BY <1>1, <2>1 DEF Ordered
  <2>3. QED BY <1>1, <2>2 DEF Follows
<1>6. QED BY <1>2, <1>3, <1>4, <1>5 DEF Ordered

LEMMA ParseOrdered ==
  ASSUME TypeInv, Typed, KnownInv, Ordered, Parse
  PROVE  Ordered'
<1>1. UNCHANGED <<net, applying, applied>> BY DEF Parse, center
<1>2. \A i \in DOMAIN batch' :
          /\ i \in Entries /\ batch'[i] = val[i]
          /\ val[i] # Blank => val[i] = last[i]
  BY NewBatch DEF KnownInv
<1>3. \A b : Known(b) => \A i \in DOMAIN b \cap DOMAIN batch' :
                            batch'[i] # Blank => b[i] <= batch'[i]
  BY <1>2 DEF Known
<1>4. Follows(applying, batch)' BY <1>1, <1>3 DEF KnownInv, Follows
<1>5. \A k \in 1..Len(net') : Follows(net[k], batch)'
  BY <1>1, <1>3 DEF KnownInv, Follows
<1>6. Fresh(batch)' BY <1>1, <1>2 DEF KnownInv, Fresh
<1>7. /\ \A k \in 1..Len(net') : Fresh(net[k])' /\ Follows(applying, net[k])'
      /\ \A j, k \in 1..Len(net') : j < k => Follows(net[j], net[k])'
      /\ Fresh(applying)'
  BY <1>1 DEF Ordered, Fresh, Follows
<1>8. QED BY <1>4, <1>5, <1>6, <1>7 DEF Ordered

LEMMA SendOrdered ==
  ASSUME Typed, Ordered, Send
  PROVE  Ordered'
<1>1. UNCHANGED <<applying, applied>> /\ (batch' = batch \/ batch' = NoBatch)
  BY DEF Send, Proceed, center
<1>2. /\ Len(net') = Len(net) + 1 /\ net'[Len(net) + 1] = batch
      /\ \A k \in 1..Len(net) : net'[k] = net[k]
  BY AppendProperties DEF Send, Typed
<1>3. \A i \in DOMAIN batch : batch[i] <= batch[i] BY DEF Typed
<1>4. Len(net) \in Nat BY DEF Typed
<1>5. \A k \in 1..Len(net') : k \in 1..Len(net) \/ k = Len(net) + 1
  BY <1>2, <1>4
<1>6. Follows(applying, batch)' /\ Fresh(batch)' /\ Fresh(applying)'
  BY <1>1, NoBatchIsBatch DEF Ordered, Fresh, Follows
<1>7. ASSUME NEW k \in 1..Len(net')
      PROVE  Fresh(net[k])' /\ Follows(applying, net[k])' /\ Follows(net[k], batch)'
  <2>1. CASE k \in 1..Len(net)
    <3>1. net'[k] = net[k] BY <1>2, <2>1
    <3>2. Fresh(net[k]) /\ Follows(applying, net[k]) /\ Follows(net[k], batch)
      BY <2>1 DEF Ordered
    <3>3. QED BY <1>1, <3>1, <3>2, NoBatchIsBatch DEF Fresh, Follows
  <2>2. CASE k = Len(net) + 1
    <3>1. net'[k] = batch BY <1>2, <2>2
    <3>2. Fresh(batch) /\ Follows(applying, batch) /\ Follows(batch, batch)
      BY <1>3 DEF Ordered, Follows
    <3>3. QED BY <1>1, <3>1, <3>2, NoBatchIsBatch DEF Fresh, Follows
  <2>3. QED BY <1>5, <2>1, <2>2
<1>8. ASSUME NEW j \in 1..Len(net'), NEW k \in 1..Len(net'), j < k
      PROVE  Follows(net[j], net[k])'
  <2>1. j \in 1..Len(net) /\ net'[j] = net[j] BY <1>2, <1>4, <1>8
  <2>2. CASE k \in 1..Len(net)
    BY <1>2, <1>8, <2>1, <2>2 DEF Ordered, Follows
  <2>3. CASE k = Len(net) + 1
    BY <1>2, <2>1, <2>3 DEF Ordered, Follows
  <2>4. QED BY <1>5, <2>2, <2>3
<1>9. QED BY <1>6, <1>7, <1>8 DEF Ordered

LEMMA DeliverOrdered ==
  ASSUME Typed, Ordered, Deliver
  PROVE  Ordered'
<1>1. UNCHANGED <<batch, applied>> BY DEF Deliver, thread
<1>2. PICK f : KeepsOrder(f) /\ \A j \in 1..Len(net') : 1 < f[j]
  BY DeliverKeepsOrder
<1>3. 1 \in 1..Len(net) /\ applying' = net[1] BY DeliverKeepsOrder
<1>4. \A j \in 1..Len(net') : f[j] \in 1..Len(net) /\ net'[j] = net[f[j]]
  BY <1>2 DEF KeepsOrder
<1>5. Fresh(batch)' /\ Fresh(applying)' /\ Follows(applying, batch)'
  BY <1>1, <1>3 DEF Ordered, Fresh, Follows
<1>6. ASSUME NEW k \in 1..Len(net')
      PROVE  Fresh(net[k])' /\ Follows(applying, net[k])' /\ Follows(net[k], batch)'
  <2>1. Fresh(net[f[k]]) /\ Follows(net[1], net[f[k]]) /\ Follows(net[f[k]], batch)
    BY <1>2, <1>3, <1>4 DEF Ordered
  <2>2. QED BY <1>1, <1>3, <1>4, <2>1 DEF Fresh, Follows
<1>7. ASSUME NEW j \in 1..Len(net'), NEW k \in 1..Len(net'), j < k
      PROVE  Follows(net[j], net[k])'
  <2>1. f[j] < f[k] BY <1>2, <1>7 DEF KeepsOrder
  <2>2. Follows(net[f[j]], net[f[k]]) BY <1>4, <2>1 DEF Ordered
  <2>3. QED BY <1>4, <2>2 DEF Follows
<1>8. QED BY <1>5, <1>6, <1>7 DEF Ordered

LEMMA ApplyOrdered ==
  ASSUME Typed, Ordered, NEW i \in Entries, Applies(i)
  PROVE  Ordered'
<1>1. UNCHANGED <<batch, net>> BY DEF Applies, thread
<1>2. /\ DOMAIN applying' \subseteq DOMAIN applying
      /\ \A j \in DOMAIN applying' : j # i /\ applying'[j] = applying[j]
      /\ i \in DOMAIN applying
  BY DEF Applies
<1>3. /\ \A j \in Entries \ {i} : applied'[j] = applied[j]
      /\ applied'[i] = applied[i] \/ applied'[i] = applying[i]
  BY DEF Applies, Typed
<1>4. ASSUME NEW b \in Batches, Fresh(b), Follows(applying, b)
      PROVE  Fresh(b)'
  <2> SUFFICES ASSUME NEW j \in DOMAIN b, b[j] # Blank PROVE applied'[j] <= b[j]
    BY DEF Fresh
  <2>1. j \in Entries BY DEF Typed
  <2>2. CASE j # i BY <1>3, <1>4, <2>1, <2>2 DEF Fresh
  <2>3. CASE j = i BY <1>2, <1>3, <1>4, <2>3 DEF Fresh, Follows
  <2>4. QED BY <2>2, <2>3
<1>5. ASSUME NEW b, Follows(applying, b)
      PROVE  \A j \in DOMAIN applying' \cap DOMAIN b : b[j] # Blank => applying'[j] <= b[j]
  BY <1>2, <1>5 DEF Follows
<1>6. Fresh(applying)'
  <2> SUFFICES ASSUME NEW j \in DOMAIN applying', applying'[j] # Blank
               PROVE applied'[j] <= applying'[j]
    BY DEF Fresh
  <2>1. j \in Entries \ {i} /\ applying'[j] = applying[j] /\ j \in DOMAIN applying
    BY <1>2 DEF Typed
  <2>2. QED BY <1>3, <2>1 DEF Ordered, Fresh
<1>7. Fresh(batch)' /\ Follows(applying, batch)'
  <2>1. batch \in Batches /\ Fresh(batch) /\ Follows(applying, batch) BY DEF Ordered, Typed
  <2>2. Fresh(batch)' BY <1>1, <1>4, <2>1 DEF Fresh
  <2>3. Follows(applying, batch)' BY <1>1, <1>5, <2>1 DEF Follows
  <2>4. QED BY <2>2, <2>3
<1>8. ASSUME NEW k \in 1..Len(net')
      PROVE  Fresh(net[k])' /\ Follows(applying, net[k])' /\ Follows(net[k], batch)'
  <2>1. /\ net[k] \in Batches /\ Fresh(net[k]) /\ Follows(applying, net[k])
        /\ Follows(net[k], batch)
    BY <1>1 DEF Ordered, Typed
  <2>2. Fresh(net[k])' BY <1>1, <1>4, <2>1 DEF Fresh
  <2>3. Follows(applying, net[k])' BY <1>1, <1>5, <2>1 DEF Follows
  <2>4. Follows(net[k], batch)' BY <1>1, <2>1 DEF Follows
  <2>5. QED BY <2>2, <2>3, <2>4
<1>9. \A j, k \in 1..Len(net') : j < k => Follows(net[j], net[k])'
  BY <1>1 DEF Ordered, Follows
<1>10. QED BY <1>7, <1>6, <1>8, <1>9 DEF Ordered

\* Only the message that gets the mutex out of its turn breaks the order, and
\* that is never forgotten.
LEMMA OvertakesCounted ==
  ASSUME TypeInv, [Next]_vars
  PROVE  /\ InOrder' => InOrder
         /\ (\E k \in 1..Len(net) : Overtake(k)) => ~InOrder'
         /\ ~(\E k \in 1..Len(net) : Overtake(k)) => (InOrder' <=> InOrder)
<1> USE DEF InOrder, FaultKinds
<1>1. TypeOK /\ faults.overtake \in Nat BY DEF TypeInv, TypeOK
<1>2. ASSUME NEW kind \in FaultKinds, Fault(kind)
      PROVE  faults'.overtake = IF kind = "overtake" THEN faults.overtake + 1 ELSE faults.overtake
  BY <1>1, <1>2, Counted
<1>3. ASSUME NEW k \in 1..Len(net), Overtake(k)
      PROVE  ~InOrder'
  BY <1>1, <1>2, <1>3 DEF Overtake
<1>4. ASSUME ~(\E k \in 1..Len(net) : Overtake(k))
      PROVE  faults'.overtake = faults.overtake
  <2>1. ASSUME \E i \in Entries : Update(i) PROVE faults'.overtake = faults.overtake
    BY <2>1 DEF Update
  <2>2. CASE BeginSync \/ Parse \/ Send \/ Deliver \/ ApplyEntry
    BY <2>2 DEF BeginSync, Parse, Send, Deliver, ApplyEntry
  <2>3. CASE SendFails
    BY <1>2, <2>3 DEF SendFails
  <2>4. CASE Restart
    BY <1>2, <2>4 DEF Restart
  <2>5. ASSUME NEW k \in 1..Len(net), Lose(k) PROVE faults'.overtake = faults.overtake
    BY <1>2, <2>5 DEF Lose
  <2>6. CASE Recover
    BY <1>2, <2>6 DEF Recover
  <2>7. CASE UNCHANGED vars
    BY <2>7 DEF vars
  <2>8. QED BY <1>4, <2>1, <2>2, <2>3, <2>4, <2>5, <2>6, <2>7 DEF Next
<1>5. QED BY <1>3, <1>4

LEMMA OrderNext == TypeInv /\ KnownInv /\ OrderInv /\ [Next]_vars => OrderInv'
<1> SUFFICES ASSUME TypeInv, KnownInv, OrderInv, [Next]_vars, InOrder' PROVE Ordered'
  BY DEF OrderInv
<1>1. Typed BY TypeFacts
<1>2. InOrder /\ ~(\E k \in 1..Len(net) : Overtake(k)) BY OvertakesCounted
<1>3. Ordered BY <1>2 DEF OrderInv
<1>4. ASSUME UNCHANGED <<net, applied>>, UNCHANGED batch \/ batch' = NoBatch, UNCHANGED applying
      PROVE  Ordered'
  <2> DEFINE f == [j \in 1..Len(net') |-> j]
  <2>1. KeepsOrder(f) BY <1>1, <1>4 DEF KeepsOrder, Typed
  <2>2. QED BY <1>3, <1>4, <2>1, FewerOrdered
<1>5. ASSUME NEW i \in Entries, Update(i) PROVE Ordered'
  BY <1>4, <1>5 DEF Update, thread, center
<1>6. CASE BeginSync
  BY <1>4, <1>6 DEF BeginSync, center
<1>7. CASE Parse
  BY <1>1, <1>3, <1>7, ParseOrdered
<1>8. CASE Send
  BY <1>1, <1>3, <1>8, SendOrdered
<1>9. CASE SendFails
  BY <1>4, <1>9 DEF SendFails, center
<1>10. CASE Restart
  BY <1>4, <1>10 DEF Restart, center
<1>11. CASE Deliver
  BY <1>1, <1>3, <1>11, DeliverOrdered
<1>12. ASSUME NEW k \in 1..Len(net), Lose(k) PROVE Ordered'
  <2>1. UNCHANGED <<batch, applying, applied>> BY <1>12 DEF Lose, thread, center
  <2>2. \E f : KeepsOrder(f) BY <1>1, <1>12, RemovalKeepsOrder DEF Lose
  <2>3. QED BY <1>3, <2>1, <2>2, FewerOrdered
<1>13. CASE ApplyEntry
  BY <1>1, <1>3, <1>13, EntryApplied, ApplyOrdered
<1>14. CASE Recover
  <2>1. UNCHANGED <<batch, applied>> /\ applying' = NoBatch BY <1>14 DEF Recover, thread
  <2>2. \E f : KeepsOrder(f) BY <1>1, <1>14, RecoverKeepsOrder
  <2>3. QED BY <1>3, <2>1, <2>2, FewerOrdered
<1>15. CASE UNCHANGED vars
  BY <1>4, <1>15 DEF vars, thread, center
<1>16. QED
  BY <1>2, <1>5, <1>6, <1>7, <1>8, <1>9, <1>10, <1>11, <1>12, <1>13, <1>14, <1>15 DEF Next

LEMMA ChannelInvariance == Spec => [](TypeInv /\ KnownInv /\ OrderInv)
<1>1. Init => TypeInv /\ KnownInv /\ OrderInv
  BY TypeInit, KnownInit, OrderInit
<1>2. TypeInv /\ KnownInv /\ OrderInv /\ [Next]_vars => (TypeInv /\ KnownInv /\ OrderInv)'
  BY TypeNext, KnownNext, OrderNext
<1>3. QED BY <1>1, <1>2, PTL DEF Spec

-----------------------------------------------------------------------------
(***************************************************************************)
(* The center shows what ResultChannel allows.                             *)
(***************************************************************************)

LEMMA ChannelInit == Init => Channel!Init
<1> SUFFICES ASSUME Init PROVE Channel!Init
  OBVIOUS
<1>1. (faults.overtake = 0) = TRUE BY DEF Init, FaultKinds
<1>2. QED BY <1>1 DEF Init, Channel!Init

LEMMA ChannelNext ==
  ASSUME TypeInv, KnownInv, OrderInv, [Next]_vars
  PROVE  [Channel!Next]_(Channel!vars)
<1>0. Typed BY TypeFacts
<1> USE DEF InOrder
<1>1. ASSUME ~(\E k \in 1..Len(net) : Overtake(k))
      PROVE  (faults'.overtake = 0) = (faults.overtake = 0)
  BY <1>1, OvertakesCounted
<1>2. ASSUME ~(\E k \in 1..Len(net) : Overtake(k)), UNCHANGED <<last, cval, applied>>
      PROVE  UNCHANGED Channel!vars
  BY <1>1, <1>2 DEF Channel!vars
<1>3. ASSUME NEW k \in 1..Len(net), Overtake(k)
      PROVE  Channel!Overtake
  <2>1. (faults'.overtake = 0) = FALSE BY <1>3, OvertakesCounted
  <2>2. QED BY <1>3, <2>1 DEF Overtake, Channel!Overtake, node
<1> SUFFICES ASSUME ~(\E k \in 1..Len(net) : Overtake(k))
             PROVE  [Channel!Next]_(Channel!vars)
  BY <1>3 DEF Channel!Next
<1>4. ASSUME NEW i \in Entries, Update(i) PROVE Channel!Publish(i)
  <2>1. last[i] < MaxRound
    <3>1. last[i] + 1 \in Rounds BY <1>4, PublishedBound DEF Update, TypeInv, TypeOK
    <3>2. last[i] \in Nat /\ MaxRound \in Nat BY <1>0, ResultSyncAssumption DEF Typed
    <3>3. QED BY <3>1, <3>2 DEF Rounds
  <2>2. QED BY <1>1, <1>4, <2>1 DEF Update, Channel!Publish, center
<1>5. CASE BeginSync \/ Parse \/ Send \/ SendFails \/ Restart \/ Deliver
  BY <1>2, <1>5 DEF BeginSync, Parse, Send, SendFails, Restart, Deliver, node, center
<1>6. ASSUME NEW k \in 1..Len(net), Lose(k) PROVE UNCHANGED Channel!vars
  BY <1>2, <1>6 DEF Lose, node, center
<1>7. ASSUME NEW i \in Entries, Applies(i)
      PROVE  Channel!Show(i) \/ Channel!ShowBlank(i)
  <2>1. UNCHANGED last BY <1>7 DEF Applies, node
  <2>2. CASE applying[i] = Blank
    <3>1. applied' = applied
      BY <1>0, <1>7, <2>2 DEF Applies, Typed, Blank
    <3>2. QED BY <1>1, <1>7, <2>1, <2>2, <3>1 DEF Applies, Channel!ShowBlank
  <2>3. CASE applying[i] # Blank
    <3>1. applying[i] \in 1..last[i]
      BY <1>0, <1>7, <2>3 DEF Applies, KnownInv, Known, Blank, Typed
    <3>2. (faults.overtake = 0) => applying[i] >= applied[i]
      BY <1>7, <2>3 DEF OrderInv, Ordered, Fresh, Applies
    <3>3. QED BY <1>0, <1>1, <1>7, <2>1, <3>1, <3>2 DEF Applies, Channel!Show, Typed
  <2>4. QED BY <2>2, <2>3
<1>8. CASE Recover
  <2>1. Channel!Forget BY <1>1, <1>8 DEF Recover, node, Channel!Forget
  <2>2. QED BY <2>1 DEF Channel!Next
<1>9. CASE UNCHANGED vars
  BY <1>2, <1>9 DEF vars, node, center
<1>10. QED
  BY <1>4, <1>5, <1>2, <1>6, <1>7, <1>8, <1>9, EntryApplied DEF Next, Channel!Next

\* The synchronisation implements ResultChannel: whatever is lost, repeated or
\* restarted, the center shows of each entry nothing, the blank entry or a
\* result the node has published, and never an older result after a newer one
\* unless a thread of the center has got the mutex out of its turn.
THEOREM ImplementsChannel == Spec => ChannelSpec
<1>1. TypeInv /\ KnownInv /\ OrderInv /\ [Next]_vars => [Channel!Next]_(Channel!vars)
  BY ChannelNext
<1>2. QED BY <1>1, ChannelInit, ChannelInvariance, PTL DEF Spec, ChannelSpec, Channel!Spec

-----------------------------------------------------------------------------
(***************************************************************************)
(* Losses.                                                                 *)
(*                                                                         *)
(* The present value of an entry that is no longer flagged is in as many   *)
(* messages as the thread has sent of its batch, but for those lost: the   *)
(* copies so far while it sends the batch, all of them afterwards, or at   *)
(* least the first one when a send has failed since.  That it is still in  *)
(* a message holds until the center has taken one of them.                 *)
(***************************************************************************)
Holds(b, i, v) == i \in DOMAIN b /\ b[i] = v

Holding(q, i, v) == {k \in 1..Len(q) : Holds(q[k], i, v)}

Copies(q, i, v) == Cardinality(Holding(q, i, v))

Sending(i) == pc = "send" /\ Holds(batch, i, val[i])

CopiesLeft(i) ==
    /\ Sending(i) => Copies(net, i, val[i]) + faults.loss >= time - 1
    /\ ~Sending(i) => Copies(net, i, val[i]) + faults.loss >= 1
    /\ ~Sending(i) /\ faults.failure = 0 => Copies(net, i, val[i]) + faults.loss >= Times

Kept(i) ==
    \/ val[i] = Blank
    \/ flag[i] = Newest
    \/ failed[i] = val[i]
    \/ applied[i] >= val[i]
    \/ Holds(applying, i, val[i])
    \/ CopiesLeft(i)

\* What the thread sends of an entry is its present value, if it has not
\* changed since.
BatchCurrent ==
    pc = "send" => \A i \in DOMAIN batch : flag[i] = NotNewest => batch[i] = val[i]

KeptInv == faults.recovery = 0 => BatchCurrent /\ \A i \in Entries : Kept(i)

LEMMA CopiesType ==
  ASSUME NEW S, NEW q \in Seq(S), NEW i, NEW v
  PROVE  /\ Holding(q, i, v) \subseteq 1..Len(q) /\ IsFiniteSet(Holding(q, i, v))
         /\ Copies(q, i, v) \in Nat
<1>1. Len(q) \in Nat BY LenProperties
<1>2. IsFiniteSet(1..Len(q)) BY <1>1, FS_Interval
<1>3. Holding(q, i, v) \in SUBSET (1..Len(q)) BY DEF Holding
<1>4. IsFiniteSet(Holding(q, i, v)) BY <1>2, <1>3, FS_Subset
<1>5. QED BY <1>3, <1>4, FS_CardinalityType DEF Copies

\* Of the copies of a value, one message less holds at most one less, and none
\* less when that message did not hold it.
LEMMA CopiesWithout ==
  ASSUME NEW S, NEW q \in Seq(S), NEW r \in Seq(S), NEW k \in 1..Len(q), NEW i, NEW v,
         Len(r) = Len(q) - 1,
         \A j \in 1..(Len(q) - 1) : r[j] = IF j < k THEN q[j] ELSE q[j + 1]
  PROVE  /\ Copies(r, i, v) + 1 >= Copies(q, i, v)
         /\ ~Holds(q[k], i, v) => Copies(r, i, v) >= Copies(q, i, v)
<1> DEFINE others == Holding(q, i, v) \ {k}
           f == [j \in others |-> IF j < k THEN j ELSE j - 1]
<1>1. Len(q) \in Nat BY LenProperties
<1>2. /\ IsFiniteSet(Holding(q, i, v)) /\ IsFiniteSet(Holding(r, i, v))
      /\ Copies(q, i, v) \in Nat /\ Copies(r, i, v) \in Nat
      /\ Holding(q, i, v) \subseteq 1..Len(q)
  BY CopiesType
<1>3. ASSUME NEW j \in others
      PROVE  f[j] \in Holding(r, i, v)
  <2>1. j \in 1..Len(q) /\ j # k /\ Holds(q[j], i, v) BY DEF Holding
  <2>2. CASE j < k
    <3>1. j \in 1..(Len(q) - 1) /\ r[j] = q[j] BY <1>1, <2>1, <2>2
    <3>2. QED BY <2>1, <2>2, <3>1 DEF Holding
  <2>3. CASE ~(j < k)
    <3>1. j - 1 \in 1..(Len(q) - 1) /\ ~(j - 1 < k) /\ (j - 1) + 1 = j BY <1>1, <2>1, <2>3
    <3>2. r[j - 1] = q[j] BY <3>1
    <3>3. QED BY <2>1, <2>3, <3>1, <3>2 DEF Holding
  <2>4. QED BY <2>2, <2>3
<1>4. ASSUME NEW a \in others, NEW b \in others, f[a] = f[b]
      PROVE  a = b
  <2>1. a \in Int /\ b \in Int /\ k \in Int /\ a # k /\ b # k BY <1>1, <1>2
  <2>2. QED BY <1>4, <2>1
<1>5. f \in Injection(others, Holding(r, i, v))
  BY <1>3, <1>4 DEF Injection, IsInjective
<1>6. /\ IsFiniteSet(others)
      /\ Cardinality(others) = IF k \in Holding(q, i, v) THEN Copies(q, i, v) - 1
                               ELSE Copies(q, i, v)
  BY <1>2, FS_RemoveElement DEF Copies
<1> HIDE DEF others, f
<1>7. Cardinality(others) <= Copies(r, i, v) BY <1>2, <1>5, FS_Injection DEF Copies
<1>8. k \in Holding(q, i, v) <=> Holds(q[k], i, v) BY DEF Holding
<1>9. QED BY <1>2, <1>6, <1>7, <1>8

LEMMA CopiesAppend ==
  ASSUME NEW S, NEW q \in Seq(S), NEW b \in S, NEW i, NEW v
  PROVE  Copies(Append(q, b), i, v) =
            IF Holds(b, i, v) THEN Copies(q, i, v) + 1 ELSE Copies(q, i, v)
<1> DEFINE r == Append(q, b)
<1>1. Len(q) \in Nat BY LenProperties
<1>2. /\ Len(r) = Len(q) + 1 /\ r[Len(q) + 1] = b
      /\ \A j \in 1..Len(q) : r[j] = q[j]
  BY AppendProperties
<1>3. IsFiniteSet(Holding(q, i, v)) /\ Len(q) + 1 \notin Holding(q, i, v)
  BY <1>1, CopiesType
<1> HIDE DEF r
<1>4. 1..Len(r) = 1..Len(q) \cup {Len(q) + 1} BY <1>1, <1>2
<1>5. CASE Holds(b, i, v)
  <2>1. Holding(r, i, v) = Holding(q, i, v) \cup {Len(q) + 1}
    BY <1>2, <1>4, <1>5 DEF Holding
  <2>2. Copies(r, i, v) = Copies(q, i, v) + 1 BY <1>3, <2>1, FS_AddElement DEF Copies
  <2>3. QED BY <1>5, <2>2 DEF r
<1>6. CASE ~Holds(b, i, v)
  <2>1. Holding(r, i, v) = Holding(q, i, v)
    BY <1>2, <1>4, <1>6 DEF Holding
  <2>2. QED BY <1>6, <2>1 DEF Copies, r
<1>7. QED BY <1>5, <1>6

\* The numbers that CopiesLeft is about.
LEMMA CopiesFacts ==
  ASSUME TypeInv
  PROVE  /\ Times \in Nat \ {0} /\ time \in Nat
         /\ faults.loss \in Nat /\ faults.failure \in Nat /\ faults.recovery \in Nat
         /\ \A i : Copies(net, i, val[i]) \in Nat
         /\ pc = "send" => time \in 1..Times
<1>1. faults \in [FaultKinds -> Nat] /\ time \in 0..Times /\ net \in Seq(Batches)
  BY DEF TypeInv, TypeOK
<1>2. \A i : Copies(net, i, val[i]) \in Nat
  BY <1>1, CopiesType
<1>3. QED BY <1>1, <1>2, ResultSyncAssumption DEF FaultKinds, TypeInv

LEMMA KeptInit == Init => KeptInv
  BY DEF Init, KeptInv, BatchCurrent, Kept

\* A step that leaves the values of the node, the failed sends and the table
\* of the center alone keeps an entry, if enough copies of it are left.
LEMMA KeptUnless ==
  ASSUME Typed, NEW i \in Entries, Kept(i),
         UNCHANGED <<val, failed, applied>>,
         flag[i] = Newest => flag'[i] = Newest,
         Holds(applying, i, val[i]) => Holds(applying', i, val[i]),
         CopiesLeft(i) => CopiesLeft(i)'
  PROVE  Kept(i)'
BY DEF Kept, CopiesLeft, Sending, Holds

LEMMA ParseKeeps ==
  ASSUME TypeInv, Parse, NEW i \in Entries, Kept(i)
  PROVE  Kept(i)'
<1>1. /\ pc = "parse" /\ pc' = "send" /\ time' = 1
      /\ UNCHANGED <<val, net, applying, applied, faults, failed>>
  BY DEF Parse, center
<1>2. flag'[i] = IF i \in DOMAIN batch' THEN NotNewest ELSE flag[i]
  BY NewBatch
<1>3. CASE i \in DOMAIN batch'
  <2>1. Sending(i)' BY <1>1, <1>3, NewBatch DEF Sending, Holds
  <2>2. CopiesLeft(i)' BY <1>1, <2>1, CopiesFacts DEF CopiesLeft
  <2>3. QED BY <2>2 DEF Kept
<1>4. CASE i \notin DOMAIN batch'
  <2>1. ~Sending(i) /\ ~Sending(i)' BY <1>1, <1>4 DEF Sending, Holds
  <2>2. CopiesLeft(i) => CopiesLeft(i)' BY <1>1, <2>1 DEF CopiesLeft
  <2>3. QED BY <1>1, <1>2, <1>4, <2>2, KeptUnless, TypeFacts
<1>5. QED BY <1>3, <1>4

LEMMA SendKeeps ==
  ASSUME TypeInv, Send, NEW i \in Entries, Kept(i)
  PROVE  Kept(i)'
<1>1. /\ pc = "send" /\ net' = Append(net, batch) /\ Proceed
      /\ UNCHANGED <<val, flag, applying, applied, faults, failed>>
  BY DEF Send, node, center
<1>2. net \in Seq(Batches) /\ batch \in Batches BY DEF TypeInv, TypeOK
<1>3. Copies(net', i, val[i]) = IF Holds(batch, i, val[i]) THEN Copies(net, i, val[i]) + 1
                                ELSE Copies(net, i, val[i])
  BY <1>1, <1>2, CopiesAppend
<1>4. /\ Times \in Nat \ {0} /\ time \in 1..Times /\ faults.loss \in Nat
      /\ Copies(net, i, val[i]) \in Nat
  BY <1>1, CopiesFacts
<1>5. /\ Sending(i) <=> Holds(batch, i, val[i])
      /\ Sending(i)' => Sending(i) /\ time' = time + 1
      /\ Sending(i) /\ ~Sending(i)' => time = Times
  BY <1>1, <1>4, NoBatchIsBatch DEF Sending, Proceed, Holds
<1>6. CopiesLeft(i) => CopiesLeft(i)'
  <2>1. CASE Sending(i) /\ Sending(i)'
    BY <1>1, <1>3, <1>4, <1>5, <2>1 DEF CopiesLeft
  <2>2. CASE Sending(i) /\ ~Sending(i)'
    BY <1>1, <1>3, <1>4, <1>5, <2>2 DEF CopiesLeft
  <2>3. CASE ~Sending(i)
    BY <1>1, <1>3, <1>4, <1>5, <2>3 DEF CopiesLeft
  <2>4. QED BY <2>1, <2>2, <2>3
<1>7. QED BY <1>1, <1>6, KeptUnless, TypeFacts

LEMMA FailureKeeps ==
  ASSUME TypeInv, SendFails, BatchCurrent, NEW i \in Entries, Kept(i)
  PROVE  Kept(i)'
<1>1. /\ pc = "send" /\ pc' = "wait" /\ Fault("failure")
      /\ UNCHANGED <<val, flag, net, applying, applied>>
  BY DEF SendFails, node, center
<1>2. failed'[i] = IF time = 1 /\ i \in DOMAIN batch THEN batch[i] ELSE failed[i]
  BY DEF SendFails
<1>3. faults'.loss = faults.loss /\ faults'.failure = faults.failure + 1
  BY <1>1, Counted DEF FaultKinds, TypeInv
<1>4. /\ faults.failure \in Nat /\ faults.loss \in Nat /\ time \in Nat
      /\ Copies(net, i, val[i]) \in Nat
  BY CopiesFacts
<1>5. flag[i] \in Flags BY DEF TypeInv, TypeOK
<1>6. ~Sending(i)' BY <1>1 DEF Sending
<1>7. CASE i \in DOMAIN batch /\ time = 1
  <2>1. CASE flag[i] = Newest BY <1>1, <2>1 DEF Kept
  <2>2. CASE flag[i] = NotNewest
    BY <1>1, <1>2, <1>7, <2>2 DEF Kept, BatchCurrent
  <2>3. QED BY <1>5, <2>1, <2>2 DEF Flags
<1>8. CASE ~(i \in DOMAIN batch /\ time = 1)
  <2>1. CopiesLeft(i) => CopiesLeft(i)'
    <3>1. CASE Sending(i)
      <4>1. time # 1 /\ time \in 1..Times BY <1>1, <1>8, <3>1, CopiesFacts DEF Sending, Holds
      <4>2. QED BY <1>1, <1>3, <1>4, <1>6, <3>1, <4>1, ResultSyncAssumption DEF CopiesLeft
    <3>2. CASE ~Sending(i)
      BY <1>1, <1>3, <1>4, <1>6, <3>2 DEF CopiesLeft
    <3>3. QED BY <3>1, <3>2
  <2>2. CASE CopiesLeft(i) BY <2>1, <2>2 DEF Kept
  <2>3. CASE ~CopiesLeft(i) BY <1>1, <1>2, <1>8, <2>3 DEF Kept, Holds
  <2>4. QED BY <2>2, <2>3
<1>9. QED BY <1>7, <1>8

\* A message goes to the center, or is lost.
LEMMA RemovalKeeps ==
  ASSUME TypeInv, NEW i \in Entries, Kept(i), NEW k \in 1..Len(net), net' \in Seq(Batches),
         Len(net') = Len(net) - 1,
         \A j \in 1..(Len(net) - 1) : net'[j] = IF j < k THEN net[j] ELSE net[j + 1],
         UNCHANGED <<val, flag, pc, time, batch, failed, applied>>,
         faults'.failure = faults.failure,
         \/ faults'.loss = faults.loss /\ applying = NoBatch /\ applying' = net[k]
         \/ faults'.loss = faults.loss + 1 /\ UNCHANGED applying
  PROVE  Kept(i)'
<1>1. net \in Seq(Batches) BY DEF TypeInv, TypeOK
<1>2. /\ Copies(net', i, val[i]) + 1 >= Copies(net, i, val[i])
      /\ ~Holds(net[k], i, val[i]) => Copies(net', i, val[i]) >= Copies(net, i, val[i])
      /\ Copies(net', i, val[i]) \in Nat
  BY <1>1, CopiesWithout, CopiesType
<1>3. /\ Times \in Nat \ {0} /\ time \in Nat /\ faults.loss \in Nat
      /\ Copies(net, i, val[i]) \in Nat
  BY CopiesFacts
<1>4. Sending(i)' <=> Sending(i) BY DEF Sending
<1>5. CASE Holds(applying', i, val[i])
  BY <1>5 DEF Kept
<1>6. CASE ~Holds(applying', i, val[i])
  <2>1. ~Holds(applying, i, val[i])
    BY <1>6, NoBatchIsBatch DEF Holds
  <2>2. Copies(net', i, val[i]) + faults'.loss >= Copies(net, i, val[i]) + faults.loss
    BY <1>2, <1>3, <1>6
  <2>3. faults'.loss \in Nat BY <1>3
  <2>4. CopiesLeft(i) => CopiesLeft(i)'
    BY <1>2, <1>3, <1>4, <2>2, <2>3 DEF CopiesLeft
  <2>5. QED BY <2>1, <2>4, KeptUnless, TypeFacts
<1>7. QED BY <1>5, <1>6

LEMMA ApplyKeeps ==
  ASSUME TypeInv, NEW j \in Entries, Applies(j), NEW i \in Entries, Kept(i)
  PROVE  Kept(i)'
<1>1. UNCHANGED <<val, flag, pc, time, batch, net, faults, failed>>
  BY DEF Applies, node, thread
<1>2. CopiesLeft(i)' <=> CopiesLeft(i) BY <1>1 DEF CopiesLeft, Sending
<1>3. applied[i] \in Nat /\ val[i] \in Nat /\ applying[j] \in Nat /\ applied[j] \in Nat
  BY TypeFacts DEF Typed, Applies
<1>4. applied'[i] >= applied[i]
  BY <1>3, TypeFacts DEF Applies, Typed
<1>5. CASE i = j /\ Holds(applying, i, val[i])
  <2>1. applied'[i] >= val[i]
    BY <1>3, <1>5, TypeFacts DEF Applies, Typed, Holds
  <2>2. QED BY <1>1, <2>1 DEF Kept
<1>6. CASE ~(i = j /\ Holds(applying, i, val[i]))
  <2>1. Holds(applying, i, val[i]) => Holds(applying', i, val[i])
    BY <1>6 DEF Applies, Holds
  <2>2. applied[i] >= val[i] => applied'[i] >= val[i]
    <3>1. applied'[i] \in Nat BY <1>3, TypeFacts DEF Applies, Typed
    <3>2. QED BY <1>3, <1>4, <3>1
  <2>3. QED BY <1>1, <1>2, <2>1, <2>2 DEF Kept
<1>7. QED BY <1>5, <1>6

LEMMA CurrentNext ==
  ASSUME TypeInv, BatchCurrent, [Next]_vars
  PROVE  BatchCurrent'
<1> USE DEF BatchCurrent
<1>1. ASSUME NEW i \in Entries, Update(i) PROVE BatchCurrent'
  <2>1. UNCHANGED <<pc, batch>> BY <1>1 DEF Update, thread
  <2>2. \A j \in Entries : flag'[j] = NotNewest => flag[j] = NotNewest /\ val'[j] = val[j]
    BY <1>1 DEF Update, TypeInv, TypeOK, Newest, NotNewest
  <2>3. DOMAIN batch \subseteq Entries BY BatchDef DEF TypeInv, TypeOK
  <2>4. QED BY <2>1, <2>2, <2>3
<1>2. CASE BeginSync \/ SendFails \/ Restart
  BY <1>2 DEF BeginSync, SendFails, Restart
<1>3. CASE Parse
  BY <1>3, NewBatch DEF Parse
<1>4. CASE Send
  <2>1. UNCHANGED <<val, flag>> /\ (batch' = batch \/ batch' = NoBatch) /\ pc = "send"
    BY <1>4 DEF Send, Proceed, node
  <2>2. QED BY <2>1, NoBatchIsBatch
<1>5. CASE Deliver \/ Recover
  BY <1>5 DEF Deliver, Recover, node, thread
<1>6. ASSUME NEW k \in 1..Len(net), Lose(k) \/ Overtake(k) PROVE BatchCurrent'
  BY <1>6 DEF Lose, Overtake, node, thread
<1>7. CASE ApplyEntry
  BY <1>7, EntryApplied DEF Applies, node, thread
<1>8. CASE UNCHANGED vars
  BY <1>8 DEF vars, node, thread
<1>9. QED BY <1>1, <1>2, <1>3, <1>4, <1>5, <1>6, <1>7, <1>8 DEF Next

LEMMA KeptNext ==
  ASSUME TypeInv, KeptInv, faults.recovery = 0, [Next]_vars, ~Recover
  PROVE  BatchCurrent' /\ \A i \in Entries : Kept(i)'
<1> SUFFICES ASSUME BatchCurrent, NEW i \in Entries, Kept(i) PROVE Kept(i)'
  BY CurrentNext DEF KeptInv
<1>0. Typed /\ TypeOK /\ net \in Seq(Batches) BY TypeFacts DEF TypeInv, TypeOK
<1>1. ASSUME NEW j \in Entries, Update(j) PROVE Kept(i)'
  <2>1. UNCHANGED <<thread, net, applying, applied, faults, failed>>
    BY <1>1 DEF Update, center
  <2>2. CASE i = j
    BY <1>0, <1>1, <2>2 DEF Update, Kept, TypeInv, TypeOK
  <2>3. CASE i # j
    <3>1. val'[i] = val[i] /\ flag'[i] = flag[i]
      BY <1>0, <1>1, <2>3 DEF Update, TypeInv, TypeOK
    <3>2. CopiesLeft(i)' <=> CopiesLeft(i)
      BY <2>1, <3>1 DEF CopiesLeft, Sending, thread
    <3>3. QED BY <2>1, <3>1, <3>2 DEF Kept
  <2>4. QED BY <2>2, <2>3
<1>2. CASE BeginSync
  <2>1. UNCHANGED <<node, net, center, faults, failed>> /\ ~Sending(i) /\ ~Sending(i)'
    BY <1>2 DEF BeginSync, Sending
  <2>2. CopiesLeft(i)' <=> CopiesLeft(i) BY <2>1 DEF CopiesLeft, node
  <2>3. QED BY <2>1, <2>2 DEF Kept, node, center
<1>3. CASE Parse
  BY <1>3, ParseKeeps
<1>4. CASE Send
  BY <1>4, SendKeeps
<1>5. CASE SendFails
  BY <1>5, FailureKeeps
<1>6. CASE Restart
  BY <1>6 DEF Restart, Kept
<1>7. CASE Deliver
  <2>1. /\ 1 \in 1..Len(net) /\ net' \in Seq(Batches) /\ Len(net') = Len(net) - 1
        /\ \A j \in 1..(Len(net) - 1) : net'[j] = IF j < 1 THEN net[j] ELSE net[j + 1]
        /\ applying' = net[1] /\ applying = NoBatch
    BY <1>0, <1>7, TailRemoves DEF Deliver
  <2>2. UNCHANGED <<val, flag, pc, time, batch, failed, applied, faults>>
    BY <1>7 DEF Deliver, node, thread
  <2>3. QED BY <2>1, <2>2, RemovalKeeps
<1>8. ASSUME NEW k \in 1..Len(net), Lose(k) PROVE Kept(i)'
  <2>1. /\ net' \in Seq(Batches) /\ Len(net') = Len(net) - 1
        /\ \A j \in 1..(Len(net) - 1) : net'[j] = IF j < k THEN net[j] ELSE net[j + 1]
    BY <1>0, <1>8, Removed DEF Lose
  <2>2. UNCHANGED <<val, flag, pc, time, batch, failed, applied, applying>>
    BY <1>8 DEF Lose, node, thread, center
  <2>3. faults'.failure = faults.failure /\ faults'.loss = faults.loss + 1
    BY <1>0, <1>8, Counted DEF Lose, FaultKinds
  <2>4. QED BY <2>1, <2>2, <2>3, RemovalKeeps
<1>9. ASSUME NEW k \in 1..Len(net), Overtake(k) PROVE Kept(i)'
  <2>1. /\ net' \in Seq(Batches) /\ Len(net') = Len(net) - 1
        /\ \A j \in 1..(Len(net) - 1) : net'[j] = IF j < k THEN net[j] ELSE net[j + 1]
    BY <1>0, <1>9, Removed DEF Overtake
  <2>2. /\ UNCHANGED <<val, flag, pc, time, batch, failed, applied>>
        /\ applying = NoBatch /\ applying' = net[k]
    BY <1>9 DEF Overtake, node, thread
  <2>3. faults'.failure = faults.failure /\ faults'.loss = faults.loss
    BY <1>0, <1>9, Counted DEF Overtake, FaultKinds
  <2>4. QED BY <2>1, <2>2, <2>3, RemovalKeeps
<1>10. CASE ApplyEntry
  BY <1>10, EntryApplied, ApplyKeeps
<1>11. CASE UNCHANGED vars
  <2>1. UNCHANGED <<val, flag, pc, time, batch, net, applying, applied, faults, failed>>
    BY <1>11 DEF vars, node, thread, center
  <2>2. CopiesLeft(i)' <=> CopiesLeft(i) BY <2>1 DEF CopiesLeft, Sending
  <2>3. QED BY <2>1, <2>2 DEF Kept
<1>12. QED
  BY <1>1, <1>2, <1>3, <1>4, <1>5, <1>6, <1>7, <1>8, <1>9, <1>10, <1>11 DEF Next

\* That the center has restarted is never forgotten.
LEMMA RecoveriesCounted ==
  ASSUME TypeInv, [Next]_vars, faults'.recovery = 0
  PROVE  faults.recovery = 0 /\ ~Recover
<1> USE DEF FaultKinds
<1>1. TypeOK /\ faults.recovery \in Nat BY CopiesFacts DEF TypeInv
<1>2. ASSUME NEW kind \in FaultKinds, Fault(kind)
      PROVE  faults'.recovery = IF kind = "recovery" THEN faults.recovery + 1 ELSE faults.recovery
  BY <1>1, <1>2, Counted
<1>3. ~Recover BY <1>1, <1>2 DEF Recover
<1>4. CASE UNCHANGED faults
  BY <1>3, <1>4
<1>5. CASE \E kind \in FaultKinds \ {"recovery"} : Fault(kind)
  BY <1>2, <1>3, <1>5
<1>6. UNCHANGED faults \/ \E kind \in FaultKinds \ {"recovery"} : Fault(kind)
  BY <1>3 DEF Next, vars, Update, BeginSync, Parse, Send, SendFails, Restart, Deliver, Lose,
              Overtake, ApplyEntry
<1>7. QED BY <1>4, <1>5, <1>6

LEMMA KeptInvariance == Spec => [](TypeInv /\ KeptInv)
<1>1. Init => TypeInv /\ KeptInv
  BY TypeInit, KeptInit
<1>2. TypeInv /\ KeptInv /\ [Next]_vars => (TypeInv /\ KeptInv)'
  <2> SUFFICES ASSUME TypeInv, KeptInv, [Next]_vars, faults'.recovery = 0
               PROVE  BatchCurrent' /\ \A i \in Entries : Kept(i)'
    BY TypeNext DEF KeptInv
  <2>1. QED BY RecoveriesCounted, KeptNext
<1>3. QED BY <1>1, <1>2, PTL DEF Spec

\* Every batch is sent SYNC_TIMES times, and that makes up for fewer losses
\* than that, or for any number of failed sends without a loss: as long as the
\* center has not restarted, a result that the node has unflagged has been
\* applied, is still under way, or was in a batch of which no copy could be
\* sent.
THEOREM LossesMadeUpFor == Spec => []LossesTolerated
<1>1. TypeInv /\ KeptInv => LossesTolerated
  <2> SUFFICES ASSUME TypeInv, KeptInv, faults.recovery = 0,
                      faults.loss = 0 \/ (faults.loss < Times /\ faults.failure = 0),
                      NEW i \in Entries, CopiesLeft(i)
               PROVE  UnderWay(i, val[i])
    <3>1. \A i \in Entries : Holds(applying, i, val[i]) => UnderWay(i, val[i])
      BY DEF Holds, UnderWay, Pending, Pairs
    <3>2. QED BY <3>1 DEF KeptInv, Kept, LossesTolerated
  <2>1. CASE Sending(i)
    BY <2>1 DEF Sending, Holds, UnderWay, Pending, Pairs
  <2>2. CASE ~Sending(i)
    <3>1. Copies(net, i, val[i]) >= 1
      BY <2>2, CopiesFacts DEF CopiesLeft
    <3>2. Holding(net, i, val[i]) # {}
      BY <3>1, FS_EmptySet DEF Copies
    <3>3. QED BY <3>2 DEF Holding, Holds, UnderWay, Pending, Pairs
  <2>3. QED BY <2>1, <2>2
<1>2. QED BY <1>1, KeptInvariance, PTL

=============================================================================
