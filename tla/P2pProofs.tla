----------------------------- MODULE P2pProofs ------------------------------
(***************************************************************************)
(* Proofs about what two clients do without the server: the frames they    *)
(* protect (Fec), the routes they keep (RouteTable) and how they come to   *)
(* have them (Punch).  The three modules share no variable; what they      *)
(* define has names of its own, and so each theorem is about one of them.  *)
(***************************************************************************)
EXTENDS Fec, RouteTable, Punch, FiniteSetTheorems, SequenceTheorems,
        WellFoundedInduction, TLAPS

-----------------------------------------------------------------------------
(***************************************************************************)
(* Fec, for any lengths of payloads, any size of a batch, and any number   *)
(* of packets, groups, losses and duplicates.                              *)
(***************************************************************************)
\* Groups before the open one are closed and have packets, those after it
\* have none; only closed ones are on their way to the worker.
BatchesOK ==
    /\ \A g \in Groups : /\ Len(batches[g]) <= BATCH_SIZE
                         /\ g > group_id => batches[g] = <<>>
                         /\ g < group_id => batches[g] # <<>>
                         /\ batches[g] # <<>> => g < MaxGroups
    /\ Len(batches[group_id]) < BATCH_SIZE
    /\ \A i \in DOMAIN batch_rx : batch_rx[i] < group_id

\* An original is a packet of its group, and a parity packet comes after the
\* packets of a closed group.
ShardOK(s) ==
    LET g == s.group_id
        n == Len(batches[g])
    IN \/ /\ s.data_shards = 0 /\ s.index < n
          /\ s.len = batches[g][s.index + 1]
       \/ /\ s.data_shards = n /\ n # 0 /\ g < group_id /\ s.index >= n
          /\ \E j \in 1 .. n : s.len = batches[g][j]

OriginalIndices(G) == {r.index : r \in {q \in G.received_shards : q.data_shards = 0}}

\* What the decoder keeps of group g is right: its shards are of the group,
\* the count is that of the originals among them, and the packets it stands
\* for have been handed on when they are of one length.
GroupOK(G, g, got) ==
    /\ \A r \in G.received_shards : r.group_id = g /\ ShardOK(r)
    /\ G.data_shards # 0 => G.data_shards = Len(batches[g]) /\ g < group_id
    /\ ~is_done(G) => G.received_original_count = Cardinality(OriginalIndices(G))
    /\ Uniform(g) /\ is_done(G) =>
          \A i \in 0 .. Len(batches[g]) - 1 : [group_id |-> g, index |-> i] \in got
    /\ Uniform(g) /\ ~is_done(G) =>
          \A r \in G.received_shards : r.data_shards = 0 => PacketOf(r) \in got

\* What has been handed on is known, until its group is forgotten.
Remembered ==
    \A p \in Handed : p.group_id \notin forgotten =>
        /\ groups[p.group_id] # None
        /\ \/ is_done(groups[p.group_id])
           \/ \E r \in groups[p.group_id].received_shards :
                 r.data_shards = 0 /\ PacketOf(r) = p

FecIInv ==
    /\ TypeOK /\ BatchesOK /\ Remembered
    /\ \A s \in net : ShardOK(s)
    /\ \A g \in Groups : groups[g] # None => GroupOK(groups[g], g, Handed)

-----------------------------------------------------------------------------
\* What has been handed on is packets.
LEMMA HandedArePackets ==
    /\ TypeOK <=> TypeOK /\ Handed \subseteq Packet
    /\ UNCHANGED decVars => UNCHANGED Handed
BY DEF TypeOK, Handed, decVars

\* Whatever becomes of them in the loop, the packets of a shard are the ones
\* that are handed on, and only some with wrong flags keep others from going
\* on as they were sent.
LEMMA ProcessHandsOn ==
    ASSUME NEW s, process(s)
    PROVE  /\ Handed' = Handed \cup HandsOn(s)
           /\ spoiled' \subseteq spoiled \cup HandsOn(s)
           /\ Suspect(s) = {} => spoiled' = spoiled
<1> DEFINE out == HandsOn(s)
           Before(failed) == {p \in out \ Original(s) : p.index < failed.index}
<1>0. PICK wrong \in SUBSET Suspect(s) :
         \E failed \in wrong \cup {None} :
            LET sound == (IF failed = None THEN out ELSE Before(failed)) \ wrong
            IN /\ delivered' = delivered \cup sound
               /\ spoiled' = spoiled \cup (out \ sound)
  BY Zenon DEF process
<1>1. PICK failed \in wrong \cup {None} :
         LET sound == (IF failed = None THEN out ELSE Before(failed)) \ wrong
         IN /\ delivered' = delivered \cup sound
            /\ spoiled' = spoiled \cup (out \ sound)
  BY <1>0
<1> DEFINE sound == (IF failed = None THEN out ELSE Before(failed)) \ wrong
<1>2. delivered' = delivered \cup sound /\ spoiled' = spoiled \cup (out \ sound)
  BY <1>1
<1>3. sound \subseteq out
  OBVIOUS
<1>4. Suspect(s) = {} => sound = out
  BY <1>0, <1>1
<1> HIDE DEF sound, out
<1>5. Handed' = Handed \cup out /\ spoiled' \subseteq spoiled \cup out
  BY <1>2, <1>3 DEF Handed
<1>6. Suspect(s) = {} => spoiled' = spoiled
  BY <1>2, <1>4
<1>7. QED
  BY <1>5, <1>6 DEF out

-----------------------------------------------------------------------------
\* A batch has a longest packet.
LEMMA LongestOfBatch ==
    ASSUME NEW n \in Nat \ {0}, NEW b \in Seq(Lens), Len(b) = n
    PROVE  \E k \in 1 .. n : Max({b[j] : j \in 1 .. n}) = b[k]
<1> DEFINE HasMax(m) == \E k \in 1 .. m : \A j \in 1 .. m : b[j] <= b[k]
           Bad == {m \in 1 .. n : ~HasMax(m)}
<1>0. \A j \in 1 .. n : b[j] \in Nat
  <2>1. \A j \in 1 .. n : b[j] \in Lens
    OBVIOUS
  <2>2. QED
    BY <2>1, FecAssumption
<1>1. HasMax(1)
  BY <1>0
<1>2. ASSUME NEW m \in 1 .. n - 1, HasMax(m) PROVE HasMax(m + 1)
  <2>1. PICK k \in 1 .. m : \A j \in 1 .. m : b[j] <= b[k]
    BY <1>2
  <2>2. CASE b[m + 1] <= b[k]
    <3>1. \A j \in 1 .. m + 1 : b[j] <= b[k]
      BY <2>1, <2>2
    <3>2. QED
      BY <3>1
  <2>3. CASE b[k] < b[m + 1]
    <3>1. \A j \in 1 .. m + 1 : b[j] <= b[m + 1]
      BY <1>0, <1>2, <2>1, <2>3
    <3>2. QED
      BY <3>1
  <2>4. QED
    BY <1>0, <1>2, <2>2, <2>3
<1> HIDE DEF HasMax
<1>3. HasMax(n)
  <2>1. SUFFICES ASSUME ~HasMax(n) PROVE FALSE
    OBVIOUS
  <2>2. Bad \subseteq Nat /\ Bad # {}
    BY <2>1
  <2>3. PICK m \in Bad : \A y \in Bad : ~(<<y, m>> \in OpToRel(<, Nat))
    BY <2>2, NatLessThanWellFounded, WFMin
  <2>4. m # 1 /\ m \in 2 .. n
    BY <1>1
  <2>5. <<m - 1, m>> \in OpToRel(<, Nat)
    <3>1. <<m - 1, m>> \in {ss \in Nat \X Nat : ss[1] < ss[2]}
      BY <2>4
    <3>2. QED
      BY <3>1, Zenon DEF OpToRel
  <2>6. m - 1 \in 1 .. n - 1 /\ m - 1 \in 1 .. n /\ m - 1 + 1 = m
    BY <2>4
  <2>7. HasMax(m - 1)
    BY <2>3, <2>5, <2>6
  <2>8. HasMax(m - 1 + 1)
    BY <1>2, <2>6, <2>7
  <2>9. QED
    BY <2>3, <2>6, <2>8
<1>4. PICK k \in 1 .. n : \A j \in 1 .. n : b[j] <= b[k]
  BY <1>3 DEF HasMax
<1> DEFINE S == {b[j] : j \in 1 .. n}
<1>5. b[k] \in S /\ \A y \in S : b[k] >= y
  BY <1>0, <1>4
<1> HIDE DEF S
<1>6. Max(S) \in S
  BY <1>5 DEF Max
<1>7. QED
  BY <1>6 DEF S

\* A group has at least one parity packet, and a full one has the most.
LEMMA ParityCount ==
    ASSUME NEW n \in Nat
    PROVE  /\ parity_shards(n) \in Nat \ {0}
           /\ \A m \in Nat : n <= m => parity_shards(n) <= parity_shards(m)
<1>1. ASSUME NEW m \in Nat
      PROVE  /\ parity_shards(m) \in {(m + 4) \div 5, 1}
             /\ parity_shards(m) >= 1 /\ parity_shards(m) >= (m + 4) \div 5
             /\ (m + 4) \div 5 \in Nat
  <2> DEFINE d == (m + 4) \div 5
  <2>1. d \in Nat
    OBVIOUS
  <2> HIDE DEF d
  <2>2. \E x \in {d, 1} : \A y \in {d, 1} : x >= y
    BY <2>1
  <2>3. Max({d, 1}) \in {d, 1} /\ \A y \in {d, 1} : Max({d, 1}) >= y
    BY <2>2 DEF Max
  <2>4. QED
    BY <2>1, <2>3 DEF parity_shards, d
<1>2. \A m \in Nat : n <= m => (n + 4) \div 5 <= (m + 4) \div 5
  OBVIOUS
<1>3. QED
  BY <1>1, <1>2

\* The parity packet of a closed group.
LEMMA ParityOfGroup ==
    ASSUME TypeOK, BatchesOK, NEW g \in Groups, batches[g] # <<>>,
           NEW s \in encode_and_send_parity(g)
    PROVE  /\ s \in Shard /\ s.group_id = g
           /\ s.data_shards = Len(batches[g]) /\ s.index >= Len(batches[g])
           /\ \E j \in 1 .. Len(batches[g]) : s.len = batches[g][j]
<1> DEFINE n == Len(batches[g])
<1>1. batches[g] \in Seq(Lens) /\ n \in Nat \ {0} /\ n <= BATCH_SIZE
  <2>1. batches[g] \in Seq(Lens) /\ n <= BATCH_SIZE
    BY DEF TypeOK, BatchesOK
  <2>2. n \in Nat /\ n # 0
    BY <2>1
  <2> HIDE DEF n
  <2>3. QED
    BY <2>1, <2>2, FecAssumption
<1>2. PICK i \in 0 .. parity_shards(n) - 1 :
        s = [group_id |-> g, index |-> n + i, data_shards |-> n,
             len |-> Max({batches[g][j] : j \in 1 .. n})]
  BY DEF encode_and_send_parity
<1>3. i \in Nat /\ n + i >= n /\ n + i \in Indices
  <2> HIDE DEF n
  <2>1. /\ parity_shards(n) \in Nat /\ parity_shards(BATCH_SIZE) \in Nat
        /\ parity_shards(n) <= parity_shards(BATCH_SIZE)
    BY <1>1, ParityCount, FecAssumption
  <2>2. i \in Nat /\ i <= parity_shards(BATCH_SIZE) - 1
    BY <2>1
  <2>3. QED
    BY <1>1, <2>1, <2>2, FecAssumption DEF Indices
<1>4. PICK k \in 1 .. n : Max({batches[g][j] : j \in 1 .. n}) = batches[g][k]
  BY <1>1, LongestOfBatch
<1>5. batches[g][k] \in Lens
  BY <1>1
<1>6. n \in 0 .. BATCH_SIZE
  BY <1>1, FecAssumption
<1>7. s \in Shard
  BY <1>2, <1>3, <1>4, <1>5, <1>6 DEF Shard
<1>8. QED
  BY <1>2, <1>3, <1>4, <1>7

\* Indices are naturals, and those of packets are among them.
LEMMA IndicesAreNumbers ==
    /\ Indices \subseteq Nat /\ IsFiniteSet(Indices) /\ 0 .. BATCH_SIZE \subseteq Indices
<1>1. BATCH_SIZE \in Nat /\ parity_shards(BATCH_SIZE) \in Nat \ {0}
  BY FecAssumption, ParityCount
<1>2. Indices \subseteq Nat /\ 0 .. BATCH_SIZE \subseteq Indices
  BY <1>1 DEF Indices
<1>3. IsFiniteSet(Indices)
  BY <1>1, FS_Interval DEF Indices
<1>4. QED
  BY <1>2, <1>3

-----------------------------------------------------------------------------
\* The encoder only adds: what shards and the decoder's groups say of the
\* packets stays so.
LEMMA EncoderKeeps ==
    ASSUME FecIInv, TypeOK', BatchesOK', group_id' >= group_id,
           \A g \in Groups :
              /\ g < group_id => batches'[g] = batches[g]
              /\ Len(batches'[g]) >= Len(batches[g])
              /\ \A j \in 1 .. Len(batches[g]) : batches'[g][j] = batches[g][j],
           UNCHANGED decVars,
           \A s \in net' : s \in net \/ ShardOK(s)'
    PROVE  FecIInv'
<1>0. /\ group_id \in Nat /\ group_id' \in Nat
      /\ \A g \in Groups : /\ g \in Nat /\ batches[g] \in Seq(Lens)
                           /\ Len(batches[g]) \in Nat
                           /\ DOMAIN batches[g] = 1 .. Len(batches[g])
                           /\ batches'[g] \in Seq(Lens)
                           /\ Len(batches'[g]) \in Nat
                           /\ DOMAIN batches'[g] = 1 .. Len(batches'[g])
  <2>1. group_id \in Groups /\ group_id' \in Groups /\ Groups \subseteq Nat
    BY FecAssumption DEF FecIInv, TypeOK, Groups
  <2>2. \A g \in Groups : batches[g] \in Seq(Lens) /\ batches'[g] \in Seq(Lens)
    BY DEF FecIInv, TypeOK
  <2>3. QED
    BY <2>1, <2>2
<1>1. ASSUME NEW s \in Shard, ShardOK(s) PROVE ShardOK(s)'
  <2>1. s.group_id \in Groups /\ s.index \in Nat
    BY IndicesAreNumbers DEF Shard
  <2> DEFINE g == s.group_id
             n == Len(batches[g])
  <2>2. CASE s.data_shards = 0 /\ s.index < n /\ s.len = batches[g][s.index + 1]
    <3>1. s.index + 1 \in 1 .. n /\ s.index < Len(batches'[g])
      BY <1>0, <2>1, <2>2
    <3>2. batches'[g][s.index + 1] = batches[g][s.index + 1]
      BY <2>1, <3>1
    <3>3. QED
      BY <2>2, <3>1, <3>2 DEF ShardOK
  <2>3. CASE /\ s.data_shards = n /\ n # 0 /\ g < group_id /\ s.index >= n
             /\ \E j \in 1 .. n : s.len = batches[g][j]
    <3>1. batches'[g] = batches[g] /\ g < group_id'
      BY <1>0, <2>1, <2>3
    <3>2. QED
      BY <2>3, <3>1 DEF ShardOK
  <2>4. QED
    BY <1>1, <2>2, <2>3 DEF ShardOK
<1>2. ASSUME NEW g \in Groups, Uniform(g)' PROVE Uniform(g)
  BY <1>0, <1>2 DEF Uniform
<1>3. ASSUME NEW g \in Groups, groups[g] # None PROVE GroupOK(groups[g], g, Handed)'
  <2> DEFINE G == groups[g]
  <2>1. GroupOK(G, g, Handed) /\ G \in FecGroup /\ G.received_shards \subseteq Shard
    BY <1>3 DEF FecIInv, TypeOK, FecGroup
  <2>2. G' = G /\ Handed' = Handed
    BY HandedArePackets DEF decVars
  <2>3. \A r \in G.received_shards : r.group_id = g /\ ShardOK(r)'
    BY <1>1, <2>1 DEF GroupOK
  <2>4. G.data_shards # 0 => /\ G.data_shards = Len(batches'[g]) /\ g < group_id'
                             /\ Len(batches'[g]) = Len(batches[g])
    BY <1>0, <2>1 DEF GroupOK
  <2>5. is_done(G) => Len(batches'[g]) = Len(batches[g])
    BY <2>4 DEF is_done
  <2> HIDE DEF G
  <2>6. GroupOK(G, g, Handed)'
    BY <1>2, <2>1, <2>2, <2>3, <2>4, <2>5 DEF GroupOK, is_done, PacketOf, OriginalIndices
  <2>7. QED
    BY <2>6 DEF G
<1>4. Remembered'
  BY HandedArePackets DEF FecIInv, Remembered, decVars, is_done, PacketOf
<1>5. \A s \in net' : ShardOK(s)'
  BY <1>1 DEF FecIInv, TypeOK
<1>6. groups' = groups
  BY DEF decVars
<1>7. QED
  BY <1>3, <1>4, <1>5, <1>6 DEF FecIInv

\* The worker sends the parity packet of a closed group.
LEMMA WorkerReceivesKeeps ==
    ASSUME FecIInv, WorkerReceives PROVE FecIInv'
<1> USE DEF WorkerReceives
<1> DEFINE g == Head(batch_rx)
<1>0. TypeOK /\ BatchesOK
  BY DEF FecIInv
<1>1. g \in Groups /\ 1 \in DOMAIN batch_rx /\ g = batch_rx[1]
      /\ Tail(batch_rx) \in Seq(Groups)
  BY <1>0 DEF TypeOK
<1>2. g < group_id /\ batches[g] # <<>>
  BY <1>0, <1>1 DEF BatchesOK
<1>3. \A s \in encode_and_send_parity(g) :
         s \in Shard /\ s.group_id = g /\ s.data_shards = Len(batches[g])
         /\ s.index >= Len(batches[g])
         /\ \E j \in 1 .. Len(batches[g]) : s.len = batches[g][j]
  BY <1>0, <1>1, <1>2, ParityOfGroup
<1>4. TypeOK'
  BY <1>0, <1>1, <1>3 DEF TypeOK, decVars
<1>5. BatchesOK'
  <2>1. \A i \in DOMAIN Tail(batch_rx) : i + 1 \in DOMAIN batch_rx
           /\ Tail(batch_rx)[i] = batch_rx[i + 1]
    BY <1>0 DEF TypeOK
  <2>2. QED
    BY <1>0, <2>1 DEF BatchesOK
<1>6. Len(batches[g]) # 0
  BY <1>0, <1>1, <1>2 DEF TypeOK
<1>7. \A s \in net' : s \in net \/ ShardOK(s)'
  BY <1>2, <1>3, <1>6 DEF ShardOK
<1>8. \A h \in Groups : Len(batches[h]) \in Nat /\ group_id \in Nat
  BY <1>0, FecAssumption DEF TypeOK, Groups
<1>9. group_id' >= group_id
  BY <1>0, FecAssumption DEF TypeOK, Groups
<1>10. QED
  BY <1>4, <1>5, <1>7, <1>8, <1>9, EncoderKeeps

\* The timer closes the open group and sends its parity packet.
LEMMA WorkerTickKeeps ==
    ASSUME FecIInv, WorkerTick PROVE FecIInv'
<1>a. /\ batches[group_id] # <<>> /\ group_id' = group_id + 1
      /\ net' = net \cup encode_and_send_parity(group_id)
      /\ UNCHANGED <<batches, batch_rx, decVars, lost, copies>>
  BY DEF WorkerTick
<1>0. TypeOK /\ BatchesOK
  BY DEF FecIInv
<1>1. /\ group_id \in Groups /\ group_id \in Nat /\ group_id < MaxGroups
      /\ group_id + 1 \in Groups /\ Groups \subseteq Nat
      /\ \A g \in Groups : batches[g] \in Seq(Lens) /\ Len(batches[g]) \in Nat
  <2>1. group_id \in Groups /\ MaxGroups \in Nat /\ Groups = 0 .. MaxGroups
    BY <1>0, FecAssumption DEF TypeOK, Groups
  <2>2. group_id < MaxGroups
    BY <1>0, <1>a, <2>1 DEF BatchesOK
  <2>3. \A g \in Groups : batches[g] \in Seq(Lens)
    BY <1>0 DEF TypeOK
  <2>4. QED
    BY <2>1, <2>2, <2>3
<1>2. \A s \in encode_and_send_parity(group_id) :
         s \in Shard /\ s.group_id = group_id /\ s.data_shards = Len(batches[group_id])
         /\ s.index >= Len(batches[group_id])
         /\ \E j \in 1 .. Len(batches[group_id]) : s.len = batches[group_id][j]
  BY <1>0, <1>1, <1>a, ParityOfGroup
<1>3. TypeOK'
  BY <1>0, <1>1, <1>2, <1>a DEF TypeOK, decVars
<1>4. BatchesOK'
  <2>1. batches[group_id + 1] = <<>> /\ 0 < BATCH_SIZE
    BY <1>0, <1>1, FecAssumption DEF BatchesOK
  <2>2. \A i \in DOMAIN batch_rx : batch_rx[i] \in Nat /\ batch_rx[i] < group_id + 1
    <3>1. \A i \in DOMAIN batch_rx : batch_rx[i] \in Groups
      BY <1>0, ElementOfSeq DEF TypeOK
    <3>2. \A i \in DOMAIN batch_rx : batch_rx[i] < group_id
      BY <1>0 DEF BatchesOK
    <3>3. ASSUME NEW i \in DOMAIN batch_rx
          PROVE  batch_rx[i] \in Nat /\ batch_rx[i] < group_id + 1
      <4>1. batch_rx[i] \in Nat /\ group_id \in Nat
        BY <1>1, <3>1
      <4>2. batch_rx[i] < group_id
        BY <3>2
      <4>3. QED
        BY <4>1, <4>2
    <3>4. QED
      BY <3>3
  <2>3. \A g \in Groups : g < group_id + 1 => batches[g] # <<>>
    BY <1>0, <1>1, <1>a DEF BatchesOK
  <2>4. \A g \in Groups : g > group_id + 1 => batches[g] = <<>>
    BY <1>0, <1>1 DEF BatchesOK
  <2>5. QED
    BY <1>0, <1>a, <2>1, <2>2, <2>3, <2>4 DEF BatchesOK
<1>5. Len(batches[group_id]) # 0
  BY <1>1, <1>a
<1>6. \A s \in net' : s \in net \/ ShardOK(s)'
  BY <1>1, <1>2, <1>5, <1>a DEF ShardOK
<1>7. QED
  BY <1>1, <1>3, <1>4, <1>6, <1>a, EncoderKeeps

\* A packet joins the open group, and a full group is closed.
LEMMA EncodeKeeps ==
    ASSUME FecIInv, NEW len \in Lens, encode(len) PROVE FecIInv'
<1> DEFINE old == batches[group_id]
           batch == Append(old, len)
           shard == [group_id |-> group_id, len |-> len, index |-> Len(batch) - 1,
                     data_shards |-> 0]
<1>0. TypeOK /\ BatchesOK
  BY DEF FecIInv
<1>1. group_id \in Groups /\ group_id \in Nat /\ group_id < MaxGroups
      /\ group_id + 1 \in Groups /\ Groups \subseteq Nat
  <2>1. group_id \in Groups /\ MaxGroups \in Nat /\ Groups = 0 .. MaxGroups
    BY <1>0, FecAssumption DEF TypeOK, Groups
  <2>2. group_id < MaxGroups
    BY DEF encode
  <2>3. QED
    BY <2>1, <2>2
<1>2. /\ old \in Seq(Lens) /\ Len(old) \in Nat /\ Len(old) < BATCH_SIZE
      /\ batch \in Seq(Lens) /\ Len(batch) = Len(old) + 1 /\ batch # <<>>
      /\ batch[Len(old) + 1] = len
      /\ \A j \in 1 .. Len(old) : batch[j] = old[j]
  <2>1. old \in Seq(Lens) /\ Len(old) < BATCH_SIZE
    BY <1>0, <1>1 DEF TypeOK, BatchesOK
  <2> HIDE DEF old
  <2>2. QED
    BY <2>1
<1>3. /\ batches' = [batches EXCEPT ![group_id] = batch]
      /\ net' = net \cup {shard}
      /\ group_id' = IF Len(batch) >= BATCH_SIZE THEN group_id + 1 ELSE group_id
      /\ \/ batch_rx' = batch_rx
         \/ Len(batch) >= BATCH_SIZE /\ batch_rx' = Append(batch_rx, group_id)
      /\ UNCHANGED <<decVars, lost, copies>>
  BY DEF encode
<1> HIDE DEF batch, old
<1>4. batches'[group_id] = batch /\ \A g \in Groups : g # group_id => batches'[g] = batches[g]
  BY <1>0, <1>1, <1>3 DEF TypeOK
<1>5. shard \in Shard
  <2>1. Len(batch) - 1 \in Indices
    BY <1>2, FecAssumption, IndicesAreNumbers
  <2>2. 0 \in 0 .. BATCH_SIZE
    BY FecAssumption
  <2>3. QED
    BY <1>1, <2>1, <2>2 DEF Shard
<1>6. TypeOK'
  <2>1. batches' \in [Groups -> Seq(Lens)]
    BY <1>0, <1>2, <1>3 DEF TypeOK
  <2>2. batch_rx' \in Seq(Groups)
    <3>1. batch_rx \in Seq(Groups)
      BY <1>0 DEF TypeOK
    <3>2. Append(batch_rx, group_id) \in Seq(Groups)
      BY <1>1, <3>1
    <3>3. QED
      BY <1>3, <3>1, <3>2
  <2>3. group_id' \in Groups
    BY <1>1, <1>3
  <2>4. net' \subseteq Shard
    BY <1>0, <1>3, <1>5 DEF TypeOK
  <2>5. QED
    BY <1>0, <1>3, <2>1, <2>2, <2>3, <2>4 DEF TypeOK, decVars
<1>7. group_id' \in Nat /\ group_id' >= group_id
  BY <1>1, <1>3
<1>8. BatchesOK'
  <2>1. ASSUME NEW g \in Groups
        PROVE  /\ Len(batches'[g]) <= BATCH_SIZE
               /\ g > group_id' => batches'[g] = <<>>
               /\ g < group_id' => batches'[g] # <<>>
               /\ batches'[g] # <<>> => g < MaxGroups
    <3>1. g \in Nat /\ BATCH_SIZE \in Nat
      BY <1>1, FecAssumption
    <3>2. CASE g = group_id
      BY <1>1, <1>2, <1>3, <1>4, <3>1, <3>2
    <3>3. CASE g # group_id
      <4>1. batches'[g] = batches[g]
        BY <1>4, <3>3
      <4>2. (g > group_id' => g > group_id) /\ (g < group_id' => g < group_id)
        BY <1>1, <1>3, <3>1, <3>3
      <4>3. QED
        BY <1>0, <4>1, <4>2 DEF BatchesOK
    <3>4. QED
      BY <3>2, <3>3
  <2>2. Len(batches'[group_id']) < BATCH_SIZE
    <3>1. CASE Len(batch) >= BATCH_SIZE
      <4>1. group_id' = group_id + 1 /\ batches'[group_id + 1] = batches[group_id + 1]
        BY <1>1, <1>3, <1>4, <3>1
      <4>2. batches[group_id + 1] = <<>>
        BY <1>0, <1>1 DEF BatchesOK
      <4>3. QED
        BY <4>1, <4>2, FecAssumption
    <3>2. CASE ~(Len(batch) >= BATCH_SIZE)
      BY <1>2, <1>3, <1>4, <3>2, FecAssumption
    <3>3. QED
      BY <3>1, <3>2
  <2>3. ASSUME NEW i \in DOMAIN batch_rx' PROVE batch_rx'[i] < group_id'
    <3>1. batch_rx \in Seq(Groups) /\ \A j \in DOMAIN batch_rx : batch_rx[j] < group_id
      BY <1>0 DEF TypeOK, BatchesOK
    <3>2. \A j \in DOMAIN batch_rx : batch_rx[j] \in Groups
      BY <3>1
    <3>3. CASE batch_rx' = batch_rx
      <4>1. batch_rx[i] < group_id /\ batch_rx[i] \in Nat
        BY <1>1, <2>3, <3>1, <3>2, <3>3
      <4>2. QED
        BY <1>1, <1>7, <3>3, <4>1
    <3>4. CASE Len(batch) >= BATCH_SIZE /\ batch_rx' = Append(batch_rx, group_id)
      <4>1. \/ batch_rx'[i] = group_id
            \/ i \in DOMAIN batch_rx /\ batch_rx'[i] = batch_rx[i]
        <5>1. Append(batch_rx, group_id)[i] = group_id
              \/ (i \in DOMAIN batch_rx /\ Append(batch_rx, group_id)[i] = batch_rx[i])
          <6>1. i \in DOMAIN Append(batch_rx, group_id)
            BY <2>3, <3>4
          <6>2. QED
            BY <1>1, <3>1, <6>1
        <5>2. QED
          BY <3>4, <5>1
      <4>2. CASE batch_rx'[i] = group_id
        BY <1>1, <1>3, <3>4, <4>2
      <4>3. CASE i \in DOMAIN batch_rx /\ batch_rx'[i] = batch_rx[i]
        <5>1. batch_rx[i] < group_id /\ batch_rx[i] \in Nat
          BY <1>1, <3>1, <3>2, <4>3
        <5>2. QED
          BY <1>1, <1>7, <4>3, <5>1
      <4>4. QED
        BY <4>1, <4>2, <4>3
    <3>5. QED
      BY <1>3, <3>3, <3>4
  <2>4. QED
    BY <2>1, <2>2, <2>3 DEF BatchesOK
<1>9. ASSUME NEW s, s = shard PROVE ShardOK(s)'
  <2>1. Len(batch) - 1 < Len(batch) /\ Len(batch) - 1 + 1 = Len(old) + 1
    BY <1>2
  <2>2. QED
    BY <1>2, <1>4, <1>9, <2>1 DEF ShardOK
<1>10. \A g \in Groups :
          /\ g < group_id => batches'[g] = batches[g]
          /\ Len(batches'[g]) >= Len(batches[g])
          /\ \A j \in 1 .. Len(batches[g]) : batches'[g][j] = batches[g][j]
  <2>1. ASSUME NEW g \in Groups, g # group_id
        PROVE  batches'[g] = batches[g] /\ Len(batches[g]) \in Nat
    BY <1>0, <1>4, <2>1 DEF TypeOK
  <2>2. /\ ~(group_id < group_id) /\ Len(batch) >= Len(old)
        /\ \A j \in 1 .. Len(old) : batch[j] = old[j]
    BY <1>1, <1>2
  <2>3. ASSUME NEW g \in Groups
        PROVE  /\ g < group_id => batches'[g] = batches[g]
               /\ Len(batches'[g]) >= Len(batches[g])
               /\ \A j \in 1 .. Len(batches[g]) : batches'[g][j] = batches[g][j]
    <3>1. CASE g = group_id
      BY <1>4, <2>2, <3>1 DEF old
    <3>2. CASE g # group_id
      BY <2>1, <3>2
    <3>3. QED
      BY <3>1, <3>2
  <2>4. QED
    BY <2>3
<1>11. QED
  BY <1>3, <1>6, <1>7, <1>8, <1>9, <1>10, EncoderKeeps

-----------------------------------------------------------------------------
\* What may come of a shard: its group is complete, or cannot be decoded yet,
\* or is decoded, or the decoding fails.
LEMMA Outcomes ==
    ASSUME NEW s
    PROVE  LET S == Stored(GroupOf(s.group_id), s)
               R == Received(s)
           IN \/ is_done(S) /\ R.group = done(S) /\ R.out = Original(s)
              \/ ~is_done(S) /\ ~Decodable(S) /\ R.group = S /\ R.out = Original(s)
              \/ /\ ~is_done(S) /\ Decodable(S) /\ reconstruct(S)
                 /\ R.group = done(S)
                 /\ R.out = Original(s) \cup decode_with_rs(S, s.group_id)
              \/ ~is_done(S) /\ ~reconstruct(S) /\ R.group = S /\ R.out = {}
<1> DEFINE S == Stored(GroupOf(s.group_id), s)
<1> HIDE DEF S
<1>1. Received(s) =
        CASE is_done(S) -> [group |-> done(S), out |-> Original(s)]
          [] ~is_done(S) /\ ~Decodable(S) -> [group |-> S, out |-> Original(s)]
          [] ~is_done(S) /\ Decodable(S) /\ reconstruct(S) ->
                [group |-> done(S),
                 out |-> Original(s) \cup decode_with_rs(S, s.group_id)]
          [] DecodeFails(S) -> [group |-> S, out |-> {}]
  BY DEF S, Received
<1>2. DecodeFails(S) <=> ~is_done(S) /\ Decodable(S) /\ ~reconstruct(S)
  BY DEF DecodeFails
<1>3. \/ is_done(S) /\ Received(s) = [group |-> done(S), out |-> Original(s)]
      \/ /\ ~is_done(S) /\ ~Decodable(S)
         /\ Received(s) = [group |-> S, out |-> Original(s)]
      \/ /\ ~is_done(S) /\ Decodable(S) /\ reconstruct(S)
         /\ Received(s) = [group |-> done(S),
                           out |-> Original(s) \cup decode_with_rs(S, s.group_id)]
      \/ ~is_done(S) /\ ~reconstruct(S) /\ Received(s) = [group |-> S, out |-> {}]
  BY <1>1, <1>2
<1>4. QED
  BY <1>3 DEF S

\* The group of a shard before it is taken in is well-formed.
LEMMA GroupBefore ==
    ASSUME FecIInv, NEW g \in Groups
    PROVE  GroupOf(g) \in FecGroup /\ GroupOK(GroupOf(g), g, Handed)
<1>1. CASE groups[g] = None
  <2>1. GroupOf(g) = NewGroup
    BY <1>1 DEF GroupOf
  <2>2. NewGroup \in FecGroup
    BY FecAssumption DEF NewGroup, FecGroup
  <2>3. OriginalIndices(NewGroup) = {}
    BY DEF OriginalIndices, NewGroup
  <2>4. GroupOK(NewGroup, g, Handed)
    BY <2>3, FS_EmptySet DEF GroupOK, NewGroup, is_done
  <2>5. QED
    BY <2>1, <2>2, <2>4
<1>2. CASE groups[g] # None
  BY <1>2 DEF FecIInv, TypeOK, GroupOf
<1>3. QED
  BY <1>1, <1>2

\* A shard that is stored keeps the group well-formed, and the count right.
LEMMA StoredGroup ==
    ASSUME FecIInv, NEW s \in net, ~Ignored(s)
    PROVE  LET g == s.group_id
               S == Stored(GroupOf(g), s)
           IN /\ S \in FecGroup
              /\ S.received_shards = GroupOf(g).received_shards \cup {s}
              /\ \A r \in S.received_shards : r.group_id = g /\ ShardOK(r)
              /\ S.data_shards # 0 => S.data_shards = Len(batches[g]) /\ g < group_id
              /\ S.received_original_count = Cardinality(OriginalIndices(S))
<1> DEFINE g == s.group_id
           G == GroupOf(g)
           S == Stored(G, s)
<1>0. s \in Shard /\ ShardOK(s) /\ g \in Groups
  BY DEF FecIInv, TypeOK, Shard
<1>1. G \in FecGroup /\ GroupOK(G, g, Handed)
  BY <1>0, GroupBefore
<1>2. ~is_done(G) /\ \A r \in G.received_shards : r.index # s.index
  BY DEF Ignored, Known
<1> HIDE DEF G, g
<1>3. /\ S.data_shards = IF s.data_shards = 0 THEN G.data_shards ELSE s.data_shards
      /\ S.received_original_count = IF s.data_shards = 0
                                     THEN G.received_original_count + 1
                                     ELSE G.received_original_count
      /\ S.received_shards = G.received_shards \cup {s}
  BY DEF Stored
<1>4. S \in FecGroup
  BY <1>0, <1>1 DEF Stored, FecGroup, Shard
<1> HIDE DEF S
<1>5. \A r \in S.received_shards : r.group_id = g /\ ShardOK(r)
  BY <1>0, <1>1, <1>3 DEF GroupOK, g
<1>6. S.data_shards # 0 => S.data_shards = Len(batches[g]) /\ g < group_id
  BY <1>0, <1>1, <1>3 DEF GroupOK, ShardOK, g
<1>7. S.received_original_count = Cardinality(OriginalIndices(S))
  <2>1. G.received_original_count = Cardinality(OriginalIndices(G))
    BY <1>1, <1>2 DEF GroupOK
  <2>2. IsFiniteSet(OriginalIndices(G))
    <3>1. OriginalIndices(G) \subseteq Indices
      BY <1>1 DEF OriginalIndices, FecGroup, Shard
    <3>2. QED
      BY <3>1, IndicesAreNumbers, FS_Subset
  <2>3. CASE s.data_shards = 0
    <3>1. OriginalIndices(S) = OriginalIndices(G) \cup {s.index}
      BY <1>3, <2>3 DEF OriginalIndices
    <3>2. s.index \notin OriginalIndices(G)
      BY <1>2 DEF OriginalIndices
    <3>3. Cardinality(OriginalIndices(G) \cup {s.index})
            = Cardinality(OriginalIndices(G)) + 1
      BY <2>2, <3>2, FS_AddElement
    <3>4. QED
      BY <1>3, <2>1, <2>3, <3>1, <3>3
  <2>4. CASE s.data_shards # 0
    <3>1. OriginalIndices(S) = OriginalIndices(G)
      BY <1>3, <2>4 DEF OriginalIndices
    <3>2. QED
      BY <1>3, <2>1, <2>4, <3>1
  <2>5. QED
    BY <2>3, <2>4
<1>8. QED
  BY <1>3, <1>4, <1>5, <1>6, <1>7 DEF S, G, g

\* A group that has all originals it counts has each of its packets.
LEMMA AllOriginals ==
    ASSUME FecIInv, NEW g \in Groups, NEW S \in FecGroup, is_done(S),
           S.data_shards = Len(batches[g]),
           \A r \in S.received_shards : r.group_id = g /\ ShardOK(r),
           S.received_original_count = Cardinality(OriginalIndices(S))
    PROVE  OriginalIndices(S) = 0 .. Len(batches[g]) - 1
<1> DEFINE n == Len(batches[g])
           I == OriginalIndices(S)
<1>1. n \in Nat /\ n # 0 /\ n = Cardinality(I)
  <2>1. batches[g] \in Seq(Lens)
    BY DEF FecIInv, TypeOK
  <2>2. QED
    BY <2>1 DEF is_done
<1>2. I \subseteq 0 .. n - 1
  <2>1. ASSUME NEW r \in S.received_shards, r.data_shards = 0
        PROVE  r.index \in 0 .. n - 1
    <3>1. r.index < n /\ r \in Shard
      BY <1>1, <2>1 DEF ShardOK, FecGroup
    <3>2. r.index \in Nat
      BY <3>1, IndicesAreNumbers DEF Shard
    <3>3. QED
      BY <1>1, <3>1, <3>2
  <2>2. QED
    BY <2>1 DEF OriginalIndices
<1> HIDE DEF n, I
<1>3. IsFiniteSet(0 .. n - 1) /\ Cardinality(0 .. n - 1) = n
  <2>1. n - 1 \in Int /\ 0 \in Int /\ ~(0 > n - 1) /\ n - 1 - 0 + 1 = n
    BY <1>1
  <2>2. QED
    BY <2>1, FS_Interval
<1>4. I = 0 .. n - 1
  BY <1>1, <1>2, <1>3, FS_Subset
<1>5. QED
  BY <1>4 DEF n, I

\* A group that is done keeps its size.
LEMMA DoneGroup ==
    ASSUME NEW G \in FecGroup
    PROVE  /\ done(G) \in FecGroup /\ done(G).received_shards = {}
           /\ done(G).data_shards = G.data_shards
           /\ G.data_shards # 0 => is_done(done(G))
<1>1. G.data_shards \in Nat
  BY FecAssumption DEF FecGroup
<1>2. done(G) \in FecGroup
  BY <1>1 DEF done, FecGroup
<1>3. /\ done(G).received_shards = {} /\ done(G).data_shards = G.data_shards
      /\ done(G).received_original_count = G.data_shards
  BY DEF done, FecGroup
<1>4. QED
  BY <1>2, <1>3 DEF is_done

\* What becomes of the group, and what has been handed on then, is right.
LEMMA ReceivedGroup ==
    ASSUME FecIInv, NEW s \in net, ~Ignored(s)
    PROVE  /\ Received(s).group \in FecGroup
           /\ Received(s).out \subseteq Packet
           /\ \A p \in Received(s).out : p.group_id = s.group_id
           /\ GroupOK(Received(s).group, s.group_id, Handed \cup Received(s).out)
<1> DEFINE g == s.group_id
           G == GroupOf(g)
           S == Stored(G, s)
           R == Received(s)
           n == Len(batches[g])
<1>0. s \in Shard /\ ShardOK(s) /\ g \in Groups /\ n \in Nat
  BY DEF FecIInv, TypeOK, Shard
<1>1. GroupOK(G, g, Handed) /\ ~is_done(G)
  BY <1>0, GroupBefore DEF Ignored
<1>2. /\ S \in FecGroup /\ S.received_shards = G.received_shards \cup {s}
      /\ \A r \in S.received_shards : r.group_id = g /\ ShardOK(r) /\ r \in Shard
      /\ S.data_shards # 0 => S.data_shards = n /\ g < group_id
      /\ S.received_original_count = Cardinality(OriginalIndices(S))
  BY StoredGroup DEF FecGroup
<1>3. \/ is_done(S) /\ R.group = done(S) /\ R.out = Original(s)
      \/ ~is_done(S) /\ ~Decodable(S) /\ R.group = S /\ R.out = Original(s)
      \/ /\ ~is_done(S) /\ Decodable(S) /\ reconstruct(S)
         /\ R.group = done(S) /\ R.out = Original(s) \cup decode_with_rs(S, g)
      \/ ~is_done(S) /\ ~reconstruct(S) /\ R.group = S /\ R.out = {}
  BY Outcomes
<1> HIDE DEF G, S, R, n
\* The originals but the new one have been handed on.
<1>4. ASSUME NEW r \in S.received_shards, r.data_shards = 0, Uniform(g)
      PROVE  r = s \/ PacketOf(r) \in Handed
  BY <1>1, <1>2, <1>4 DEF GroupOK
<1>5. Original(s) \subseteq Packet /\ \A p \in Original(s) : p.group_id = g
  BY <1>0 DEF Original, PacketOf, Packet, Shard
<1>6. done(S) \in FecGroup /\ done(S).received_shards = {}
      /\ done(S).data_shards = S.data_shards
      /\ (S.data_shards # 0 => is_done(done(S)))
  BY <1>2, DoneGroup
<1>7. CASE is_done(S) /\ R.group = done(S) /\ R.out = Original(s)
  <2>1. S.data_shards = n /\ S.data_shards # 0
    BY <1>2, <1>7 DEF is_done
  <2>2. OriginalIndices(S) = 0 .. n - 1
    BY <1>0, <1>2, <1>7, <2>1, AllOriginals DEF n
  <2>3. ASSUME NEW i \in 0 .. n - 1, Uniform(g)
        PROVE  [group_id |-> g, index |-> i] \in Handed \cup R.out
    <3>1. PICK r \in S.received_shards : r.data_shards = 0 /\ r.index = i
      BY <2>2 DEF OriginalIndices
    <3>2. PacketOf(r) = [group_id |-> g, index |-> i]
      BY <1>2, <3>1 DEF PacketOf
    <3>3. CASE r = s
      BY <1>7, <3>1, <3>2, <3>3 DEF Original
    <3>4. CASE r # s
      BY <1>4, <2>3, <3>1, <3>2, <3>4
    <3>5. QED
      BY <3>3, <3>4
  <2>4. GroupOK(R.group, g, Handed \cup R.out)
    BY <1>2, <1>6, <1>7, <2>1, <2>3 DEF GroupOK, n
  <2>5. QED
    BY <1>5, <1>6, <1>7, <2>4 DEF R
<1>8. CASE ~is_done(S) /\ R.group = S /\ R.out = Original(s)
  <2>1. ASSUME NEW r \in S.received_shards, r.data_shards = 0, Uniform(g)
        PROVE  PacketOf(r) \in Handed \cup R.out
    <3>1. r = s => PacketOf(r) \in Original(s)
      BY <2>1 DEF Original
    <3>2. QED
      BY <1>4, <1>8, <2>1, <3>1
  <2>2. GroupOK(R.group, g, Handed \cup R.out)
    BY <1>2, <1>8, <2>1 DEF GroupOK, n
  <2>3. QED
    BY <1>2, <1>5, <1>8, <2>2 DEF R
<1>9. CASE /\ Decodable(S) /\ R.group = done(S)
           /\ R.out = Original(s) \cup decode_with_rs(S, g)
  <2>1. S.data_shards = n /\ S.data_shards # 0
    BY <1>2, <1>9 DEF Decodable
  <2>2. ASSUME NEW i \in 0 .. n - 1, Uniform(g)
        PROVE  [group_id |-> g, index |-> i] \in Handed \cup R.out
    <3>1. CASE \A r \in S.received_shards : r.index # i
      <4>1. [group_id |-> g, index |-> i] \in decode_with_rs(S, g)
        BY <2>1, <2>2, <3>1 DEF decode_with_rs
      <4>2. QED
        BY <1>9, <4>1
    <3>2. ASSUME NEW r \in S.received_shards, r.index = i
          PROVE  [group_id |-> g, index |-> i] \in Handed \cup R.out
      <4>1. r.data_shards = 0
        BY <1>0, <1>2, <2>2, <3>2 DEF ShardOK, n
      <4>2. PacketOf(r) = [group_id |-> g, index |-> i]
        BY <1>2, <3>2 DEF PacketOf
      <4>3. r = s => PacketOf(r) \in Original(s)
        BY <4>1 DEF Original
      <4>4. QED
        BY <1>4, <1>9, <2>2, <4>1, <4>2, <4>3
    <3>3. QED
      BY <3>1, <3>2
  <2>3. decode_with_rs(S, g) \subseteq Packet
        /\ \A p \in decode_with_rs(S, g) : p.group_id = g
    <3>1. 0 .. S.data_shards - 1 \subseteq Indices
      <4>1. S.data_shards \in 0 .. BATCH_SIZE
        BY <1>2 DEF FecGroup
      <4>2. 0 .. S.data_shards - 1 \subseteq 0 .. BATCH_SIZE
        BY <4>1, FecAssumption
      <4>3. QED
        BY <4>2, IndicesAreNumbers
    <3>2. QED
      BY <1>0, <3>1 DEF decode_with_rs, Packet
  <2>4. GroupOK(R.group, g, Handed \cup R.out)
    BY <1>2, <1>6, <1>9, <2>1, <2>2 DEF GroupOK, n
  <2>5. QED
    BY <1>5, <1>6, <1>9, <2>3, <2>4 DEF R
<1>10. CASE ~is_done(S) /\ ~reconstruct(S) /\ R.group = S /\ R.out = {}
  \* Shards of a group of one length have one length.
  <2>1. ~Uniform(g)
    <3>1. PICK r \in S.received_shards, q \in S.received_shards : r.len # q.len
      BY <1>10 DEF reconstruct
    <3>2. /\ r.group_id = g /\ q.group_id = g /\ ShardOK(r) /\ ShardOK(q)
          /\ r.index \in Nat /\ q.index \in Nat
      BY <1>2, IndicesAreNumbers DEF Shard
    <3>3. ASSUME NEW x, ShardOK(x), x.group_id = g, x.index \in Nat
          PROVE  \E i \in 1 .. n : x.len = batches[g][i]
      <4>1. CASE x.index < n /\ x.len = batches[g][x.index + 1]
        <5>1. x.index + 1 \in 1 .. n
          BY <1>0, <3>3, <4>1
        <5>2. QED
          BY <4>1, <5>1
      <4>2. CASE \E j \in 1 .. n : x.len = batches[g][j]
        BY <4>2
      <4>3. QED
        BY <3>3, <4>1, <4>2 DEF ShardOK, n
    <3>4. /\ \E i \in 1 .. n : r.len = batches[g][i]
          /\ \E i \in 1 .. n : q.len = batches[g][i]
      BY <3>2, <3>3
    <3>5. DOMAIN batches[g] = 1 .. n
      BY <1>0 DEF FecIInv, TypeOK, n
    <3>6. QED
      BY <3>1, <3>4, <3>5 DEF Uniform
  <2>2. GroupOK(R.group, g, Handed \cup R.out)
    BY <1>2, <1>10, <2>1 DEF GroupOK, n
  <2>3. QED
    BY <1>2, <1>10, <2>2 DEF R
<1>11. QED
  BY <1>3, <1>7, <1>8, <1>9, <1>10

\* What is handed on has not been handed on before, unless its group has been
\* forgotten.
LEMMA HandsOnIsNew ==
    ASSUME FecIInv, NEW s \in net, NEW p \in HandsOn(s), p \in Handed
    PROVE  s.group_id \in forgotten
<1> DEFINE g == s.group_id
           G == GroupOf(g)
           S == Stored(G, s)
<1>1. ~Ignored(s) /\ p \in Received(s).out
  BY DEF HandsOn
<1>2. p.group_id = g
  BY <1>1, ReceivedGroup
<1>3. p \in Original(s) \/ p \in decode_with_rs(S, g)
  BY <1>1, Outcomes
<1>4. ~is_done(G) /\ \A r \in G.received_shards : r.index # s.index
  BY <1>1 DEF Ignored, Known
<1>5. S.received_shards = G.received_shards \cup {s}
  BY <1>1, StoredGroup
<1> HIDE DEF S
<1>6. SUFFICES ASSUME g \notin forgotten PROVE FALSE
  OBVIOUS
<1>7. groups[g] # None /\ (is_done(groups[g])
         \/ \E r \in groups[g].received_shards : r.data_shards = 0 /\ PacketOf(r) = p)
  BY <1>2, <1>6 DEF FecIInv, Remembered
<1>8. PICK r \in G.received_shards : PacketOf(r) = p
  BY <1>4, <1>7 DEF GroupOf
<1>9. p.index = r.index
  BY <1>8 DEF PacketOf
<1>10. CASE p \in Original(s)
  <2>1. p.index = s.index
    BY <1>10 DEF Original, PacketOf
  <2>2. QED
    BY <1>4, <1>8, <1>9, <2>1
<1>11. CASE p \in decode_with_rs(S, g)
  <2>1. \A q \in S.received_shards : q.index # p.index
    BY <1>11 DEF decode_with_rs
  <2>2. QED
    BY <1>5, <1>8, <1>9, <2>1
<1>12. QED
  BY <1>3, <1>10, <1>11

\* What is handed on is remembered: as a shard of its group, or because the
\* group is done.
LEMMA ReceivedRemembers ==
    ASSUME FecIInv, NEW s \in net, ~Ignored(s), NEW p,
           \/ p \in Received(s).out
           \/ /\ p \in Handed /\ p.group_id = s.group_id
              /\ s.group_id \notin forgotten
    PROVE  \/ is_done(Received(s).group)
           \/ \E r \in Received(s).group.received_shards :
                 r.data_shards = 0 /\ PacketOf(r) = p
<1> DEFINE g == s.group_id
           G == GroupOf(g)
           S == Stored(G, s)
           R == Received(s)
<1>1. /\ S \in FecGroup
      /\ S.received_shards = G.received_shards \cup {s}
  BY StoredGroup
<1>2. ~is_done(G)
  BY DEF Ignored
<1>3. \/ (is_done(S) \/ Decodable(S)) /\ R.group = done(S)
      \/ R.group = S /\ R.out \subseteq Original(s)
  BY Outcomes
<1> HIDE DEF S, R
<1>4. CASE (is_done(S) \/ Decodable(S)) /\ R.group = done(S)
  <2>1. S.data_shards # 0
    BY <1>4 DEF is_done, Decodable
  <2>2. QED
    BY <1>1, <1>4, <2>1, DoneGroup DEF R
<1>5. CASE R.group = S /\ R.out \subseteq Original(s)
  <2>1. CASE p \in R.out
    BY <1>1, <1>5, <2>1 DEF Original, R
  <2>2. CASE p \notin R.out
    <3>1. p \in Handed /\ p.group_id = g /\ g \notin forgotten
      BY <2>2 DEF R
    <3>2. groups[g] # None /\ (is_done(groups[g])
             \/ \E r \in groups[g].received_shards :
                   r.data_shards = 0 /\ PacketOf(r) = p)
      BY <3>1 DEF FecIInv, Remembered
    <3>3. QED
      BY <1>1, <1>2, <1>5, <3>2 DEF GroupOf, R
  <2>3. QED
    BY <2>1, <2>2
<1>6. QED
  BY <1>3, <1>4, <1>5

\* A shard that arrives, for the last time or not.
LEMMA ReceiveKeeps ==
    ASSUME FecIInv, NEW s \in net, receive(s), net' \subseteq net, copies' \in Nat
    PROVE  FecIInv'
<1> DEFINE g == s.group_id
           R == Received(s)
<1>0. TypeOK /\ BatchesOK /\ s \in Shard /\ g \in Groups
  BY DEF FecIInv, TypeOK, Shard
<1>1. /\ Handed' = Handed \cup HandsOn(s)
      /\ UNCHANGED <<encVars, lost>>
      /\ group_id' = group_id /\ batches' = batches /\ batch_rx' = batch_rx
  BY ProcessHandsOn DEF receive, encVars
<1>2. BatchesOK' /\ \A r \in net' : ShardOK(r)'
  BY <1>1 DEF FecIInv, BatchesOK, ShardOK
<1>3. CASE Ignored(s)
  <2>1. Handed' = Handed /\ groups' = groups /\ forgotten' = forgotten
    BY <1>1, <1>3 DEF HandsOn, receive
  <2>2. TypeOK'
    BY <1>0, <1>1, <2>1 DEF TypeOK, Handed
  <2>3. Remembered'
    BY <2>1 DEF FecIInv, Remembered, is_done, PacketOf
  <2>4. ASSUME NEW h \in Groups, groups'[h] # None
        PROVE  GroupOK(groups[h], h, Handed)'
    <3>1. GroupOK(groups[h], h, Handed)
      BY <2>1, <2>4 DEF FecIInv
    <3>2. QED
      BY <1>1, <2>1, <3>1
         DEF GroupOK, ShardOK, Uniform, is_done, PacketOf, OriginalIndices
  <2>5. QED
    BY <1>2, <2>2, <2>3, <2>4 DEF FecIInv
<1>4. CASE ~Ignored(s)
  <2>1. PICK old \in SUBSET {h \in Groups \ {g} : groups[h] # None} :
           /\ forgotten' = forgotten \cup old
           /\ groups' = [h \in Groups |-> IF h = g THEN R.group
                                          ELSE IF h \in old THEN None ELSE groups[h]]
    BY <1>4 DEF receive
  <2>2. /\ R.group \in FecGroup /\ R.out \subseteq Packet
        /\ \A p \in R.out : p.group_id = g
        /\ GroupOK(R.group, g, Handed \cup R.out)
    BY <1>4, ReceivedGroup
  <2>3. Handed' = Handed \cup R.out /\ R.group # None
    BY <1>1, <1>4, <2>2, NoneAssumption DEF HandsOn
  <2>4. \A p : (\/ p \in R.out
                \/ p \in Handed /\ p.group_id = g /\ g \notin forgotten)
               => \/ is_done(R.group)
                  \/ \E r \in R.group.received_shards :
                        r.data_shards = 0 /\ PacketOf(r) = p
    BY <1>4, ReceivedRemembers
  <2> HIDE DEF R
  <2>5. TypeOK'
    <3>1. groups' \in [Groups -> FecGroup \cup {None}]
      <4>1. \A h \in Groups : groups[h] \in FecGroup \cup {None}
        BY <1>0 DEF TypeOK
      <4>2. QED
        BY <2>1, <2>2, <4>1
    <3>2. forgotten' \subseteq Groups /\ Handed' \subseteq Packet
      BY <1>0, <2>1, <2>2, <2>3, HandedArePackets DEF TypeOK
    <3>3. QED
      BY <1>0, <1>1, <3>1, <3>2 DEF TypeOK, Handed
  <2>6. ASSUME NEW p \in Handed', p.group_id \notin forgotten'
        PROVE  /\ groups'[p.group_id] # None
               /\ \/ is_done(groups'[p.group_id])
                  \/ \E r \in groups'[p.group_id].received_shards :
                        r.data_shards = 0 /\ PacketOf(r) = p
    <3>1. p.group_id \in Groups /\ p.group_id \notin forgotten /\ p.group_id \notin old
      BY <2>1, <2>5, <2>6 DEF TypeOK, Handed, Packet
    <3>2. CASE p.group_id = g
      BY <1>0, <2>1, <2>3, <2>4, <2>6, <3>1, <3>2
    <3>3. CASE p.group_id # g
      <4>1. p \in Handed /\ groups'[p.group_id] = groups[p.group_id]
        BY <2>1, <2>2, <2>3, <2>6, <3>1, <3>3
      <4>2. QED
        BY <3>1, <4>1 DEF FecIInv, Remembered
    <3>4. QED
      BY <3>2, <3>3
  <2>7. Remembered'
    BY <2>6 DEF Remembered, is_done, PacketOf
  <2>8. ASSUME NEW h \in Groups, groups'[h] # None
        PROVE  GroupOK(groups[h], h, Handed)'
    <3>1. CASE h = g
      <4>1. groups'[h] = R.group
        BY <1>0, <2>1, <3>1
      <4>2. GroupOK(R.group, g, Handed')
        BY <2>2, <2>3
      <4>3. QED
        BY <1>1, <3>1, <4>1, <4>2
           DEF GroupOK, ShardOK, Uniform, is_done, PacketOf, OriginalIndices
    <3>2. CASE h # g
      <4>1. groups'[h] = groups[h] /\ GroupOK(groups[h], h, Handed)
        BY <2>1, <2>8, <3>2 DEF FecIInv
      <4>2. QED
        BY <1>1, <2>3, <4>1
           DEF GroupOK, ShardOK, Uniform, is_done, PacketOf, OriginalIndices
    <3>3. QED
      BY <3>1, <3>2
  <2>9. QED
    BY <1>2, <2>5, <2>7, <2>8 DEF FecIInv
<1>5. QED
  BY <1>3, <1>4

\* A shard that is lost takes nothing else with it.
LEMMA LoseKeeps ==
    ASSUME FecIInv, NEW s \in net, Lose(s) PROVE FecIInv'
<1>0. TypeOK /\ BatchesOK
  BY DEF FecIInv
<1>1. /\ net' \subseteq net /\ copies' = copies
      /\ lost' = [lost EXCEPT ![s.group_id] = @ + 1]
      /\ UNCHANGED <<encVars, decVars>>
      /\ group_id' = group_id /\ batches' = batches /\ batch_rx' = batch_rx
  BY DEF Lose, encVars
<1>2. lost' \in [Groups -> Nat]
  <2>1. lost \in [Groups -> Nat] /\ s.group_id \in Groups
    BY <1>0 DEF TypeOK, Shard
  <2>2. lost[s.group_id] + 1 \in Nat
    BY <2>1
  <2>3. QED
    BY <1>1, <2>1, <2>2
<1>3. TypeOK'
  BY <1>0, <1>1, <1>2 DEF TypeOK, decVars
<1>4. BatchesOK'
  BY <1>0, <1>1 DEF BatchesOK
<1>5. /\ group_id' >= group_id
      /\ \A g \in Groups : Len(batches[g]) \in Nat
  <2>1. group_id \in Groups /\ Groups \subseteq Nat
    BY <1>0, FecAssumption DEF TypeOK, Groups
  <2>2. \A g \in Groups : batches[g] \in Seq(Lens)
    BY <1>0 DEF TypeOK
  <2>3. QED
    BY <1>1, <2>1, <2>2
<1>6. QED
  BY <1>1, <1>3, <1>4, <1>5, EncoderKeeps

\* The first state.
LEMMA InitFec == Init => FecIInv
<1> SUFFICES ASSUME Init PROVE FecIInv
  OBVIOUS
<1>1. 0 \in Groups /\ BATCH_SIZE \in Nat /\ 0 < BATCH_SIZE /\ Groups \subseteq Nat
  BY FecAssumption DEF Groups
<1>2. TypeOK
  BY <1>1 DEF Init, TypeOK
<1>3. /\ \A g \in Groups : batches[g] = <<>> /\ groups[g] = None
      /\ batches[group_id] = <<>> /\ batch_rx = <<>> /\ net = {} /\ Handed = {}
      /\ group_id = 0 /\ Len(<<>>) = 0
  BY <1>1 DEF Init, Handed
<1>4. BatchesOK
  <2>1. \A g \in Groups : ~(g < group_id) /\ Len(batches[g]) <= BATCH_SIZE
    BY <1>1, <1>3
  <2>2. \A i \in DOMAIN batch_rx : batch_rx[i] < group_id
    BY <1>3
  <2>3. QED
    BY <1>1, <1>3, <2>1, <2>2 DEF BatchesOK
<1>5. QED
  BY <1>2, <1>3, <1>4 DEF FecIInv, Remembered

\* Every step of encoder, worker, network and decoder keeps the invariant.
LEMMA StepFec == FecIInv /\ [Next]_vars => FecIInv'
<1> SUFFICES ASSUME FecIInv, [Next]_vars PROVE FecIInv'
  OBVIOUS
<1>0. copies \in Nat
  BY DEF FecIInv, TypeOK
<1>1. ASSUME NEW len \in Lens, encode(len) PROVE FecIInv'
  BY <1>1, EncodeKeeps
<1>2. CASE WorkerReceives
  BY <1>2, WorkerReceivesKeeps
<1>3. CASE WorkerTick
  BY <1>3, WorkerTickKeeps
<1>4. ASSUME NEW s \in net, Arrive(s) PROVE FecIInv'
  <2>1. net' \subseteq net /\ copies' \in Nat /\ receive(s)
    BY <1>0, <1>4 DEF Arrive
  <2>2. QED
    BY <2>1, ReceiveKeeps
<1>5. ASSUME NEW s \in net, ArriveTwice(s) PROVE FecIInv'
  <2>1. net' \subseteq net /\ copies' \in Nat /\ receive(s)
    BY <1>0, <1>5 DEF ArriveTwice
  <2>2. QED
    BY <2>1, ReceiveKeeps
<1>6. ASSUME NEW s \in net, Lose(s) PROVE FecIInv'
  BY <1>6, LoseKeeps
<1>7. CASE UNCHANGED vars
  <2>1. /\ TypeOK' /\ BatchesOK' /\ group_id' >= group_id /\ net' = net
        /\ UNCHANGED <<batches, decVars>>
    <3>1. group_id \in Nat
      BY FecAssumption DEF FecIInv, TypeOK, Groups
    <3>2. QED
      BY <1>7, <3>1 DEF vars, decVars, FecIInv, TypeOK, BatchesOK
  <2>2. \A g \in Groups : Len(batches[g]) \in Nat
    <3>1. \A g \in Groups : batches[g] \in Seq(Lens)
      BY DEF FecIInv, TypeOK
    <3>2. QED
      BY <3>1
  <2>3. QED
    BY <2>1, <2>2, EncoderKeeps
<1>8. QED
  BY <1>1, <1>2, <1>3, <1>4, <1>5, <1>6, <1>7 DEF Next, Worker

-----------------------------------------------------------------------------
\* The decoder's groups are well formed, and a group that counts as done, and
\* so drops whatever still comes for it, has handed on all its packets when
\* they are of one length: however packets are lost, duplicated, reordered or
\* overtaken by their parity packet, and whatever groups were cleaned up.
THEOREM GroupsAreSound == Spec => []GroupInv
<1>1. FecIInv => GroupInv
  <2>1. SUFFICES ASSUME FecIInv, NEW g \in Groups, groups[g] # None,
                        is_done(groups[g]), Uniform(g)
                 PROVE  \A i \in 0 .. Len(batches[g]) - 1 :
                           [group_id |-> g, index |-> i] \in Handed
    BY DEF GroupInv, DoneIsComplete, FecIInv
  <2>2. QED
    BY <2>1 DEF FecIInv, GroupOK
<1>2. QED
  BY InitFec, StepFec, <1>1, PTL DEF Spec

\* A packet is handed on once, as an original or reconstructed, as long as
\* the decoder has its group.
THEOREM HandedOnOnce == Spec => []DeliveredOnce
<1>1. FecIInv => DeliveredOnce
  BY HandsOnIsNew DEF DeliveredOnce
<1>2. QED
  BY InitFec, StepFec, <1>1, PTL DEF Spec

\* What the decoder hands on is a packet of its group that was sent: an
\* original is one, and what is reconstructed is one of the packets that the
\* parity packets of the group count.
LEMMA HandsOnWhatWasSent ==
    ASSUME FecIInv, NEW s \in net, NEW p \in HandsOn(s)
    PROVE  p.group_id \in Groups /\ p.index < Len(batches[p.group_id])
<1> DEFINE g == s.group_id
           S == Stored(GroupOf(g), s)
<1>1. ~Ignored(s) /\ p \in Received(s).out
  BY DEF HandsOn
<1>2. s \in Shard /\ g \in Groups
  <2>1. s \in Shard
    BY DEF FecIInv, TypeOK
  <2>2. QED
    BY <2>1 DEF Shard
<1>3. p \in Original(s) \/ (Decodable(S) /\ p \in decode_with_rs(S, g))
  BY <1>1, Outcomes
<1>4. S \in FecGroup /\ (S.data_shards # 0 => S.data_shards = Len(batches[g]))
  BY <1>1, StoredGroup
<1> HIDE DEF S
<1>5. CASE p \in Original(s)
  <2>1. s.data_shards = 0 /\ p.group_id = g /\ p.index = s.index
    BY <1>5 DEF Original, PacketOf
  <2>2. s.index < Len(batches[g])
    BY <2>1 DEF FecIInv, ShardOK
  <2>3. QED
    BY <1>2, <2>1, <2>2
<1>6. CASE Decodable(S) /\ p \in decode_with_rs(S, g)
  <2>1. p.group_id = g /\ p.index \in 0 .. S.data_shards - 1
    BY <1>6 DEF decode_with_rs
  <2>2. S.data_shards = Len(batches[g]) /\ S.data_shards \in Nat
    BY <1>4, <1>6, FecAssumption DEF Decodable, FecGroup
  <2>3. QED
    BY <1>2, <2>1, <2>2
<1>7. QED
  BY <1>3, <1>5, <1>6

\* Only packets of a group of several can get wrong flags: a group of one is
\* reconstructed from parity alone.
LEMMA SuspectsHaveCompany ==
    ASSUME FecIInv, NEW s \in net, Suspect(s) # {}
    PROVE  Compression /\ Len(batches[s.group_id]) > 1
<1> DEFINE g == s.group_id
           S == Stored(GroupOf(g), s)
           n == Len(batches[g])
<1>1. PICK p \in HandsOn(s) : p \notin Original(s)
  BY DEF Suspect
<1>2. PICK r \in S.received_shards : r.data_shards = 0
  BY DEF Suspect
<1>3. ~Ignored(s) /\ p \in Received(s).out
  BY <1>1 DEF HandsOn
<1>4. Decodable(S) /\ p \in decode_with_rs(S, g)
  BY <1>1, <1>3, Outcomes
<1>5. /\ S \in FecGroup /\ S.data_shards = n
      /\ r \in Shard /\ r.group_id = g /\ ShardOK(r)
  BY <1>2, <1>3, <1>4, StoredGroup DEF Decodable, FecGroup
<1> HIDE DEF S
<1>6. p.index \in 0 .. n - 1 /\ r.index # p.index
  BY <1>2, <1>4, <1>5 DEF decode_with_rs
<1>7. n \in Nat /\ r.index \in Nat
  <2>1. g \in Groups
    BY <1>5 DEF Shard
  <2>2. batches[g] \in Seq(Lens)
    BY <2>1 DEF FecIInv, TypeOK
  <2>3. Len(batches[g]) \in Nat
    BY <2>2
  <2>4. r.index \in Indices
    BY <1>5 DEF Shard
  <2>5. QED
    BY <2>3, <2>4, IndicesAreNumbers
<1>8. r.index < n
  BY <1>2, <1>5, <1>7 DEF ShardOK
<1> HIDE DEF n
<1>9. n > 1
  BY <1>6, <1>7, <1>8
<1>10. QED
  BY <1>9 DEF n, Suspect

LEMMA StepInventsNothing ==
    ASSUME FecIInv, NothingInvented, [Next]_vars PROVE NothingInvented'
<1>1. \A g \in Groups : batches[g] \in Seq(Lens) /\ Len(batches[g]) \in Nat
  <2>1. \A g \in Groups : batches[g] \in Seq(Lens)
    BY DEF FecIInv, TypeOK
  <2>2. QED
    BY <2>1
<1>2. /\ \A p \in Handed : p.index \in Nat /\ p.group_id \in Groups
      /\ spoiled \subseteq Handed
  BY IndicesAreNumbers DEF FecIInv, TypeOK, Packet, Handed
<1>3. ASSUME NEW len \in Lens, encode(len) PROVE NothingInvented'
  <2>1. /\ group_id \in Groups /\ Handed' = Handed /\ spoiled' = spoiled
        /\ batches' = [batches EXCEPT ![group_id] = Append(batches[group_id], len)]
    BY <1>3, HandedArePackets DEF encode, decVars, FecIInv, TypeOK
  <2>2. Len(Append(batches[group_id], len)) = Len(batches[group_id]) + 1
    BY <1>1, <2>1
  <2>3. \A g \in Groups : batches'[g] = IF g = group_id THEN Append(batches[g], len)
                                                        ELSE batches[g]
    BY <2>1 DEF FecIInv, TypeOK
  <2>4. \A g \in Groups : /\ Len(batches'[g]) \in Nat
                          /\ Len(batches'[g]) >= Len(batches[g])
    <3>1. SUFFICES ASSUME NEW g \in Groups
                   PROVE  Len(batches'[g]) \in Nat /\ Len(batches'[g]) >= Len(batches[g])
      OBVIOUS
    <3>2. CASE g = group_id
      <4>1. Len(batches'[g]) = Len(batches[g]) + 1
        BY <2>2, <2>3, <3>2
      <4>2. QED
        BY <1>1, <4>1
    <3>3. CASE g # group_id
      BY <1>1, <2>3, <3>3
    <3>4. QED
      BY <3>2, <3>3
  <2>5. \A p \in Handed' : p.index < Len(batches'[p.group_id])
    BY <1>1, <1>2, <2>1, <2>4 DEF NothingInvented
  <2>6. ASSUME NEW p \in spoiled' PROVE Compression /\ Len(batches'[p.group_id]) > 1
    <3>1. p \in spoiled /\ p.group_id \in Groups
      BY <1>2, <2>1
    <3>2. Compression /\ Len(batches[p.group_id]) > 1
      BY <3>1 DEF NothingInvented
    <3>3. Len(batches'[p.group_id]) >= Len(batches[p.group_id])
      BY <2>4, <3>1
    <3>4. QED
      BY <1>1, <2>4, <3>1, <3>2, <3>3
  <2>7. QED
    BY <2>5, <2>6 DEF NothingInvented
<1>4. ASSUME NEW s \in net, receive(s) PROVE NothingInvented'
  <2>1. /\ Handed' = Handed \cup HandsOn(s) /\ batches' = batches
        /\ spoiled' \subseteq spoiled \cup HandsOn(s)
        /\ Suspect(s) = {} => spoiled' = spoiled
    BY <1>4, ProcessHandsOn DEF receive, encVars
  <2>2. \A p \in Handed' : p.index < Len(batches[p.group_id])
    BY <2>1, HandsOnWhatWasSent DEF NothingInvented
  <2>3. ASSUME NEW p \in spoiled', p \notin spoiled
        PROVE  Compression /\ Len(batches[p.group_id]) > 1
    <3>1. p \in HandsOn(s) /\ Suspect(s) # {}
      BY <2>1, <2>3
    <3>2. p.group_id = s.group_id
      <4>1. ~Ignored(s) /\ p \in Received(s).out
        BY <3>1 DEF HandsOn
      <4>2. QED
        BY <4>1, ReceivedGroup
    <3>3. QED
      BY <3>1, <3>2, SuspectsHaveCompany
  <2>4. QED
    BY <2>1, <2>2, <2>3 DEF NothingInvented
<1>5. CASE UNCHANGED <<batches, delivered, spoiled>>
  BY <1>5 DEF NothingInvented, Handed
<1>6. CASE Worker
  BY <1>5, <1>6 DEF Worker, WorkerReceives, WorkerTick, decVars
<1>7. ASSUME NEW s \in net, Arrive(s) \/ ArriveTwice(s) \/ Lose(s)
      PROVE  NothingInvented'
  BY <1>4, <1>5, <1>7 DEF Arrive, ArriveTwice, Lose, encVars, decVars
<1>8. CASE UNCHANGED vars
  BY <1>5, <1>8 DEF vars
<1>9. QED
  BY <1>3, <1>6, <1>7, <1>8 DEF Next

\* The decoder returns nothing that was not sent, and only in a group of
\* several packets, and with compression, can the wrong flags of a
\* reconstructed packet spoil it or one that comes after it.
THEOREM OnlySentIsHandedOn == Spec => []NothingInvented
<1>1. Init => NothingInvented
  BY DEF Init, NothingInvented, Handed
<1>2. QED
  BY InitFec, StepFec, <1>1, StepInventsNothing, PTL DEF Spec

-----------------------------------------------------------------------------
(***************************************************************************)
(* RouteTable, for any clients, keys and links, and any round trip times.  *)
(***************************************************************************)

\* The order of one list.
InOrder(list) ==
    \A i, j \in DOMAIN list : i < j =>
        /\ list[i].route_key # list[j].route_key
        /\ list[j].rtt < DEFAULT_RTT => list[i].rtt <= list[j].rtt

\* A task between its two locks remembers for whom it acts.
TasksKnow ==
    \A key \in Keys : inbound[key].pc \in {"absent", "remove"} => inbound[key].id # None

TableIInv ==
    /\ TableTypeOK /\ RouteIsTimed /\ OwnerHasRoute /\ TasksKnow
    /\ \A id \in Ids : InOrder(route_table[id])

-----------------------------------------------------------------------------
\* Naturals have a least one, and bounded ones a greatest one.
LEMMA LeastNat ==
    ASSUME NEW S, S \subseteq Nat, S # {}
    PROVE  \E m \in S : \A y \in S : m <= y
<1>1. PICK m \in S : \A y \in S : ~(<<y, m>> \in OpToRel(<, Nat))
  BY NatLessThanWellFounded, WFMin
<1>2. ASSUME NEW y \in S, y < m PROVE FALSE
  <2>1. <<y, m>> \in {ss \in Nat \X Nat : ss[1] < ss[2]}
    BY <1>2
  <2>2. <<y, m>> \in OpToRel(<, Nat)
    BY <2>1, Zenon DEF OpToRel
  <2>3. QED
    BY <1>1, <2>2
<1>3. QED
  BY <1>2

LEMMA GreatestNat ==
    ASSUME NEW n \in Nat, NEW S, S \subseteq 0 .. n, S # {}
    PROVE  \E m \in S : \A y \in S : y <= m
<1> DEFINE T == {n - x : x \in S}
<1>1. T \subseteq Nat /\ T # {}
  <2>1. \A x \in S : x \in 0 .. n /\ n - x \in Nat
    OBVIOUS
  <2>2. PICK x \in S : TRUE
    OBVIOUS
  <2>3. n - x \in T
    OBVIOUS
  <2>4. QED
    BY <2>1, <2>3
<1> HIDE DEF T
<1>2. PICK t \in T : \A y \in T : t <= y
  BY <1>1, LeastNat
<1>3. PICK m \in S : t = n - m
  BY DEF T
<1>4. \A y \in S : n - m <= n - y
  BY <1>2, <1>3 DEF T
<1>5. QED
  BY <1>4

LEMMA MinOfNats ==
    ASSUME NEW S, S \subseteq Nat, S # {}
    PROVE  Min(S) \in S /\ \A y \in S : Min(S) <= y
<1>1. \E m \in S : \A y \in S : m <= y
  BY LeastNat
<1>2. QED
  BY <1>1 DEF Min

LEMMA MaxOfNats ==
    ASSUME NEW n \in Nat, NEW S, S \subseteq 0 .. n, S # {}
    PROVE  Max(S) \in S /\ \A y \in S : Max(S) >= y
<1>1. \E m \in S : \A y \in S : m >= y
  <2>1. PICK m \in S : \A y \in S : y <= m
    BY GreatestNat
  <2>2. QED
    BY <2>1
<1>2. QED
  BY <1>1 DEF Max

\* What Vec::retain has kept of the first n routes, for each n up to N ...
IsRetaining(g, N, list, gone) ==
    g = [n \in 0 .. N |-> IF n = 0 THEN <<>>
                          ELSE IF list[n].route_key \in gone THEN g[n - 1]
                               ELSE Append(g[n - 1], list[n])]

\* ... exists.
LEMMA RetainSteps ==
    ASSUME NEW N \in Nat, NEW list, NEW gone
    PROVE  \E g : IsRetaining(g, N, list, gone)
<1> DEFINE Next1(n, s) == IF list[n].route_key \in gone THEN s ELSE Append(s, list[n])
           Is(g, m) == g = [n \in 0 .. m |-> IF n = 0 THEN <<>> ELSE Next1(n, g[n - 1])]
<1>1. SUFFICES \E g : Is(g, N)
  BY DEF IsRetaining
<1> HIDE DEF Next1
<1>2. \E g : Is(g, 0)
  <2>1. Is([n \in 0 .. 0 |-> <<>>], 0)
    OBVIOUS
  <2>2. QED
    BY <2>1
<1>3. ASSUME NEW m \in Nat, NEW g, Is(g, m) PROVE \E h : Is(h, m + 1)
  <2> DEFINE h == [n \in 0 .. m + 1 |-> IF n <= m THEN g[n] ELSE Next1(n, g[m])]
  <2>1. \A n \in 0 .. m : h[n] = g[n] /\ g[n] = IF n = 0 THEN <<>> ELSE Next1(n, g[n - 1])
    BY <1>3
  <2>2. h[m + 1] = Next1(m + 1, h[m])
    OBVIOUS
  <2>3. \A n \in 0 .. m + 1 : h[n] = IF n = 0 THEN <<>> ELSE Next1(n, h[n - 1])
    <3>1. ASSUME NEW n \in 0 .. m
          PROVE  h[n] = IF n = 0 THEN <<>> ELSE Next1(n, h[n - 1])
      <4>1. CASE n = 0
        BY <2>1, <4>1
      <4>2. CASE n # 0
        <5>1. h[n] = Next1(n, g[n - 1])
          BY <2>1, <4>2
        <5>2. n - 1 \in 0 .. m
          BY <4>2
        <5>3. h[n - 1] = g[n - 1]
          BY <2>1, <5>2
        <5>4. QED
          BY <4>2, <5>1, <5>3
      <4>3. QED
        BY <4>1, <4>2
    <3>2. h[m + 1] = IF m + 1 = 0 THEN <<>> ELSE Next1(m + 1, h[m + 1 - 1])
      <4>1. m + 1 # 0 /\ m + 1 - 1 = m
        OBVIOUS
      <4>2. QED
        BY <2>2, <4>1
    <3>3. \A n \in 0 .. m + 1 : n \in 0 .. m \/ n = m + 1
      OBVIOUS
    <3> HIDE DEF h
    <3>4. QED
      BY <3>1, <3>2, <3>3
  <2>4. h = [n \in 0 .. m + 1 |-> h[n]]
    OBVIOUS
  <2> HIDE DEF h
  <2>5. Is(h, m + 1)
    BY <2>3, <2>4
  <2>6. QED
    BY <2>5
<1> HIDE DEF Is
<1> DEFINE Has(m) == \E g : Is(g, m)
           Bad == {m \in 0 .. N : ~Has(m)}
<1>4. Has(0) /\ \A m \in Nat : Has(m) => Has(m + 1)
  BY <1>2, <1>3
<1> HIDE DEF Has
<1>5. Has(N)
  <2>1. SUFFICES ASSUME ~Has(N) PROVE FALSE
    OBVIOUS
  <2>2. Bad \subseteq Nat /\ Bad # {}
    BY <2>1
  <2>3. PICK m \in Bad : \A y \in Bad : m <= y
    BY <2>2, LeastNat
  <2>4. m \in 1 .. N /\ m - 1 \in 0 .. N /\ m - 1 \in Nat /\ m - 1 + 1 = m
    BY <1>4
  <2>5. Has(m - 1)
    BY <2>3, <2>4
  <2>6. Has(m - 1 + 1)
    BY <1>4, <2>4, <2>5
  <2>7. QED
    BY <2>3, <2>4, <2>6
<1>6. QED
  BY <1>5 DEF Has, Is

\* A new route at the end.
LEMMA KeysOfAppend ==
    ASSUME NEW list \in Seq(Route), NEW e \in Route
    PROVE  KeysOf(Append(list, e)) = KeysOf(list) \cup {e.route_key}
<1>1. /\ Append(list, e) \in Seq(Route) /\ Len(Append(list, e)) = Len(list) + 1
      /\ \A i \in 1 .. Len(list) : Append(list, e)[i] = list[i]
      /\ Append(list, e)[Len(list) + 1] = e
  BY AppendProperties
<1>2. \A i : i \in DOMAIN Append(list, e) <=> i \in DOMAIN list \/ i = Len(list) + 1
  BY <1>1
<1>3. DOMAIN list = 1 .. Len(list)
  OBVIOUS
<1>4. QED
  BY <1>1, <1>2, <1>3 DEF KeysOf

\* The list that retain leaves: the routes whose keys are not gone, in order.
LEMMA Retained ==
    ASSUME NEW list \in Seq(Route), NEW gone
    PROVE  /\ retain(list, gone) \in Seq(Route)
           /\ KeysOf(retain(list, gone)) = KeysOf(list) \ gone
           /\ InOrder(list) => InOrder(retain(list, gone))
<1> DEFINE Is(g) == IsRetaining(g, Len(list), list, gone)
           kept == CHOOSE g : Is(g)
           Before(n) == {list[k].route_key : k \in 1 .. n} \ gone
           OK(n) == /\ kept[n] \in Seq(Route) /\ KeysOf(kept[n]) = Before(n)
                    /\ \A i \in DOMAIN kept[n] : \E k \in 1 .. n : kept[n][i] = list[k]
                    /\ InOrder(list) => InOrder(kept[n])
           Bad == {n \in 0 .. Len(list) : ~OK(n)}
<1>1. retain(list, gone) = kept[Len(list)]
  BY DEF retain, IsRetaining
<1>2. Len(list) \in Nat /\ \A n \in 1 .. Len(list) : list[n] \in Route
  OBVIOUS
<1>3. \E g : Is(g)
  BY <1>2, RetainSteps
<1>4. Is(kept)
  <2> HIDE DEF Is
  <2>1. QED
    BY <1>3
<1>5. /\ kept[0] = <<>>
      /\ \A n \in 1 .. Len(list) : kept[n] = IF list[n].route_key \in gone THEN kept[n - 1]
                                             ELSE Append(kept[n - 1], list[n])
  <2> HIDE DEF kept
  <2>1. 0 \in 0 .. Len(list) /\ \A n \in 1 .. Len(list) : n \in 0 .. Len(list) /\ n # 0
    BY <1>2
  <2>2. QED
    BY <1>4, <2>1 DEF IsRetaining
<1> HIDE DEF Is, kept
<1>6. OK(0)
  BY <1>5 DEF KeysOf, InOrder
<1>7. ASSUME NEW n \in 1 .. Len(list), OK(n - 1) PROVE OK(n)
  <2>1. n \in Nat /\ n # 0 /\ n - 1 \in 0 .. Len(list) /\ list[n] \in Route
    BY <1>2
  <2>2. CASE list[n].route_key \in gone
    <3>1. kept[n] = kept[n - 1]
      BY <1>5, <2>2
    <3>2. Before(n) = Before(n - 1)
      <4>1. \A k \in 1 .. n : k \in 1 .. n - 1 \/ k = n
        OBVIOUS
      <4>2. \A k \in 1 .. n - 1 : k \in 1 .. n
        OBVIOUS
      <4>3. QED
        BY <2>2, <4>1, <4>2
    <3>3. \A k \in 1 .. n - 1 : k \in 1 .. n
      OBVIOUS
    <3> HIDE DEF Before
    <3>4. QED
      BY <1>7, <3>1, <3>2, <3>3
  <2>3. CASE list[n].route_key \notin gone
    <3> DEFINE s == kept[n - 1]
               a == kept[n]
    <3>1. a = Append(s, list[n]) /\ s \in Seq(Route)
      BY <1>5, <1>7, <2>3
    <3> HIDE DEF a, s
    <3>2. /\ a \in Seq(Route) /\ Len(a) = Len(s) + 1
          /\ \A i \in 1 .. Len(s) : a[i] = s[i]
          /\ a[Len(s) + 1] = list[n]
      BY <2>1, <3>1, AppendProperties
    <3>3. KeysOf(a) = Before(n)
      <4>1. KeysOf(a) = KeysOf(s) \cup {list[n].route_key}
        BY <2>1, <3>1, KeysOfAppend
      <4>2. Before(n) = Before(n - 1) \cup {list[n].route_key}
        <5>1. \A k : k \in 1 .. n <=> k \in 1 .. n - 1 \/ k = n
          BY <2>1
        <5>2. QED
          BY <2>3, <5>1
      <4>3. QED
        BY <1>7, <4>1, <4>2 DEF s
    <3>4. \A i \in 1 .. Len(s) : \E k \in 1 .. n - 1 : s[i] = list[k]
      BY <1>7, <3>1 DEF s
    <3>5. \A i \in DOMAIN a : \E k \in 1 .. n : a[i] = list[k]
      <4>1. \A i \in DOMAIN a : i \in 1 .. Len(s) \/ i = Len(s) + 1
        BY <3>1, <3>2
      <4>2. QED
        BY <3>2, <3>4, <4>1
    <3>6. ASSUME InOrder(list), NEW i \in DOMAIN a, NEW j \in DOMAIN a, i < j
          PROVE  /\ a[i].route_key # a[j].route_key
                 /\ a[j].rtt < DEFAULT_RTT => a[i].rtt <= a[j].rtt
      <4>1. i \in 1 .. Len(s) /\ (j \in 1 .. Len(s) \/ j = Len(s) + 1)
        BY <3>1, <3>2, <3>6
      <4>2. CASE j \in 1 .. Len(s)
        <5>1. InOrder(s) /\ i \in DOMAIN s /\ j \in DOMAIN s
          BY <1>7, <3>1, <3>6, <4>1, <4>2 DEF s
        <5>2. QED
          BY <3>2, <3>6, <4>1, <4>2, <5>1 DEF InOrder
      <4>3. CASE j = Len(s) + 1
        <5>1. PICK k \in 1 .. n - 1 : a[i] = list[k]
          BY <3>2, <3>4, <4>1
        <5>2. k \in DOMAIN list /\ n \in DOMAIN list /\ k < n /\ a[j] = list[n]
          BY <3>2, <4>3
        <5>3. QED
          BY <3>6, <5>1, <5>2 DEF InOrder
      <4>4. QED
        BY <4>1, <4>2, <4>3
    <3>7. InOrder(list) => InOrder(a)
      BY <3>6 DEF InOrder
    <3> HIDE DEF Before
    <3>8. QED
      BY <3>2, <3>3, <3>5, <3>7 DEF a
  <2>4. QED
    BY <2>2, <2>3
<1> HIDE DEF OK
<1>8. OK(Len(list))
  <2>1. SUFFICES ASSUME ~OK(Len(list)) PROVE FALSE
    OBVIOUS
  <2>2. Bad \subseteq Nat /\ Bad # {}
    BY <1>2, <2>1
  <2>3. PICK n \in Bad : \A y \in Bad : n <= y
    BY <2>2, LeastNat
  <2>4. n \in 1 .. Len(list) /\ n - 1 \in 0 .. Len(list) /\ ~(n <= n - 1)
    BY <1>2, <1>6
  <2>5. OK(n - 1)
    BY <2>3, <2>4
  <2>6. QED
    BY <1>7, <2>3, <2>4, <2>5
<1>9. Before(Len(list)) = KeysOf(list) \ gone
  BY DEF KeysOf
<1>10. QED
  BY <1>1, <1>8, <1>9 DEF OK

-----------------------------------------------------------------------------
\* A route taken out of a list.
LEMMA RemovedAt ==
    ASSUME NEW list \in Seq(Route), NEW i \in 1 .. Len(list)
    PROVE  /\ RemoveAt(list, i) \in Seq(Route)
           /\ Len(RemoveAt(list, i)) = Len(list) - 1
           /\ \A j \in 1 .. i - 1 : RemoveAt(list, i)[j] = list[j]
           /\ \A j \in i .. Len(list) - 1 : RemoveAt(list, i)[j] = list[j + 1]
<1> DEFINE n == Len(list)
           s == SubSeq(list, 1, i - 1)
           t == SubSeq(list, i + 1, n)
<1>1. n \in Nat /\ i \in Nat /\ i <= n /\ i >= 1 /\ \A j \in 1 .. n : list[j] \in Route
  OBVIOUS
<1> HIDE DEF n
<1>2. s \in Seq(Route) /\ Len(s) = i - 1 /\ \A j \in 1 .. i - 1 : s[j] = list[j]
  <2>1. \A j \in 1 .. i - 1 : list[j] \in Route
    BY <1>1
  <2>2. /\ s \in Seq(Route) /\ Len(s) = (IF 1 <= i - 1 THEN i - 1 - 1 + 1 ELSE 0)
        /\ \A j \in 1 .. i - 1 - 1 + 1 : s[j] = list[1 + j - 1]
    BY <1>1, <2>1, SubSeqProperties
  <2>3. i - 1 - 1 + 1 = i - 1 /\ \A j \in 1 .. i - 1 : 1 + j - 1 = j
    BY <1>1
  <2> HIDE DEF s
  <2>4. QED
    BY <1>1, <2>2, <2>3
<1>3. /\ t \in Seq(Route) /\ Len(t) = n - i
      /\ \A j \in 1 .. n - i : t[j] = list[i + j]
  <2>1. \A j \in i + 1 .. n : list[j] \in Route
    BY <1>1
  <2>2. /\ t \in Seq(Route) /\ Len(t) = (IF i + 1 <= n THEN n - (i + 1) + 1 ELSE 0)
        /\ \A j \in 1 .. n - (i + 1) + 1 : t[j] = list[i + 1 + j - 1]
    BY <1>1, <2>1, SubSeqProperties
  <2>3. n - (i + 1) + 1 = n - i /\ \A j \in 1 .. n - i : i + 1 + j - 1 = i + j
    BY <1>1
  <2> HIDE DEF t
  <2>4. QED
    BY <1>1, <2>2, <2>3
<1>4. RemoveAt(list, i) = s \o t
  BY DEF RemoveAt, n
<1> HIDE DEF s, t
<1>5. /\ s \o t \in Seq(Route) /\ Len(s \o t) = Len(s) + Len(t)
      /\ \A j \in 1 .. Len(s) + Len(t) :
            (s \o t)[j] = IF j <= Len(s) THEN s[j] ELSE t[j - Len(s)]
  BY <1>2, <1>3, ConcatProperties
<1>6. Len(s) + Len(t) = n - 1
  BY <1>1, <1>2, <1>3
<1>7. ASSUME NEW j \in 1 .. i - 1 PROVE (s \o t)[j] = list[j]
  <2>1. j \in 1 .. n - 1 /\ j <= Len(s)
    BY <1>1, <1>2
  <2>2. QED
    BY <1>2, <1>5, <1>6, <2>1
<1>8. ASSUME NEW j \in i .. n - 1 PROVE (s \o t)[j] = list[j + 1]
  <2>1. /\ j \in 1 .. n - 1 /\ ~(j <= Len(s)) /\ j - Len(s) \in 1 .. n - i
        /\ i + (j - Len(s)) = j + 1
    BY <1>1, <1>2
  <2>2. (s \o t)[j] = t[j - Len(s)]
    BY <1>5, <1>6, <2>1
  <2>3. QED
    BY <1>3, <2>1, <2>2
<1>9. QED
  BY <1>4, <1>5, <1>6, <1>7, <1>8 DEF n

\* A route put into a list.
LEMMA InsertedAt ==
    ASSUME NEW list \in Seq(Route), NEW p \in 1 .. Len(list) + 1, NEW e \in Route
    PROVE  /\ InsertAt(list, p, e) \in Seq(Route)
           /\ Len(InsertAt(list, p, e)) = Len(list) + 1
           /\ \A j \in 1 .. p - 1 : InsertAt(list, p, e)[j] = list[j]
           /\ InsertAt(list, p, e)[p] = e
           /\ \A j \in p + 1 .. Len(list) + 1 : InsertAt(list, p, e)[j] = list[j - 1]
<1> DEFINE n == Len(list)
           s == SubSeq(list, 1, p - 1)
           a == s \o <<e>>
           t == SubSeq(list, p, n)
<1>1. n \in Nat /\ p \in Nat /\ p <= n + 1 /\ p >= 1 /\ \A j \in 1 .. n : list[j] \in Route
  OBVIOUS
<1> HIDE DEF n
<1>2. s \in Seq(Route) /\ Len(s) = p - 1 /\ \A j \in 1 .. p - 1 : s[j] = list[j]
  <2>1. \A j \in 1 .. p - 1 : list[j] \in Route
    BY <1>1
  <2>2. /\ s \in Seq(Route) /\ Len(s) = (IF 1 <= p - 1 THEN p - 1 - 1 + 1 ELSE 0)
        /\ \A j \in 1 .. p - 1 - 1 + 1 : s[j] = list[1 + j - 1]
    BY <1>1, <2>1, SubSeqProperties
  <2>3. p - 1 - 1 + 1 = p - 1 /\ \A j \in 1 .. p - 1 : 1 + j - 1 = j
    BY <1>1
  <2> HIDE DEF s
  <2>4. QED
    BY <1>1, <2>2, <2>3
<1>3. /\ t \in Seq(Route) /\ Len(t) = n - p + 1
      /\ \A j \in 1 .. n - p + 1 : t[j] = list[p + j - 1]
  <2>1. \A j \in p .. n : list[j] \in Route
    BY <1>1
  <2>2. /\ t \in Seq(Route) /\ Len(t) = (IF p <= n THEN n - p + 1 ELSE 0)
        /\ \A j \in 1 .. n - p + 1 : t[j] = list[p + j - 1]
    BY <1>1, <2>1, SubSeqProperties
  <2> HIDE DEF t
  <2>3. QED
    BY <1>1, <2>2
<1>4. InsertAt(list, p, e) = a \o t
  BY DEF InsertAt, n
<1> HIDE DEF s, t
<1>5. /\ a \in Seq(Route) /\ Len(a) = p /\ a[p] = e
      /\ \A j \in 1 .. p - 1 : a[j] = list[j]
  <2>1. a = Append(s, e)
    BY <1>2, AppendIsConcat
  <2>2. /\ Append(s, e) \in Seq(Route) /\ Len(Append(s, e)) = Len(s) + 1
        /\ \A j \in 1 .. Len(s) : Append(s, e)[j] = s[j]
        /\ Append(s, e)[Len(s) + 1] = e
    BY <1>2, AppendProperties
  <2> HIDE DEF a
  <2>3. QED
    BY <1>1, <1>2, <2>1, <2>2
<1> HIDE DEF a
<1>6. /\ a \o t \in Seq(Route) /\ Len(a \o t) = Len(a) + Len(t)
      /\ \A j \in 1 .. Len(a) + Len(t) :
            (a \o t)[j] = IF j <= Len(a) THEN a[j] ELSE t[j - Len(a)]
  BY <1>3, <1>5, ConcatProperties
<1>7. Len(a) + Len(t) = n + 1
  BY <1>1, <1>3, <1>5
<1>8. ASSUME NEW j \in 1 .. p PROVE (a \o t)[j] = a[j]
  <2>1. j \in 1 .. n + 1 /\ j <= Len(a)
    BY <1>1, <1>5
  <2>2. QED
    BY <1>6, <1>7, <2>1
<1>9. ASSUME NEW j \in p + 1 .. n + 1 PROVE (a \o t)[j] = list[j - 1]
  <2>1. /\ j \in 1 .. n + 1 /\ ~(j <= Len(a)) /\ j - Len(a) \in 1 .. n - p + 1
        /\ p + (j - Len(a)) - 1 = j - 1
    BY <1>1, <1>5
  <2>2. (a \o t)[j] = t[j - Len(a)]
    BY <1>6, <1>7, <2>1
  <2>3. QED
    BY <1>3, <2>1, <2>2
<1>10. p \in 1 .. p /\ \A j \in 1 .. p - 1 : j \in 1 .. p
  BY <1>1
<1>11. QED
  BY <1>4, <1>5, <1>6, <1>7, <1>8, <1>9, <1>10 DEF n

\* A new route put between those that are as fast and those that are slower.
LEMMA InsertedInOrder ==
    ASSUME NEW list \in Seq(Route), InOrder(list), NEW e \in Route,
           e.route_key \notin KeysOf(list), NEW p \in 1 .. Len(list) + 1,
           e.rtt < DEFAULT_RTT => \A j \in 1 .. p - 1 : list[j].rtt <= e.rtt,
           \A j \in p .. Len(list) : list[j].rtt < DEFAULT_RTT => e.rtt <= list[j].rtt
    PROVE  /\ InsertAt(list, p, e) \in Seq(Route)
           /\ InOrder(InsertAt(list, p, e))
           /\ KeysOf(InsertAt(list, p, e)) = KeysOf(list) \cup {e.route_key}
<1> DEFINE n == Len(list)
           a == InsertAt(list, p, e)
<1>1. n \in Nat /\ p \in Nat /\ p <= n + 1 /\ p >= 1 /\ DOMAIN list = 1 .. n
  OBVIOUS
<1>0. /\ a \in Seq(Route) /\ Len(a) = n + 1
      /\ \A j \in 1 .. p - 1 : a[j] = list[j]
      /\ a[p] = e
      /\ \A j \in p + 1 .. n + 1 : a[j] = list[j - 1]
  <2>1. p \in 1 .. Len(list) + 1
    OBVIOUS
  <2>2. a \in Seq(Route) /\ Len(a) = n + 1
    BY <2>1, InsertedAt
  <2>3. \A j \in 1 .. p - 1 : a[j] = list[j]
    BY <2>1, InsertedAt
  <2>4. a[p] = e
    BY <2>1, InsertedAt
  <2>5. \A j \in p + 1 .. n + 1 : a[j] = list[j - 1]
    BY <2>1, InsertedAt
  <2>6. QED
    BY <2>2, <2>3, <2>4, <2>5
<1> HIDE DEF a, n
<1>2. /\ a \in Seq(Route) /\ Len(a) = n + 1 /\ DOMAIN a = 1 .. n + 1
      /\ \A j \in 1 .. p - 1 : a[j] = list[j]
      /\ a[p] = e
      /\ \A j \in p + 1 .. n + 1 : a[j] = list[j - 1]
  <2>1. a \in Seq(Route) /\ Len(a) = n + 1
    BY <1>0
  <2>2. DOMAIN a = 1 .. n + 1
    BY <2>1
  <2>3. QED
    BY <1>0, <2>2, Zenon
<1>3. \A j \in 1 .. n : list[j].route_key \in KeysOf(list)
  BY <1>1 DEF KeysOf
<1>4. KeysOf(a) = KeysOf(list) \cup {e.route_key}
  <2>1. ASSUME NEW j \in 1 .. n + 1
        PROVE  a[j].route_key \in KeysOf(list) \cup {e.route_key}
    <3>1. \/ j \in 1 .. p - 1 /\ j \in 1 .. n
          \/ j = p
          \/ j \in p + 1 .. n + 1 /\ j - 1 \in 1 .. n
      BY <1>1
    <3>2. QED
      BY <1>2, <1>3, <3>1
  <2>2. ASSUME NEW j \in 1 .. n
        PROVE  \E k \in 1 .. n + 1 : a[k] = list[j]
    <3>1. CASE j \in 1 .. p - 1
      <4>1. j \in 1 .. n + 1
        BY <1>1
      <4>2. QED
        BY <1>2, <3>1, <4>1
    <3>2. CASE j \notin 1 .. p - 1
      <4>1. j + 1 \in p + 1 .. n + 1 /\ j + 1 \in 1 .. n + 1 /\ j + 1 - 1 = j
        BY <1>1, <3>2
      <4>2. QED
        BY <1>2, <4>1
    <3>3. QED
      BY <3>1, <3>2
  <2>3. p \in 1 .. n + 1
    BY <1>1
  <2>4. KeysOf(a) = {a[j].route_key : j \in 1 .. n + 1}
    BY <1>2 DEF KeysOf
  <2>5. KeysOf(list) = {list[j].route_key : j \in 1 .. n}
    BY <1>1 DEF KeysOf
  <2>6. KeysOf(list) \subseteq KeysOf(a)
    BY <2>2, <2>4, <2>5
  <2>7. QED
    BY <1>2, <2>1, <2>3, <2>4, <2>6
<1>5. ASSUME NEW i \in 1 .. n + 1, NEW j \in 1 .. n + 1, i < j
      PROVE  /\ a[i].route_key # a[j].route_key
             /\ a[j].rtt < DEFAULT_RTT => a[i].rtt <= a[j].rtt
  <2>1. CASE i \in 1 .. p - 1 /\ j \in 1 .. p - 1
    <3>1. i \in DOMAIN list /\ j \in DOMAIN list
      BY <1>1, <2>1
    <3>2. QED
      BY <1>2, <1>5, <2>1, <3>1 DEF InOrder
  <2>2. CASE i \in 1 .. p - 1 /\ j = p
    <3>1. i \in 1 .. n
      BY <1>1, <2>2
    <3>2. QED
      BY <1>2, <1>3, <2>2, <3>1
  <2>3. CASE i \in 1 .. p - 1 /\ j \in p + 1 .. n + 1
    <3>1. i \in DOMAIN list /\ j - 1 \in DOMAIN list /\ i < j - 1
      BY <1>1, <2>3
    <3>2. a[i] = list[i] /\ a[j] = list[j - 1]
      BY <1>2, <2>3
    <3>3. QED
      BY <3>1, <3>2 DEF InOrder
  <2>4. CASE i = p /\ j \in p + 1 .. n + 1
    <3>1. j - 1 \in 1 .. n /\ j - 1 \in p .. n
      BY <1>1, <2>4
    <3>2. a[j] = list[j - 1] /\ a[i] = e
      BY <1>2, <2>4
    <3>3. QED
      BY <1>3, <3>1, <3>2 DEF n
  <2>5. CASE i \in p + 1 .. n + 1 /\ j \in p + 1 .. n + 1
    <3>1. i - 1 \in DOMAIN list /\ j - 1 \in DOMAIN list /\ i - 1 < j - 1
      BY <1>1, <1>5, <2>5
    <3>2. a[i] = list[i - 1] /\ a[j] = list[j - 1]
      BY <1>2, <2>5
    <3>3. QED
      BY <3>1, <3>2 DEF InOrder
  <2>6. QED
    BY <1>1, <1>5, <2>1, <2>2, <2>3, <2>4, <2>5
<1>6. InOrder(a)
  BY <1>2, <1>5 DEF InOrder
<1>7. QED
  BY <1>2, <1>4, <1>6 DEF a

\* What is left when a route is taken out.
LEMMA RemovedInOrder ==
    ASSUME NEW list \in Seq(Route), InOrder(list), NEW i \in 1 .. Len(list)
    PROVE  /\ InOrder(RemoveAt(list, i))
           /\ KeysOf(RemoveAt(list, i)) = KeysOf(list) \ {list[i].route_key}
<1> DEFINE n == Len(list)
           r == RemoveAt(list, i)
<1>1. n \in Nat /\ i \in Nat /\ i <= n /\ i >= 1 /\ DOMAIN list = 1 .. n
  OBVIOUS
<1>2. /\ r \in Seq(Route) /\ Len(r) = n - 1 /\ DOMAIN r = 1 .. n - 1
      /\ \A j \in 1 .. i - 1 : r[j] = list[j]
      /\ \A j \in i .. n - 1 : r[j] = list[j + 1]
  <2>1. r \in Seq(Route) /\ Len(r) = n - 1
    BY RemovedAt
  <2>2. \A j \in 1 .. i - 1 : r[j] = list[j]
    BY RemovedAt
  <2>3. \A j \in i .. n - 1 : r[j] = list[j + 1]
    BY RemovedAt
  <2> HIDE DEF r, n
  <2>4. DOMAIN r = 1 .. n - 1
    BY <2>1
  <2>5. QED
    BY <2>1, <2>2, <2>3, <2>4, Zenon
<1> HIDE DEF r, n
<1> DEFINE from(j) == IF j < i THEN j ELSE j + 1
<1>3. ASSUME NEW j \in 1 .. n - 1
      PROVE  from(j) \in 1 .. n /\ from(j) # i /\ r[j] = list[from(j)]
  <2>1. CASE j < i
    <3>1. j \in 1 .. i - 1 /\ j \in 1 .. n
      BY <1>1, <2>1
    <3>2. QED
      BY <1>2, <2>1, <3>1
  <2>2. CASE ~(j < i)
    <3>1. j \in i .. n - 1 /\ j + 1 \in 1 .. n /\ j + 1 # i
      BY <1>1, <2>2
    <3>2. QED
      BY <1>2, <2>2, <3>1
  <2>3. QED
    BY <2>1, <2>2
<1>4. \A j, k \in 1 .. n - 1 : j < k => from(j) < from(k)
  BY <1>1
<1>5. ASSUME NEW k \in 1 .. n, k # i PROVE \E j \in 1 .. n - 1 : from(j) = k
  <2>1. CASE k < i
    <3>1. k \in 1 .. n - 1 /\ from(k) = k
      BY <1>1, <2>1
    <3>2. QED
      BY <3>1
  <2>2. CASE ~(k < i)
    <3>1. k - 1 \in 1 .. n - 1 /\ from(k - 1) = k
      BY <1>1, <1>5, <2>2
    <3>2. QED
      BY <3>1
  <2>3. QED
    BY <2>1, <2>2
<1> HIDE DEF from
<1>6. \A j, k \in 1 .. n : j # k => list[j].route_key # list[k].route_key
  BY <1>1 DEF InOrder
<1>7. InOrder(r)
  <2>1. SUFFICES ASSUME NEW j \in 1 .. n - 1, NEW k \in 1 .. n - 1, j < k
                 PROVE  /\ r[j].route_key # r[k].route_key
                        /\ r[k].rtt < DEFAULT_RTT => r[j].rtt <= r[k].rtt
    BY <1>2 DEF InOrder
  <2>2. from(j) \in DOMAIN list /\ from(k) \in DOMAIN list /\ from(j) < from(k)
    BY <1>1, <1>3, <1>4, <2>1
  <2>3. QED
    BY <1>3, <2>2 DEF InOrder
<1>8. KeysOf(r) = KeysOf(list) \ {list[i].route_key}
  <2>1. KeysOf(r) = {r[j].route_key : j \in 1 .. n - 1}
    BY <1>2 DEF KeysOf
  <2>2. KeysOf(list) = {list[k].route_key : k \in 1 .. n}
    BY <1>1 DEF KeysOf
  <2>3. i \in 1 .. n
    BY <1>1
  <2>4. ASSUME NEW j \in 1 .. n - 1
        PROVE  r[j].route_key \in KeysOf(list) \ {list[i].route_key}
    BY <1>3, <1>6, <2>2, <2>3
  <2>5. ASSUME NEW k \in 1 .. n, list[k].route_key # list[i].route_key
        PROVE  list[k].route_key \in KeysOf(r)
    <3>1. PICK j \in 1 .. n - 1 : from(j) = k
      BY <1>5, <2>5
    <3>2. r[j] = list[k]
      BY <1>3, <3>1
    <3>3. QED
      BY <2>1, <3>2
  <2>6. QED
    BY <2>1, <2>2, <2>4, <2>5
<1>9. QED
  BY <1>7, <1>8 DEF r

\* A route in order behind a fast one is not slower than it, and its round trip
\* time is a number.
LEMMA SortedFront ==
    ASSUME NEW list \in Seq(Route), InOrder(list)
    PROVE  /\ \A j \in 1 .. Len(list) : list[j].rtt \in Nat
           /\ DEFAULT_RTT \in Nat
           /\ \A j, k \in 1 .. Len(list) :
                 j <= k /\ list[k].rtt < DEFAULT_RTT => list[j].rtt <= list[k].rtt
<1>1. \A j \in 1 .. Len(list) : list[j] \in Route
  OBVIOUS
<1>2. \A j \in 1 .. Len(list) : list[j].rtt \in Nat
  BY <1>1, RouteAssumption DEF Route
<1>3. DOMAIN list = 1 .. Len(list) /\ Len(list) \in Nat
  OBVIOUS
<1>4. ASSUME NEW j \in 1 .. Len(list), NEW k \in 1 .. Len(list),
             j <= k, list[k].rtt < DEFAULT_RTT
      PROVE  list[j].rtt <= list[k].rtt
  <2>1. j < k \/ j = k
    BY <1>4
  <2>2. QED
    BY <1>2, <1>3, <1>4, <2>1 DEF InOrder
<1>5. QED
  BY <1>2, <1>4, RouteAssumption

\* Where add_route puts a route it does not have yet.
LEMMA InsertedHere ==
    ASSUME NEW list \in Seq(Route), InOrder(list), NEW rtt \in Nat
    PROVE  /\ Inserted(list, rtt) \in 1 .. Len(list) + 1
           /\ \A j \in 1 .. Inserted(list, rtt) - 1 : list[j].rtt <= rtt
           /\ \A j \in Inserted(list, rtt) .. Len(list) :
                 list[j].rtt < DEFAULT_RTT => rtt <= list[j].rtt
<1> DEFINE n == Len(list)
           S == {j \in DOMAIN list : rtt < list[j].rtt} \cup {n + 1}
           p == Inserted(list, rtt)
<1>1. n \in Nat /\ DOMAIN list = 1 .. n
  OBVIOUS
<1>2. S \subseteq 1 .. n + 1 /\ S \subseteq Nat /\ S # {}
  BY <1>1
<1>3. p = Min(S)
  BY DEF Inserted
<1>4. p \in S /\ \A y \in S : p <= y
  <2> HIDE DEF S, p
  <2>1. QED
    BY <1>2, <1>3, MinOfNats
<1> HIDE DEF p, n
<1>5. p \in 1 .. n + 1
  BY <1>2, <1>4
<1>6. ASSUME NEW j \in 1 .. p - 1 PROVE list[j].rtt <= rtt
  <2>1. j \in 1 .. n /\ j < p
    BY <1>1, <1>5
  <2>2. list[j].rtt \in Nat
    BY <2>1, SortedFront DEF n
  <2>3. QED
    BY <1>1, <1>4, <2>1, <2>2
<1>7. ASSUME NEW j \in p .. n, list[j].rtt < DEFAULT_RTT PROVE rtt <= list[j].rtt
  <2>1. p \in 1 .. n /\ j \in 1 .. n /\ p <= j
    BY <1>1, <1>5, <1>7
  <2>2. rtt < list[p].rtt
    BY <1>1, <1>4, <2>1
  <2>3. list[p].rtt <= list[j].rtt /\ list[p].rtt \in Nat /\ list[j].rtt \in Nat
    BY <1>7, <2>1, SortedFront DEF n
  <2>4. QED
    BY <2>2, <2>3
<1>8. QED
  BY <1>5, <1>6, <1>7 DEF p, n

\* Where add_route moves a route it has: among the others, those before are
\* not slower if it is fast, and the fast ones behind it are not faster.
LEMMA BubbledHere ==
    ASSUME NEW list \in Seq(Route), InOrder(list), NEW rtt \in Nat,
           NEW i \in 1 .. Len(list)
    PROVE  LET p == Bubbled(list, i, rtt)
               r == RemoveAt(list, i)
           IN /\ p \in 1 .. Len(list)
              /\ rtt < DEFAULT_RTT => \A j \in 1 .. p - 1 : r[j].rtt <= rtt
              /\ \A j \in p .. Len(list) - 1 : r[j].rtt < DEFAULT_RTT => rtt <= r[j].rtt
<1> DEFINE n == Len(list)
           r == RemoveAt(list, i)
           F == {j \in 1 .. i - 1 : list[j].rtt <= rtt} \cup {0}
           B == {j \in i + 1 .. n : list[j].rtt >= rtt} \cup {n + 1}
           front == Max(F) + 1
           back == Min(B) - 1
           p == Bubbled(list, i, rtt)
<1>1. n \in Nat /\ DOMAIN list = 1 .. n /\ i \in 1 .. n /\ i \in Nat
  OBVIOUS
<1>2. /\ \A j \in 1 .. i - 1 : r[j] = list[j]
      /\ \A j \in i .. n - 1 : r[j] = list[j + 1]
  BY RemovedAt
<1>3. /\ \A j \in 1 .. n : list[j].rtt \in Nat
      /\ DEFAULT_RTT \in Nat
      /\ \A j, k \in 1 .. n :
            j <= k /\ list[k].rtt < DEFAULT_RTT => list[j].rtt <= list[k].rtt
  BY SortedFront
<1>4. p = IF front < i THEN front ELSE back
  BY DEF Bubbled
<1>5. F \subseteq 0 .. i - 1 /\ F # {} /\ i - 1 \in Nat
  BY <1>1
<1>6. B \subseteq i + 1 .. n + 1 /\ B \subseteq Nat /\ B # {}
  BY <1>1
<1>7. Max(F) \in F /\ \A y \in F : Max(F) >= y
  <2> HIDE DEF F
  <2>1. QED
    BY <1>5, MaxOfNats
<1>8. Min(B) \in B /\ \A y \in B : Min(B) <= y
  <2> HIDE DEF B
  <2>1. QED
    BY <1>6, MinOfNats
<1> DEFINE f == Max(F)
           b == Min(B)
<1>9. /\ f \in 0 .. i - 1 /\ front = f + 1
      /\ f # 0 => list[f].rtt <= rtt
      /\ \A j \in f + 1 .. i - 1 : ~(list[j].rtt <= rtt)
  <2>1. f \in 0 .. i - 1 /\ (f # 0 => list[f].rtt <= rtt)
    BY <1>5, <1>7
  <2>2. ASSUME NEW j \in f + 1 .. i - 1, list[j].rtt <= rtt PROVE FALSE
    <3>1. j \in 1 .. i - 1 /\ ~(f >= j)
      BY <1>1, <2>1
    <3>2. QED
      BY <1>7, <2>2, <3>1
  <2>3. QED
    BY <2>1, <2>2
<1>10. /\ b \in i + 1 .. n + 1 /\ back = b - 1
       /\ b # n + 1 => list[b].rtt >= rtt
       /\ \A j \in i + 1 .. b - 1 : ~(list[j].rtt >= rtt)
  <2>1. b \in i + 1 .. n + 1 /\ (b # n + 1 => list[b].rtt >= rtt)
    BY <1>6, <1>8
  <2>2. ASSUME NEW j \in i + 1 .. b - 1, list[j].rtt >= rtt PROVE FALSE
    <3>1. j \in i + 1 .. n /\ ~(b <= j)
      BY <1>1, <2>1
    <3>2. QED
      BY <1>8, <2>2, <3>1
  <2>3. QED
    BY <2>1, <2>2
<1> HIDE DEF F, B, f, b, front, back, p, r, n
<1>11. CASE front < i
  <2>1. p = f + 1 /\ p \in 1 .. n /\ p <= i - 1
    BY <1>1, <1>4, <1>9, <1>11
  <2>2. ASSUME rtt < DEFAULT_RTT, NEW j \in 1 .. p - 1 PROVE r[j].rtt <= rtt
    <3>1. f # 0 /\ f \in 1 .. n /\ j \in 1 .. n /\ j <= f /\ j \in 1 .. i - 1
      BY <1>1, <1>9, <2>1
    <3>2. list[f].rtt <= rtt /\ list[f].rtt \in Nat /\ list[j].rtt \in Nat
      BY <1>3, <1>9, <3>1
    <3>3. list[f].rtt < DEFAULT_RTT
      BY <1>3, <2>2, <3>2
    <3>4. list[j].rtt <= list[f].rtt
      BY <1>3, <3>1, <3>3
    <3>5. QED
      BY <1>2, <3>1, <3>2, <3>4
  <2>3. ASSUME NEW j \in p .. n - 1, r[j].rtt < DEFAULT_RTT PROVE rtt <= r[j].rtt
    <3>1. p \in f + 1 .. i - 1 /\ p \in 1 .. n /\ list[p].rtt \in Nat
      BY <1>1, <1>3, <1>9, <2>1
    <3>2. rtt < list[p].rtt
      BY <1>9, <1>3, <3>1
    <3>3. PICK k \in 1 .. n : p <= k /\ r[j] = list[k]
      <4>1. CASE j \in 1 .. i - 1
        BY <1>1, <1>2, <2>1, <4>1
      <4>2. CASE j \notin 1 .. i - 1
        <5>1. j \in i .. n - 1 /\ j + 1 \in 1 .. n /\ p <= j + 1
          BY <1>1, <2>1, <4>2
        <5>2. QED
          BY <1>2, <5>1
      <4>3. QED
        BY <4>1, <4>2
    <3>4. list[p].rtt <= list[k].rtt /\ list[k].rtt \in Nat
      BY <1>3, <2>3, <3>1, <3>3
    <3>5. QED
      BY <3>1, <3>2, <3>3, <3>4
  <2>4. QED
    BY <2>1, <2>2, <2>3 DEF p, r, n
<1>12. CASE ~(front < i)
  <2>1. p = b - 1 /\ p \in 1 .. n /\ i <= p /\ f = i - 1
    BY <1>1, <1>4, <1>9, <1>10, <1>12
  <2>2. ASSUME rtt < DEFAULT_RTT, NEW j \in 1 .. p - 1 PROVE r[j].rtt <= rtt
    <3>1. CASE j \in 1 .. i - 1
      <4>1. f # 0 /\ f \in 1 .. n /\ j \in 1 .. n /\ j <= f
        BY <1>1, <2>1, <3>1
      <4>2. list[f].rtt <= rtt /\ list[f].rtt \in Nat /\ list[j].rtt \in Nat
        BY <1>3, <1>9, <4>1
      <4>3. list[f].rtt < DEFAULT_RTT
        BY <1>3, <2>2, <4>2
      <4>4. list[j].rtt <= list[f].rtt
        BY <1>3, <4>1, <4>3
      <4>5. QED
        BY <1>2, <3>1, <4>2, <4>4
    <3>2. CASE j \notin 1 .. i - 1
      <4>1. j \in i .. n - 1 /\ j + 1 \in i + 1 .. b - 1 /\ j + 1 \in 1 .. n
        BY <1>1, <1>10, <2>1, <3>2
      <4>2. ~(list[j + 1].rtt >= rtt) /\ list[j + 1].rtt \in Nat
        BY <1>3, <1>10, <4>1
      <4>3. QED
        BY <1>2, <4>1, <4>2
    <3>3. QED
      BY <3>1, <3>2
  <2>3. ASSUME NEW j \in p .. n - 1, r[j].rtt < DEFAULT_RTT PROVE rtt <= r[j].rtt
    <3>1. j \in i .. n - 1 /\ j + 1 \in 1 .. n /\ b \in 1 .. n /\ b # n + 1 /\ b <= j + 1
      BY <1>1, <1>10, <2>1
    <3>2. r[j] = list[j + 1] /\ list[b].rtt >= rtt
      BY <1>2, <1>10, <3>1
    <3>3. /\ list[b].rtt <= list[j + 1].rtt
          /\ list[b].rtt \in Nat /\ list[j + 1].rtt \in Nat
      BY <1>3, <2>3, <3>1, <3>2
    <3>4. QED
      BY <3>2, <3>3
  <2>4. QED
    BY <2>1, <2>2, <2>3 DEF p, r, n
<1>13. QED
  BY <1>11, <1>12

\* The list that add_route leaves is in order, whatever the round trip time
\* was and is.
LEMMA PlacedInOrder ==
    ASSUME NEW list \in Seq(Route), InOrder(list), NEW e \in Route
    PROVE  /\ Placed(list, e) \in Seq(Route)
           /\ InOrder(Placed(list, e))
           /\ KeysOf(Placed(list, e)) = KeysOf(list) \cup {e.route_key}
<1>1. e.rtt \in Nat
  BY RouteAssumption DEF Route
<1>2. CASE e.route_key \in KeysOf(list)
  <2> DEFINE i == CHOOSE j \in DOMAIN list : list[j].route_key = e.route_key
             r == RemoveAt(list, i)
             p == Bubbled(list, i, e.rtt)
  <2>1. i \in 1 .. Len(list) /\ list[i].route_key = e.route_key
    <3>1. \E j \in DOMAIN list : list[j].route_key = e.route_key
      BY <1>2 DEF KeysOf
    <3>2. DOMAIN list = 1 .. Len(list)
      OBVIOUS
    <3>3. QED
      BY <3>1, <3>2
  <2>2. Placed(list, e) = InsertAt(r, p, e)
    BY <1>2 DEF Placed
  <2> HIDE DEF i
  <2>3. /\ r \in Seq(Route) /\ Len(r) = Len(list) - 1 /\ InOrder(r)
        /\ KeysOf(r) = KeysOf(list) \ {e.route_key}
    BY <2>1, RemovedAt, RemovedInOrder
  <2>4. /\ p \in 1 .. Len(list)
        /\ e.rtt < DEFAULT_RTT => \A j \in 1 .. p - 1 : r[j].rtt <= e.rtt
        /\ \A j \in p .. Len(list) - 1 : r[j].rtt < DEFAULT_RTT => e.rtt <= r[j].rtt
    BY <1>1, <2>1, BubbledHere
  <2>5. Len(list) - 1 + 1 = Len(list)
    OBVIOUS
  <2> HIDE DEF r, p
  <2>6. p \in 1 .. Len(r) + 1 /\ e.route_key \notin KeysOf(r)
    BY <2>3, <2>4, <2>5
  <2>7. /\ InsertAt(r, p, e) \in Seq(Route) /\ InOrder(InsertAt(r, p, e))
        /\ KeysOf(InsertAt(r, p, e)) = KeysOf(r) \cup {e.route_key}
    BY <2>3, <2>4, <2>6, InsertedInOrder
  <2>8. QED
    BY <1>2, <2>2, <2>3, <2>7
<1>3. CASE e.route_key \notin KeysOf(list)
  <2> DEFINE p == Inserted(list, e.rtt)
  <2>1. Placed(list, e) = InsertAt(list, p, e)
    BY <1>3 DEF Placed
  <2>2. /\ p \in 1 .. Len(list) + 1
        /\ \A j \in 1 .. p - 1 : list[j].rtt <= e.rtt
        /\ \A j \in p .. Len(list) : list[j].rtt < DEFAULT_RTT => e.rtt <= list[j].rtt
    BY <1>1, InsertedHere
  <2> HIDE DEF p
  <2>3. QED
    BY <1>3, <2>1, <2>2, InsertedInOrder
<1>4. QED
  BY <1>2, <1>3

\* add_owner_route appends a route that has not been measured.
LEMMA AppendedInOrder ==
    ASSUME NEW list \in Seq(Route), InOrder(list), NEW e \in Route,
           e.route_key \notin KeysOf(list), e.rtt = DEFAULT_RTT
    PROVE  Append(list, e) \in Seq(Route) /\ InOrder(Append(list, e))
<1> DEFINE n == Len(list)
           a == Append(list, e)
<1>1. n \in Nat /\ DOMAIN list = 1 .. n
  OBVIOUS
<1>2. /\ a \in Seq(Route) /\ Len(a) = n + 1 /\ a[n + 1] = e
      /\ \A i \in 1 .. n : a[i] = list[i]
  BY AppendProperties
<1> HIDE DEF a, n
<1>3. DOMAIN a = 1 .. n + 1
  BY <1>2
<1>4. ASSUME NEW i \in 1 .. n + 1, NEW j \in 1 .. n + 1, i < j
      PROVE  /\ a[i].route_key # a[j].route_key
             /\ a[j].rtt < DEFAULT_RTT => a[i].rtt <= a[j].rtt
  <2>1. i \in 1 .. n
    BY <1>1, <1>4
  <2>2. CASE j \in 1 .. n
    BY <1>1, <1>2, <1>4, <2>1, <2>2 DEF InOrder
  <2>3. CASE j = n + 1
    <3>1. a[i].route_key \in KeysOf(list)
      BY <1>1, <1>2, <2>1 DEF KeysOf
    <3>2. a[j] = e /\ ~(e.rtt < DEFAULT_RTT)
      BY <1>2, <2>3, RouteAssumption
    <3>3. QED
      BY <3>1, <3>2
  <2>4. QED
    BY <1>1, <1>4, <2>2, <2>3
<1>5. QED
  BY <1>2, <1>3, <1>4 DEF InOrder, a

-----------------------------------------------------------------------------
\* The keys of a list are keys.
LEMMA KeysAreKeys ==
    ASSUME NEW list \in Seq(Route) PROVE KeysOf(list) \subseteq Keys
<1>1. \A i \in DOMAIN list : list[i] \in Route
  OBVIOUS
<1>2. \A e \in Route : e.route_key \in Keys
  BY DEF Route
<1>3. QED
  BY <1>1, <1>2 DEF KeysOf

LEMMA InitTable == TableInit => TableIInv
<1>1. SUFFICES ASSUME TableInit PROVE TableIInv
  OBVIOUS
<1>2. TableTypeOK /\ TasksKnow
  BY <1>1 DEF TableInit, TableTypeOK, TasksKnow, Inbound, Idle
<1>3. \A id \in Ids : route_table[id] = <<>>
  BY <1>1 DEF TableInit
<1>4. RouteIsTimed /\ \A id \in Ids : InOrder(route_table[id])
  BY <1>3 DEF RouteIsTimed, InOrder, KeysOf
<1>5. OwnerHasRoute
  BY <1>1 DEF TableInit, OwnerHasRoute
<1>6. QED
  BY <1>2, <1>4, <1>5 DEF TableIInv

\* A route of id over key is added and gets a time, other lists are as before:
\* the invariant holds again, when the new owners have a route.
LEMMA RouteIsAdded ==
    ASSUME TableIInv, NEW id \in Ids, NEW key \in Keys, NEW list \in Seq(Route),
           InOrder(list), KeysOf(list) = KeysOf(route_table[id]) \cup {key},
           route_table' = [route_table EXCEPT ![id] = list],
           route_key_time' = Touched(id, key),
           \/ route_key_owner' = route_key_owner
           \/ route_key_owner' = [route_key_owner EXCEPT ![key] = id],
           inbound' \in [Keys -> Inbound], TasksKnow', expired' = expired
    PROVE  TableIInv'
<1>1. TableTypeOK'
  BY DEF TableIInv, TableTypeOK, Touched
<1>2. /\ KeysOf(route_table'[id]) = KeysOf(route_table[id]) \cup {key}
      /\ \A i \in Ids \ {id} : route_table'[i] = route_table[i]
      /\ route_table'[id] = list
  BY DEF TableIInv, TableTypeOK
<1>3. RouteIsTimed'
  <2>1. SUFFICES ASSUME NEW i \in Ids, NEW k \in KeysOf(route_table'[i])
                 PROVE  route_key_time'[i][k] # None \/ <<i, k>> \in expired
    BY DEF RouteIsTimed
  <2>2. CASE i = id /\ k = key
    BY <2>2, RouteAssumption DEF TableIInv, TableTypeOK, Touched
  <2>3. CASE ~(i = id /\ k = key)
    <3>1. k \in KeysOf(route_table[i])
      BY <1>2, <2>1, <2>3
    <3>2. route_key_time'[i][k] = route_key_time[i][k]
      BY <2>3 DEF TableIInv, TableTypeOK, Touched
    <3>3. QED
      BY <3>1, <3>2 DEF TableIInv, RouteIsTimed
  <2>4. QED
    BY <2>2, <2>3
<1>4. OwnerHasRoute'
  <2>1. SUFFICES ASSUME NEW k \in Keys, route_key_owner'[k] # None
                 PROVE  k \in KeysOf(route_table'[route_key_owner'[k]])
    BY DEF OwnerHasRoute, HasRoute
  <2>2. CASE k = key /\ route_key_owner'[k] = id
    BY <1>2, <2>2
  <2>3. CASE route_key_owner'[k] = route_key_owner[k]
    <3>1. route_key_owner[k] \in Ids /\ k \in KeysOf(route_table[route_key_owner[k]])
      BY <2>1, <2>3 DEF TableIInv, TableTypeOK, OwnerHasRoute, HasRoute
    <3>2. QED
      BY <1>2, <2>3, <3>1
  <2>4. \/ k = key /\ route_key_owner'[k] = id
        \/ route_key_owner'[k] = route_key_owner[k]
    BY DEF TableIInv, TableTypeOK
  <2>5. QED
    BY <2>2, <2>3, <2>4
<1>5. \A i \in Ids : InOrder(route_table'[i])
  BY <1>2 DEF TableIInv
<1>6. QED
  BY <1>1, <1>3, <1>4, <1>5 DEF TableIInv

\* A link is of a client and a key.
LEMMA LinkOK ==
    ASSUME NEW link \in Links
    PROVE  link[1] \in Ids /\ link[2] \in Keys
BY RouteAssumption

\* A punch or its answer arrives.
LEMMA StepPunched ==
    ASSUME TableIInv, NEW id \in Ids, NEW key \in Keys, Punched(id, key)
    PROVE  TableIInv'
<1> DEFINE route1 == [route_key |-> key, metric |-> 1, rtt |-> DEFAULT_RTT]
           list == IF HasRoute(id, key) THEN route_table[id]
                   ELSE Append(route_table[id], route1)
<1>1. route1 \in Route /\ route1.route_key = key /\ route1.rtt = DEFAULT_RTT
  BY DEF Route
<1>2. route_table[id] \in Seq(Route) /\ InOrder(route_table[id])
  BY DEF TableIInv, TableTypeOK
<1>3. route_table' = [route_table EXCEPT ![id] = list]
  BY DEF Punched, add_owner_route
<1> HIDE DEF route1
<1>4. /\ list \in Seq(Route) /\ InOrder(list)
      /\ KeysOf(list) = KeysOf(route_table[id]) \cup {key}
  <2>1. CASE HasRoute(id, key)
    BY <1>2, <2>1 DEF HasRoute
  <2>2. CASE ~HasRoute(id, key)
    BY <1>1, <1>2, <2>2, AppendedInOrder, KeysOfAppend DEF HasRoute
  <2>3. QED
    BY <2>1, <2>2
<1> HIDE DEF list
<1>5. inbound' \in [Keys -> Inbound] /\ TasksKnow'
  BY DEF TableIInv, TableTypeOK, TasksKnow, Punched
<1>6. QED
  BY <1>3, <1>4, <1>5, RouteIsAdded DEF Punched, add_owner_route

\* add_route either takes the route or does nothing.
LEMMA StepAddRoute ==
    ASSUME TableIInv, NEW id \in Ids, NEW e \in Route, add_route(id, e),
           inbound' \in [Keys -> Inbound], TasksKnow', expired' = expired
    PROVE  TableIInv'
<1>1. route_table[id] \in Seq(Route) /\ InOrder(route_table[id])
  BY DEF TableIInv, TableTypeOK
<1>2. e.route_key \in Keys
  BY DEF Route
<1>3. CASE is_direct(e) \/ route_table[id] # <<>>
  <2> DEFINE list == Placed(route_table[id], e)
  <2>1. /\ list \in Seq(Route) /\ InOrder(list)
        /\ KeysOf(list) = KeysOf(route_table[id]) \cup {e.route_key}
    BY <1>1, PlacedInOrder
  <2>2. /\ route_table' = [route_table EXCEPT ![id] = list]
        /\ route_key_time' = Touched(id, e.route_key)
        /\ \/ route_key_owner' = route_key_owner
           \/ route_key_owner' = [route_key_owner EXCEPT ![e.route_key] = id]
    BY <1>3 DEF add_route
  <2> HIDE DEF list
  <2>3. QED
    BY <1>2, <2>1, <2>2, RouteIsAdded
<1>4. CASE ~(is_direct(e) \/ route_table[id] # <<>>)
  <2>1. UNCHANGED <<route_table, route_key_time, route_key_owner>>
    BY <1>4 DEF add_route
  <2>2. QED
    BY <2>1 DEF TableIInv, TableTypeOK, RouteIsTimed, OwnerHasRoute, HasRoute
<1>5. QED
  BY <1>3, <1>4

\* A heartbeat that finds no route, and the addition it leads to.
LEMMA StepPinged ==
    ASSUME TableIInv, NEW id \in Ids, NEW key \in Keys, NEW metric \in {1, 2},
           Pinged(id, key, metric)
    PROVE  TableIInv'
<1>1. [pc |-> "absent", id |-> id, metric |-> metric] \in Inbound
  BY DEF Inbound
<1>2. inbound' \in [Keys -> Inbound]
  BY <1>1 DEF TableIInv, TableTypeOK, Pinged
<1>3. TasksKnow'
  BY RouteAssumption DEF TableIInv, TableTypeOK, TasksKnow, Pinged
<1>4. QED
  BY <1>2, <1>3
     DEF TableIInv, TableTypeOK, RouteIsTimed, OwnerHasRoute, HasRoute, Pinged

LEMMA StepAddIfAbsent ==
    ASSUME TableIInv, NEW key \in Keys, AddIfAbsent(key)
    PROVE  TableIInv'
<1> DEFINE e == [route_key |-> key, rtt |-> DEFAULT_RTT, metric |-> inbound[key].metric]
<1>1. inbound[key] \in Inbound /\ inbound[key].id # None
  BY DEF TableIInv, TableTypeOK, TasksKnow, AddIfAbsent
<1>2. inbound[key].id \in Ids /\ e \in Route
  BY <1>1 DEF Inbound, Route
<1>3. Idle \in Inbound /\ Idle.pc = "idle"
  BY DEF Idle, Inbound
<1>4. inbound' \in [Keys -> Inbound] /\ TasksKnow'
  BY <1>3 DEF TableIInv, TableTypeOK, TasksKnow, AddIfAbsent
<1>5. add_route(inbound[key].id, e) /\ expired' = expired
  BY DEF AddIfAbsent
<1> HIDE DEF e
<1>6. QED
  BY <1>2, <1>4, <1>5, StepAddRoute

\* The answer to a heartbeat arrives.
LEMMA StepPong ==
    ASSUME TableIInv, NEW id \in Ids, NEW key \in Keys, NEW rtt \in Rtts,
           Pong(id, key, rtt)
    PROVE  TableIInv'
<1> DEFINE e == [route_key |-> key, metric |-> 1, rtt |-> rtt]
<1>1. e \in Route /\ add_route(id, e)
  BY DEF Route, Pong
<1>2. inbound' \in [Keys -> Inbound] /\ TasksKnow' /\ expired' = expired
  BY DEF TableIInv, TableTypeOK, TasksKnow, Pong
<1> HIDE DEF e
<1>3. QED
  BY <1>1, <1>2, StepAddRoute

\* The receive task of a tunnel that is closed looks for the owner.
LEMMA StepTunnelEnds ==
    ASSUME TableIInv, NEW key \in Keys, TunnelEnds(key)
    PROVE  TableIInv'
<1> DEFINE task == IF route_key_owner[key] = None THEN Closed
                   ELSE [pc |-> "remove", id |-> route_key_owner[key], metric |-> 1]
<1>1. task \in Inbound /\ (task.pc \in {"absent", "remove"} => task.id # None)
  BY DEF TableIInv, TableTypeOK, Inbound, Closed
<1>2. inbound' = [inbound EXCEPT ![key] = task]
  BY DEF TunnelEnds
<1> HIDE DEF task
<1>3. inbound' \in [Keys -> Inbound] /\ TasksKnow'
  BY <1>1, <1>2 DEF TableIInv, TableTypeOK, TasksKnow
<1>4. QED
  BY <1>3
     DEF TableIInv, TableTypeOK, RouteIsTimed, OwnerHasRoute, HasRoute, TunnelEnds

\* ... and removes the route.
LEMMA Step_tcp_disconnect ==
    ASSUME TableIInv, NEW key \in Keys, tcp_disconnect(key)
    PROVE  TableIInv'
<1> DEFINE id == inbound[key].id
           list == WithoutKey(route_table[id], key)
<1>1. inbound[key] \in Inbound /\ id # None
  BY DEF TableIInv, TableTypeOK, TasksKnow, tcp_disconnect
<1>2. id \in Ids
  BY <1>1 DEF Inbound
<1>3. remove_route(id, key)
  BY DEF tcp_disconnect
<1> HIDE DEF id
<1>4. route_table[id] \in Seq(Route) /\ InOrder(route_table[id])
  BY <1>2 DEF TableIInv, TableTypeOK
<1>5. /\ list \in Seq(Route) /\ InOrder(list)
      /\ KeysOf(list) = KeysOf(route_table[id]) \ {key}
  BY <1>4, Retained DEF WithoutKey
<1>6. route_table' = [route_table EXCEPT ![id] = list]
  BY <1>3 DEF remove_route
<1>7. /\ route_key_time' = [route_key_time EXCEPT ![id][key] = None]
      /\ route_key_owner' = IF route_key_owner[key] = id
                            THEN [route_key_owner EXCEPT ![key] = None]
                            ELSE route_key_owner
  BY <1>3 DEF remove_route
<1> HIDE DEF list
<1>8. Closed \in Inbound /\ Closed.pc = "closed"
  BY DEF Closed, Inbound
<1>9. inbound' \in [Keys -> Inbound] /\ TasksKnow' /\ expired' = expired
  BY <1>8 DEF TableIInv, TableTypeOK, TasksKnow, tcp_disconnect
<1>10. TableTypeOK'
  BY <1>5, <1>6, <1>7, <1>9 DEF TableIInv, TableTypeOK
<1>11. /\ KeysOf(route_table'[id]) = KeysOf(route_table[id]) \ {key}
       /\ \A i \in Ids \ {id} : route_table'[i] = route_table[i]
       /\ route_table'[id] = list
  BY <1>2, <1>5, <1>6 DEF TableIInv, TableTypeOK
<1>12. RouteIsTimed'
  <2>1. SUFFICES ASSUME NEW i \in Ids, NEW k \in KeysOf(route_table'[i])
                 PROVE  route_key_time'[i][k] # None \/ <<i, k>> \in expired'
    BY DEF RouteIsTimed
  <2>2. k \in KeysOf(route_table[i]) /\ ~(i = id /\ k = key)
    BY <1>11, <2>1
  <2>3. route_key_time'[i][k] = route_key_time[i][k]
    BY <1>2, <1>7, <2>2 DEF TableIInv, TableTypeOK
  <2>4. QED
    BY <1>9, <2>2, <2>3 DEF TableIInv, RouteIsTimed
<1>13. OwnerHasRoute'
  <2>1. SUFFICES ASSUME NEW k \in Keys, route_key_owner'[k] # None
                 PROVE  k \in KeysOf(route_table'[route_key_owner'[k]])
    BY DEF OwnerHasRoute, HasRoute
  <2>2. route_key_owner'[k] = route_key_owner[k] /\ ~(k = key /\ route_key_owner[k] = id)
    BY <1>7, <2>1 DEF TableIInv, TableTypeOK
  <2>3. route_key_owner[k] \in Ids /\ k \in KeysOf(route_table[route_key_owner[k]])
    BY <2>1, <2>2 DEF TableIInv, TableTypeOK, OwnerHasRoute, HasRoute
  <2>4. QED
    BY <1>11, <2>2, <2>3
<1>14. QED
  BY <1>5, <1>9, <1>10, <1>11, <1>12, <1>13 DEF TableIInv

\* A heartbeat stays out for too long.
LEMMA StepSilence ==
    ASSUME TableIInv, NEW id \in Ids, NEW key \in Keys, Silence(id, key)
    PROVE  TableIInv'
<1>1. TableTypeOK'
  BY DEF TableIInv, TableTypeOK, Silence
<1>2. RouteIsTimed'
  <2>1. \A i \in Ids, k \in Keys :
            route_key_time[i][k] # None => route_key_time'[i][k] # None
    BY RouteAssumption DEF TableIInv, TableTypeOK, Silence
  <2>2. \A i \in Ids : KeysOf(route_table[i]) \subseteq Keys
    BY KeysAreKeys DEF TableIInv, TableTypeOK
  <2>3. QED
    BY <2>1, <2>2 DEF TableIInv, RouteIsTimed, Silence
<1>3. OwnerHasRoute' /\ TasksKnow' /\ \A i \in Ids : InOrder(route_table'[i])
  BY DEF TableIInv, OwnerHasRoute, HasRoute, TasksKnow, Silence
<1>4. QED
  BY <1>1, <1>2, <1>3 DEF TableIInv

\* The expired times are taken, and their routes remembered.
LEMMA StepCollectExpired ==
    ASSUME TableIInv, CollectExpired
    PROVE  TableIInv'
<1>1. TableTypeOK'
  BY DEF TableIInv, TableTypeOK, CollectExpired, Stale
<1>2. RouteIsTimed'
  <2>1. SUFFICES ASSUME NEW i \in Ids, NEW k \in KeysOf(route_table[i])
                 PROVE  route_key_time'[i][k] # None \/ <<i, k>> \in expired'
    BY DEF RouteIsTimed, CollectExpired
  <2>2. k \in Keys
    BY KeysAreKeys DEF TableIInv, TableTypeOK
  <2>3. route_key_time[i][k] # None
    BY DEF TableIInv, RouteIsTimed, CollectExpired
  <2>4. CASE <<i, k>> \in Stale
    BY <2>4 DEF CollectExpired
  <2>5. CASE <<i, k>> \notin Stale
    BY <2>2, <2>3, <2>5 DEF CollectExpired
  <2>6. QED
    BY <2>4, <2>5
<1>3. OwnerHasRoute' /\ TasksKnow' /\ \A i \in Ids : InOrder(route_table'[i])
  BY DEF TableIInv, OwnerHasRoute, HasRoute, TasksKnow, CollectExpired
<1>4. QED
  BY <1>1, <1>2, <1>3 DEF TableIInv

\* Their routes go.
LEMMA StepRemoveExpired ==
    ASSUME TableIInv, RemoveExpired
    PROVE  TableIInv'
<1> DEFINE gone(id) == {key \in Keys : <<id, key>> \in expired}
<1>1. ASSUME NEW id \in Ids
      PROVE  /\ route_table'[id] = retain(route_table[id], gone(id))
             /\ route_table'[id] \in Seq(Route) /\ InOrder(route_table'[id])
             /\ KeysOf(route_table'[id]) = KeysOf(route_table[id]) \ gone(id)
             /\ KeysOf(route_table[id]) \subseteq Keys
  <2>1. route_table'[id] = retain(route_table[id], gone(id))
    BY DEF RemoveExpired
  <2>2. route_table[id] \in Seq(Route) /\ InOrder(route_table[id])
    BY DEF TableIInv, TableTypeOK
  <2>3. KeysOf(route_table[id]) \subseteq Keys
    BY <2>2, KeysAreKeys
  <2> HIDE DEF gone
  <2>4. QED
    BY <2>1, <2>2, <2>3, Retained
<1>2. TableTypeOK'
  <2>1. DOMAIN route_table' = Ids /\ route_table' = [id \in Ids |-> route_table'[id]]
    BY DEF RemoveExpired
  <2>2. route_table' \in [Ids -> Seq(Route)]
    BY <1>1, <2>1
  <2>3. route_key_owner' \in [Keys -> Ids \cup {None}]
    BY DEF TableIInv, TableTypeOK, RemoveExpired
  <2>4. QED
    BY <2>2, <2>3 DEF TableIInv, TableTypeOK, RemoveExpired
<1>3. RouteIsTimed'
  <2>1. SUFFICES ASSUME NEW i \in Ids, NEW k \in KeysOf(route_table'[i])
                 PROVE  route_key_time'[i][k] # None
    BY DEF RouteIsTimed
  <2>2. k \in KeysOf(route_table[i]) /\ <<i, k>> \notin expired
    BY <1>1, <2>1
  <2>3. QED
    BY <2>2 DEF TableIInv, RouteIsTimed, RemoveExpired
<1>4. OwnerHasRoute'
  <2>1. SUFFICES ASSUME NEW k \in Keys, route_key_owner'[k] # None
                 PROVE  k \in KeysOf(route_table'[route_key_owner'[k]])
    BY DEF OwnerHasRoute, HasRoute
  <2>2. /\ route_key_owner'[k] = route_key_owner[k]
        /\ <<route_key_owner[k], k>> \notin expired
    BY <2>1 DEF RemoveExpired
  <2>3. route_key_owner[k] \in Ids /\ k \in KeysOf(route_table[route_key_owner[k]])
    BY <2>1, <2>2 DEF TableIInv, TableTypeOK, OwnerHasRoute, HasRoute
  <2>4. QED
    BY <1>1, <2>2, <2>3
<1>5. TasksKnow'
  BY DEF TableIInv, TasksKnow, RemoveExpired
<1>6. QED
  BY <1>1, <1>2, <1>3, <1>4, <1>5 DEF TableIInv

LEMMA TableStutter ==
    ASSUME TableIInv, UNCHANGED tableVars
    PROVE  TableIInv'
BY DEF TableIInv, TableTypeOK, RouteIsTimed, OwnerHasRoute, HasRoute, TasksKnow, tableVars

\* A step of anything preserves the invariant.
LEMMA StepTable == TableIInv /\ [TableNext]_tableVars => TableIInv'
<1>1. SUFFICES ASSUME TableIInv, TableNext PROVE TableIInv'
  BY TableStutter
<1>2. ASSUME NEW link \in Links, Punched(link[1], link[2]) PROVE TableIInv'
  BY <1>1, <1>2, LinkOK, StepPunched
<1>3. ASSUME NEW link \in Links, NEW metric \in {1, 2}, Pinged(link[1], link[2], metric)
      PROVE  TableIInv'
  BY <1>1, <1>3, LinkOK, StepPinged
<1>4. ASSUME NEW link \in Links, NEW rtt \in Rtts, Pong(link[1], link[2], rtt)
      PROVE  TableIInv'
  BY <1>1, <1>4, LinkOK, StepPong
<1>5. ASSUME NEW link \in Links, Silence(link[1], link[2]) PROVE TableIInv'
  BY <1>1, <1>5, LinkOK, StepSilence
<1>6. ASSUME NEW key \in Keys,
             AddIfAbsent(key) \/ TunnelEnds(key) \/ tcp_disconnect(key)
      PROVE  TableIInv'
  BY <1>1, <1>6, StepAddIfAbsent, StepTunnelEnds, Step_tcp_disconnect
<1>7. CASE Timeout
  BY <1>1, <1>7, StepCollectExpired, StepRemoveExpired DEF Timeout
<1>8. QED
  BY <1>1, <1>2, <1>3, <1>4, <1>5, <1>6, <1>7 DEF TableNext

\* However heartbeats, punches, closed tunnels and the expiry interleave, under
\* their different locks: every route has a time or is about to be removed, the
\* owner of a key has a route over it, and no key occurs twice in a list, whose
\* fast routes come first, in order.
THEOREM TableIsSound == TableSpec => []TableInv
<1>1. TableIInv => TableInv
  BY DEF TableIInv, TableInv, FastRoutesFirst, InOrder
<1>2. QED
  BY <1>1, InitTable, StepTable, PTL DEF TableSpec

-----------------------------------------------------------------------------
(***************************************************************************)
(* Punch, for any number of lives and any bound on the backoff.            *)
(***************************************************************************)

\* The parts of PunchTypeOK: the programs, what waits, what is known and sent.
ProcOK ==
    /\ life \in [Clients -> Nat] /\ \A c \in Clients : life[c] <= Lives[c]
    /\ up \in [Clients -> BOOLEAN] /\ info \in [Clients -> BOOLEAN]

BackoffOK ==
    /\ count \in [Clients -> 0 .. MAX_BACKOFF]
    /\ rest \in [Clients -> 0 .. MAX_BACKOFF]
    /\ \A c \in Clients : rest[c] <= count[c]

SoughtOK ==
    /\ punching = [c \in Clients |-> punching[c]]
    /\ route = [c \in Clients |-> route[c]]
    /\ \A c \in Clients :
          /\ punching[c] \subseteq LivesOf(Peer(c))
          /\ route[c] \in [LivesOf(Peer(c)) -> {"none", "fresh", "stale"}]

MessagesOK ==
    /\ turn = [c \in Clients |-> turn[c]] /\ air = [c \in Clients |-> air[c]]
    /\ \A c \in Clients : /\ air[c] \in Packets(c) \cup {None}
                          /\ turn[c] \in Starts(c) \cup {None}

\* A client that does not run keeps nothing and receives nothing.
Stopped ==
    \A c \in Clients :
        /\ up[c] => life[c] # 0
        /\ ~up[c] => punching[c] = {} /\ air[c] = None /\ Routes(c) = {}

\* The smaller client asks, the larger one answers.
AskedInOrder ==
    /\ turn[Large] # None => turn[Large].kind = "PunchStart1"
    /\ turn[Small] # None => turn[Small].kind = "PunchStart2"

PunchIInv ==
    /\ ProcOK /\ BackoffOK /\ SoughtOK /\ MessagesOK
    /\ Stopped /\ AskedInOrder /\ count[Large] = 0

LEMMA InitPunch == PunchInit => PunchIInv
<1>1. SUFFICES ASSUME PunchInit PROVE PunchIInv
  OBVIOUS
<1>2. \A c \in Clients : Peer(c) \in Clients
  BY DEF Clients, Peer
<1>3. ProcOK
  <2>1. up \in [Clients -> BOOLEAN] /\ info \in [Clients -> BOOLEAN]
    BY <1>1, Zenon DEF PunchInit
  <2>2. life \in [Clients -> Nat] /\ \A c \in Clients : life[c] <= Lives[c]
    BY <1>1, PunchAssumption DEF PunchInit
  <2>3. QED
    BY <2>1, <2>2 DEF ProcOK
<1>7. BackoffOK
  BY <1>1, PunchAssumption DEF PunchInit, BackoffOK
<1>8. SoughtOK /\ MessagesOK
  BY <1>1 DEF PunchInit, SoughtOK, MessagesOK, NoRoute
<1>5. Stopped
  <2>1. SUFFICES ASSUME NEW c \in Clients
                 PROVE  /\ up[c] => life[c] # 0
                        /\ punching[c] = {} /\ air[c] = None /\ Routes(c) = {}
    BY Zenon DEF Stopped
  <2>2. up[c] = (c = Small) /\ life[c] = (IF c = Small THEN 1 ELSE 0)
    BY <1>1, Zenon DEF PunchInit
  <2>3. up[c] => life[c] = 1
    BY <2>2, Zenon
  <2>4. punching[c] = {} /\ air[c] = None /\ route[c] = NoRoute(c)
    BY <1>1 DEF PunchInit
  <2>5. Routes(c) = {}
    BY <2>4 DEF Routes, NoRoute
  <2>6. QED
    BY <2>3, <2>4, <2>5
<1>6. AskedInOrder /\ count[Large] = 0
  BY <1>1 DEF PunchInit, AskedInOrder, Clients
<1>9. QED
  BY <1>3, <1>5, <1>6, <1>7, <1>8 DEF PunchIInv

\* Each client is the peer of the other.
LEMMA PeerIsOther ==
    ASSUME NEW c \in Clients
    PROVE  /\ Peer(c) \in Clients /\ Peer(c) # c /\ Peer(Peer(c)) = c
           /\ Lives[c] \in Nat \ {0}
BY PunchAssumption DEF Clients, Peer

\* A client starts.
LEMMA StepStart ==
    ASSUME PunchIInv, NEW c \in Clients, Start(c)
    PROVE  PunchIInv'
<1>1. ProcOK'
  BY PeerIsOther DEF PunchIInv, ProcOK, Start
<1>2. BackoffOK' /\ SoughtOK' /\ MessagesOK'
  BY DEF PunchIInv, BackoffOK, SoughtOK, MessagesOK, Start, backoff
<1>3. Stopped'
  BY DEF PunchIInv, ProcOK, Stopped, Start, Routes
<1>4. AskedInOrder' /\ count'[Large] = 0
  BY DEF PunchIInv, AskedInOrder, Start, backoff
<1>5. QED
  BY <1>1, <1>2, <1>3, <1>4 DEF PunchIInv

\* A client stops.
LEMMA StepStop ==
    ASSUME PunchIInv, NEW c \in Clients, Stop(c)
    PROVE  PunchIInv'
<1>1. ProcOK'
  BY DEF PunchIInv, ProcOK, Stop
<1>2. BackoffOK'
  BY PunchAssumption DEF PunchIInv, BackoffOK, Stop
<1>3. SoughtOK' /\ MessagesOK'
  BY DEF PunchIInv, SoughtOK, MessagesOK, Stop, NoRoute
<1>4. Stopped'
  BY DEF PunchIInv, ProcOK, SoughtOK, MessagesOK, Stopped, Stop, Routes, NoRoute
<1>5. AskedInOrder' /\ count'[Large] = 0
  BY DEF PunchIInv, AskedInOrder, BackoffOK, Stop, Clients
<1>6. QED
  BY <1>1, <1>2, <1>3, <1>4, <1>5 DEF PunchIInv

\* A client gets to know its NAT.
LEMMA StepNatKnown ==
    ASSUME PunchIInv, NEW c \in Clients, NatKnown(c)
    PROVE  PunchIInv'
<1>1. ProcOK'
  BY DEF PunchIInv, ProcOK, NatKnown
<1>2. BackoffOK' /\ SoughtOK' /\ MessagesOK'
  BY DEF PunchIInv, BackoffOK, SoughtOK, MessagesOK, NatKnown, backoff
<1>3. Stopped'
  BY DEF PunchIInv, Stopped, NatKnown, backoff, Routes
<1>4. AskedInOrder' /\ count'[Large] = 0
  BY DEF PunchIInv, AskedInOrder, NatKnown, backoff
<1>5. QED
  BY <1>1, <1>2, <1>3, <1>4 DEF PunchIInv

\* A PunchStart is put on its way to a client, and says who sends it.
LEMMA StartIsSent ==
    ASSUME PunchIInv, NEW c \in Clients, up[c], NEW starts,
           starts = [d \in Clients |-> starts[d]],
           \A d \in Clients : starts[d] \in Starts(d) \cup {None},
           NEW kind \in {"PunchStart1", "PunchStart2"}
    PROVE  /\ StartSent(c, kind, starts) = [d \in Clients |-> StartSent(c, kind, starts)[d]]
           /\ \A d \in Clients : StartSent(c, kind, starts)[d] \in Starts(d) \cup {None}
           /\ StartSent(c, kind, starts)[Peer(c)].kind = kind
           /\ StartSent(c, kind, starts)[c] = starts[c]
<1>1. life[c] \in LivesOf(c)
  BY PeerIsOther DEF PunchIInv, ProcOK, Stopped, LivesOf
<1>2. [kind |-> kind, life |-> life[c]] \in Starts(Peer(c))
  BY <1>1, PeerIsOther DEF Starts
<1>3. QED
  BY <1>2, PeerIsOther DEF StartSent

\* The smaller client asks the larger one.
LEMMA StepPunchTask ==
    ASSUME PunchIInv, NEW c \in Clients, PunchTask(c)
    PROVE  PunchIInv'
<1>1. c = Small /\ up[c] /\ Peer(c) = Large
  BY DEF PunchTask, Initiates, Peer
<1>2. ProcOK' /\ BackoffOK' /\ SoughtOK'
  BY DEF PunchIInv, ProcOK, BackoffOK, SoughtOK, PunchTask, proc, backoff
<1>3. /\ turn' = [d \in Clients |-> turn'[d]]
      /\ \A d \in Clients : turn'[d] \in Starts(d) \cup {None}
      /\ turn'[Large].kind = "PunchStart1" /\ turn'[Small] = turn[Small]
  BY <1>1, StartIsSent DEF PunchIInv, MessagesOK, PunchTask
<1>4. MessagesOK'
  BY <1>3 DEF PunchIInv, MessagesOK, PunchTask
<1>5. Stopped'
  BY DEF PunchIInv, Stopped, PunchTask, proc, Routes
<1>6. AskedInOrder' /\ count'[Large] = 0
  BY <1>3 DEF PunchIInv, AskedInOrder, PunchTask, backoff
<1>7. QED
  BY <1>2, <1>4, <1>5, <1>6 DEF PunchIInv

\* What is asked is in order: whom to punch is a life of the other, and the
\* message is gone.
LEMMA AskedIsKnown ==
    ASSUME PunchIInv, NEW c \in Clients, turn[c] # None
    PROVE  /\ turn[c].life \in LivesOf(Peer(c))
           /\ turn[c].kind = "PunchStart1" => c = Large /\ Peer(c) = Small
           /\ turn[c].kind = "PunchStart2" => c = Small /\ Peer(c) = Large
           /\ Taken(c) = [d \in Clients |-> Taken(c)[d]]
           /\ \A d \in Clients : Taken(c)[d] \in Starts(d) \cup {None}
           /\ Taken(c)[c] = None /\ Taken(c)[Peer(c)] = turn[Peer(c)]
<1>1. turn[c] \in Starts(c)
  BY DEF PunchIInv, MessagesOK
<1>2. c = Large \/ c = Small
  BY DEF Clients
<1>3. /\ turn[c].kind = "PunchStart1" => c = Large /\ Peer(c) = Small
      /\ turn[c].kind = "PunchStart2" => c = Small /\ Peer(c) = Large
  BY <1>2, PunchAssumption DEF PunchIInv, AskedInOrder, Peer
<1>4. turn[c].life \in LivesOf(Peer(c))
  BY <1>1 DEF Starts
<1>5. QED
  BY <1>3, <1>4, PeerIsOther DEF PunchIInv, MessagesOK, Taken

\* The smaller client is answered, and the larger one will punch.
LEMMA StepPunchStart1 ==
    ASSUME PunchIInv, NEW c \in Clients, PunchStart1(c)
    PROVE  PunchIInv'
<1>1. /\ up[c] /\ turn[c] # None /\ c = Large /\ Peer(c) = Small
      /\ turn[c].life \in LivesOf(Peer(c))
  BY AskedIsKnown DEF PunchStart1, Asked
<1>2. ProcOK' /\ BackoffOK'
  BY DEF PunchIInv, ProcOK, BackoffOK, PunchStart1, proc, backoff
<1>3. SoughtOK'
  BY <1>1 DEF PunchIInv, SoughtOK, PunchStart1, PunchSoon
<1>4. /\ turn' = [d \in Clients |-> turn'[d]]
      /\ \A d \in Clients : turn'[d] \in Starts(d) \cup {None}
      /\ turn'[Large] = None
      /\ turn'[Small] # None => turn'[Small].kind = "PunchStart2"
  <2>1. CASE info[c] /\ should_punch(c)
    <3>1. turn' = StartSent(c, "PunchStart2", Taken(c))
      BY <2>1 DEF PunchStart1
    <3>2. QED
      BY <1>1, <3>1, StartIsSent, AskedIsKnown
  <2>2. CASE ~(info[c] /\ should_punch(c))
    <3>1. turn' = Taken(c)
      BY <2>2 DEF PunchStart1
    <3>2. QED
      BY <1>1, <3>1, AskedIsKnown DEF PunchIInv, AskedInOrder
  <2>3. QED
    BY <2>1, <2>2
<1>5. MessagesOK'
  BY <1>4 DEF PunchIInv, MessagesOK, PunchStart1
<1>6. Stopped'
  BY <1>1 DEF PunchIInv, SoughtOK, Stopped, PunchStart1, PunchSoon, proc, Routes
<1>7. AskedInOrder' /\ count'[Large] = 0
  BY <1>4 DEF PunchIInv, AskedInOrder, PunchStart1, backoff
<1>8. QED
  BY <1>2, <1>3, <1>5, <1>6, <1>7 DEF PunchIInv

\* The smaller client will punch, and waits longer the next time.
LEMMA StepPunchStart2 ==
    ASSUME PunchIInv, NEW c \in Clients, PunchStart2(c)
    PROVE  PunchIInv'
<1>1. /\ up[c] /\ turn[c] # None /\ c = Small /\ Peer(c) = Large
      /\ turn[c].life \in LivesOf(Peer(c))
  BY AskedIsKnown DEF PunchStart2, Asked
<1>2. ProcOK'
  BY DEF PunchIInv, ProcOK, PunchStart2, proc
<1>3. BackoffOK'
  <2>1. Least(count[c] + 1, MAX_BACKOFF) \in 0 .. MAX_BACKOFF
    BY PunchAssumption DEF PunchIInv, BackoffOK, Least
  <2>2. QED
    BY <2>1 DEF PunchIInv, BackoffOK, PunchStart2, record
<1>4. SoughtOK'
  BY <1>1 DEF PunchIInv, SoughtOK, PunchStart2, PunchSoon
<1>5. MessagesOK'
  BY <1>1, AskedIsKnown DEF PunchIInv, MessagesOK, PunchStart2
<1>6. Stopped'
  BY <1>1 DEF PunchIInv, SoughtOK, Stopped, PunchStart2, PunchSoon, proc, Routes
<1>7. turn'[Large] = turn[Large] /\ turn'[Small] = None
  BY <1>1, AskedIsKnown DEF PunchStart2
<1>8. AskedInOrder' /\ count'[Large] = 0
  BY <1>1, <1>7, PunchAssumption
     DEF PunchIInv, AskedInOrder, BackoffOK, PunchStart2, record, Clients
<1>9. QED
  BY <1>2, <1>3, <1>4, <1>5, <1>6, <1>8 DEF PunchIInv

\* The wait gets shorter.
LEMMA StepTimePasses ==
    ASSUME PunchIInv, NEW c \in Clients, TimePasses(c)
    PROVE  PunchIInv'
<1>1. BackoffOK'
  BY PunchAssumption DEF PunchIInv, BackoffOK, TimePasses
<1>2. ProcOK' /\ SoughtOK' /\ MessagesOK'
  BY DEF PunchIInv, ProcOK, SoughtOK, MessagesOK, TimePasses, proc
<1>3. Stopped'
  BY DEF PunchIInv, Stopped, TimePasses, proc, Routes
<1>4. AskedInOrder' /\ count'[Large] = 0
  BY DEF PunchIInv, AskedInOrder, TimePasses
<1>5. QED
  BY <1>1, <1>2, <1>3, <1>4 DEF PunchIInv

\* The server loses a message.
LEMMA StepTurnLost ==
    ASSUME PunchIInv, TurnLost
    PROVE  PunchIInv'
<1>1. PICK c \in Clients : turn[c] # None /\ turn' = Taken(c)
  BY DEF TurnLost
<1>2. ProcOK' /\ BackoffOK' /\ SoughtOK'
  BY DEF PunchIInv, ProcOK, BackoffOK, SoughtOK, TurnLost, proc, backoff
<1>3. MessagesOK'
  BY <1>1, AskedIsKnown DEF PunchIInv, MessagesOK, TurnLost
<1>4. Stopped'
  BY DEF PunchIInv, Stopped, TurnLost, proc, Routes
<1>5. \A d \in Clients : turn'[d] \in {turn[d], None}
  BY <1>1 DEF PunchIInv, MessagesOK, Taken
<1>6. AskedInOrder' /\ count'[Large] = 0
  BY <1>5 DEF PunchIInv, AskedInOrder, TurnLost, backoff, Clients
<1>7. QED
  BY <1>2, <1>3, <1>4, <1>6 DEF PunchIInv

\* A packet is put on its way to a client that runs, and says who sends it.
LEMMA PacketIsSent ==
    ASSUME PunchIInv, NEW c \in Clients, up[c], NEW l, NEW packets,
           packets = [d \in Clients |-> packets[d]],
           \A d \in Clients : packets[d] \in Packets(d) \cup {None},
           \A d \in Clients : ~up[d] => packets[d] = None,
           NEW kind \in {"PunchReq", "Ping", "Answer"}
    PROVE  /\ Sent(c, l, kind, packets) = [d \in Clients |-> Sent(c, l, kind, packets)[d]]
           /\ \A d \in Clients : Sent(c, l, kind, packets)[d] \in Packets(d) \cup {None}
           /\ \A d \in Clients : ~up[d] => Sent(c, l, kind, packets)[d] = None
<1>1. life[c] \in LivesOf(c)
  BY PeerIsOther DEF PunchIInv, ProcOK, Stopped, LivesOf
<1>2. [kind |-> kind, life |-> life[c]] \in Packets(Peer(c))
  BY <1>1, PeerIsOther DEF Packets
<1>3. QED
  BY <1>2, PeerIsOther DEF Sent

\* What is known of a packet that is under way.
LEMMA PacketIsKnown ==
    ASSUME PunchIInv, NEW c \in Clients, air[c] # None
    PROVE  /\ up[c] /\ air[c].life \in LivesOf(Peer(c))
           /\ OffAir(c) = [d \in Clients |-> OffAir(c)[d]]
           /\ \A d \in Clients : OffAir(c)[d] \in Packets(d) \cup {None}
           /\ \A d \in Clients : ~up[d] => OffAir(c)[d] = None
<1>1. air[c] \in Packets(c)
  BY DEF PunchIInv, MessagesOK
<1>2. up[c] /\ air[c].life \in LivesOf(Peer(c))
  BY <1>1 DEF PunchIInv, Stopped, Packets
<1>3. QED
  BY <1>2 DEF PunchIInv, MessagesOK, Stopped, OffAir

\* A step that changes the packets, the routes and whom to punch, all of them
\* as they should be, preserves the invariant.
LEMMA RoutesAndPackets ==
    ASSUME PunchIInv, UNCHANGED <<proc, backoff, turn>>, SoughtOK',
           air' = [d \in Clients |-> air'[d]],
           \A d \in Clients : air'[d] \in Packets(d) \cup {None},
           \A d \in Clients : ~up[d] =>
               air'[d] = None /\ punching'[d] = {} /\ Routes(d)' = {}
    PROVE  PunchIInv'
<1>1. ProcOK' /\ BackoffOK'
  BY DEF PunchIInv, ProcOK, BackoffOK, proc, backoff
<1>2. MessagesOK'
  BY DEF PunchIInv, MessagesOK
<1>3. Stopped'
  BY DEF PunchIInv, Stopped, proc
<1>4. AskedInOrder' /\ count'[Large] = 0
  BY DEF PunchIInv, AskedInOrder, backoff
<1>5. QED
  BY <1>1, <1>2, <1>3, <1>4 DEF PunchIInv

\* A client punches.
LEMMA StepPunchNow ==
    ASSUME PunchIInv, NEW c \in Clients, NEW l \in LivesOf(Peer(c)), punch_now(c, l)
    PROVE  PunchIInv'
<1>1. up[c]
  BY DEF PunchIInv, Stopped, punch_now
<1>2. /\ air' = [d \in Clients |-> air'[d]]
      /\ \A d \in Clients : air'[d] \in Packets(d) \cup {None}
      /\ \A d \in Clients : ~up[d] => air'[d] = None
  BY <1>1, PacketIsSent DEF PunchIInv, MessagesOK, Stopped, punch_now
<1>3. SoughtOK'
  BY DEF PunchIInv, SoughtOK, punch_now
<1>4. \A d \in Clients : ~up[d] => punching'[d] = {} /\ Routes(d)' = {}
  BY DEF PunchIInv, SoughtOK, Stopped, punch_now, Routes
<1>5. QED
  BY <1>2, <1>3, <1>4, RoutesAndPackets DEF punch_now

\* A client that runs has got a route.
LEMMA RouteIsFresh ==
    ASSUME PunchIInv, NEW c \in Clients, up[c], NEW l \in LivesOf(Peer(c)),
           Heard(c, l), punching' = punching
    PROVE  /\ SoughtOK'
           /\ \A d \in Clients : ~up[d] => punching'[d] = {} /\ Routes(d)' = {}
<1>1. SoughtOK'
  BY DEF PunchIInv, SoughtOK, Heard, Fresh
<1>2. \A d \in Clients : ~up[d] => route'[d] = route[d]
  BY DEF PunchIInv, SoughtOK, Heard, Fresh
<1>3. QED
  BY <1>1, <1>2 DEF PunchIInv, Stopped, Routes

\* A punch arrives.
LEMMA StepPunchReq ==
    ASSUME PunchIInv, NEW c \in Clients, PunchReq(c)
    PROVE  PunchIInv'
<1>1. air[c] # None /\ up[c] /\ air[c].life \in LivesOf(Peer(c))
  BY PacketIsKnown DEF PunchReq, Arrives
<1>2. /\ air' = [d \in Clients |-> air'[d]]
      /\ \A d \in Clients : air'[d] \in Packets(d) \cup {None}
      /\ \A d \in Clients : ~up[d] => air'[d] = None
  BY <1>1, PacketIsKnown, PacketIsSent DEF PunchReq
<1>3. QED
  BY <1>1, <1>2, RouteIsFresh, RoutesAndPackets DEF PunchReq

\* A heartbeat is sent.
LEMMA Step_ping ==
    ASSUME PunchIInv, NEW c \in Clients, NEW l \in LivesOf(Peer(c)), ping(c, l)
    PROVE  PunchIInv'
<1>1. up[c]
  BY DEF PunchIInv, Stopped, ping
<1>2. /\ air' = [d \in Clients |-> air'[d]]
      /\ \A d \in Clients : air'[d] \in Packets(d) \cup {None}
      /\ \A d \in Clients : ~up[d] => air'[d] = None
  BY <1>1, PacketIsSent DEF PunchIInv, MessagesOK, Stopped, ping
<1>3. SoughtOK'
  BY DEF PunchIInv, SoughtOK, ping, after_ping
<1>4. \A d \in Clients : ~up[d] => punching'[d] = {} /\ Routes(d)' = {}
  BY DEF PunchIInv, Stopped, ping, after_ping, Routes
<1>5. QED
  BY <1>2, <1>3, <1>4, RoutesAndPackets DEF ping

\* A heartbeat arrives.
LEMMA StepPing ==
    ASSUME PunchIInv, NEW c \in Clients, Ping(c)
    PROVE  PunchIInv'
<1>1. air[c] # None /\ up[c] /\ air[c].life \in LivesOf(Peer(c))
  BY PacketIsKnown DEF Ping, Arrives
<1>2. /\ air' = [d \in Clients |-> air'[d]]
      /\ \A d \in Clients : air'[d] \in Packets(d) \cup {None}
      /\ \A d \in Clients : ~up[d] => air'[d] = None
  BY <1>1, PacketIsKnown, PacketIsSent DEF Ping
<1>3. /\ SoughtOK'
      /\ \A d \in Clients : ~up[d] => punching'[d] = {} /\ Routes(d)' = {}
  <2>1. CASE Routes(c) = {}
    BY <1>1, <2>1, RouteIsFresh DEF Ping, Heard
  <2>2. CASE Routes(c) # {}
    BY <2>2 DEF PunchIInv, SoughtOK, Stopped, Ping, Routes
  <2>3. QED
    BY <2>1, <2>2
<1>4. QED
  BY <1>2, <1>3, RoutesAndPackets DEF Ping

\* The answer to a punch or a heartbeat arrives.
LEMMA StepAnswer ==
    ASSUME PunchIInv, NEW c \in Clients, Answer(c)
    PROVE  PunchIInv'
<1>1. air[c] # None /\ up[c] /\ air[c].life \in LivesOf(Peer(c))
  BY PacketIsKnown DEF Answer, Arrives
<1>2. QED
  BY <1>1, PacketIsKnown, RouteIsFresh, RoutesAndPackets DEF Answer

\* A packet is lost.
LEMMA StepAirLost ==
    ASSUME PunchIInv, AirLost
    PROVE  PunchIInv'
<1>1. PICK c \in Clients : air[c] # None /\ air' = OffAir(c)
  BY DEF AirLost
<1>2. /\ SoughtOK'
      /\ \A d \in Clients : ~up[d] => punching'[d] = {} /\ Routes(d)' = {}
  BY DEF PunchIInv, SoughtOK, Stopped, AirLost, Routes
<1>3. QED
  BY <1>1, <1>2, PacketIsKnown, RoutesAndPackets DEF AirLost

\* A route gets older.
LEMMA StepAge ==
    ASSUME PunchIInv, NEW c \in Clients, NEW l \in LivesOf(Peer(c)), Age(c, l)
    PROVE  PunchIInv'
<1>1. up[c]
  BY DEF PunchIInv, Stopped, Age, Routes
<1>2. SoughtOK'
  BY DEF PunchIInv, SoughtOK, Age
<1>3. \A d \in Clients : ~up[d] => route'[d] = route[d]
  BY <1>1 DEF PunchIInv, SoughtOK, Age
<1>4. \A d \in Clients : ~up[d] =>
          air'[d] = None /\ punching'[d] = {} /\ Routes(d)' = {}
  BY <1>3 DEF PunchIInv, Stopped, Age, Routes
<1>5. QED
  BY <1>2, <1>4, RoutesAndPackets DEF PunchIInv, MessagesOK, Age

LEMMA PunchStutter ==
    ASSUME PunchIInv, UNCHANGED punchVars
    PROVE  PunchIInv'
<1>1. ProcOK' /\ BackoffOK' /\ SoughtOK' /\ MessagesOK'
  BY DEF PunchIInv, ProcOK, BackoffOK, SoughtOK, MessagesOK, punchVars, proc, backoff
<1>2. Stopped' /\ AskedInOrder' /\ count'[Large] = 0
  BY DEF PunchIInv, Stopped, AskedInOrder, Routes, punchVars, proc, backoff
<1>3. QED
  BY <1>1, <1>2 DEF PunchIInv

\* A step of anything preserves the invariant.
LEMMA StepPunch == PunchIInv /\ [PunchNext]_punchVars => PunchIInv'
<1>1. SUFFICES ASSUME PunchIInv, PunchNext PROVE PunchIInv'
  BY PunchStutter
<1>2. CASE TurnLost
  BY <1>1, <1>2, StepTurnLost
<1>3. CASE AirLost
  BY <1>1, <1>3, StepAirLost
<1>4. CASE \E c \in Clients : Program(c)
  BY <1>1, <1>4, StepStart, StepStop, StepNatKnown DEF Program
<1>5. CASE \E c \in Clients : Agree(c)
  BY <1>1, <1>5, StepPunchTask, StepPunchStart1, StepPunchStart2, StepTimePasses DEF Agree
<1>6. CASE \E c \in Clients : Receive(c)
  BY <1>1, <1>6, StepPunchReq, StepPing, StepAnswer DEF Receive
<1>7. CASE \E c \in Clients : \E l \in LivesOf(Peer(c)) : RouteStep(c, l)
  BY <1>1, <1>7, StepPunchNow, Step_ping, StepAge DEF RouteStep
<1>8. QED
  BY <1>1, <1>2, <1>3, <1>4, <1>5, <1>6, <1>7 DEF PunchNext

\* The parts of the invariant are the type invariant.
LEMMA PunchIsTyped == PunchIInv => PunchTypeOK
<1>1. SUFFICES ASSUME PunchIInv, NEW c \in Clients
               PROVE  /\ life[c] \in 0 .. Lives[c]
                      /\ {up[c], info[c]} \subseteq BOOLEAN
                      /\ {count[c], rest[c]} \subseteq 0 .. MAX_BACKOFF
                      /\ rest[c] <= count[c]
                      /\ punching[c] \subseteq LivesOf(Peer(c))
                      /\ route[c] \in [LivesOf(Peer(c)) -> {"none", "fresh", "stale"}]
                      /\ air[c] \in Packets(c) \cup {None}
                      /\ turn[c] \in Starts(c) \cup {None}
  BY DEF PunchTypeOK
<1>2. life[c] \in 0 .. Lives[c]
  BY <1>1, PeerIsOther DEF PunchIInv, ProcOK
<1>3. {up[c], info[c]} \subseteq BOOLEAN
  BY <1>1, Zenon DEF PunchIInv, ProcOK
<1>4. QED
  BY <1>1, <1>2, <1>3 DEF PunchIInv, BackoffOK, SoughtOK, MessagesOK

\* The variables of the two clients stay in their types: the wait is bounded,
\* and every message says which life of its sender it comes from.
THEOREM PunchTypeCorrect == PunchSpec => []PunchTypeOK
BY InitPunch, StepPunch, PunchIsTyped, PTL DEF PunchSpec

\* The limit on punching never applies to the client that is asked, whatever
\* is lost, repeated or restarted: PunchStart2, which counts, only reaches the
\* one that asks.
THEOREM OnlyAskerWaits == PunchSpec => []OnlyAskingIsHeldBack
<1>1. PunchIInv => OnlyAskingIsHeldBack
  BY PunchAssumption
     DEF PunchIInv, BackoffOK, OnlyAskingIsHeldBack, should_punch, Clients
<1>2. QED
  BY <1>1, InitPunch, StepPunch, PTL DEF PunchSpec
=============================================================================
