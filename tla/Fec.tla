-------------------------------- MODULE Fec --------------------------------
(***************************************************************************)
(* Forward error correction between two clients: FecEncoder and its worker *)
(* on one side, FecDecoder on the other, and a network in between that     *)
(* loses, duplicates and reorders packets.                                 *)
(*                                                                         *)
(* Packets to one destination are numbered by group and index.  A group is *)
(* closed when it is full or its time is over, and parity packets follow   *)
(* it.  A packet stands for its payload; what matters of it is its length, *)
(* and whether its flags are right once it is reconstructed: the encoder   *)
(* stores them before it sets the FEC flag, the decoder with that flag.    *)
(* Encoder and decoder live as long as the model runs; the checks of the   *)
(* decoder against shard counts no encoder sends are left out.             *)
(***************************************************************************)
EXTENDS Naturals, Sequences, FiniteSetsExt, Option

CONSTANTS
    BATCH_SIZE,     \* packets of a full group
    ChannelSize,    \* full groups the worker's channel holds
    Lens,           \* lengths of payloads
    Compression,    \* the receiving client decompresses, by the flags
    MaxPackets,     \* bound on the packets sent
    MaxGroups,      \* bound on their groups
    MaxFaults       \* bound on the shards the network loses or duplicates

ASSUME FecAssumption ==
    /\ BATCH_SIZE \in Nat \ {0} /\ {ChannelSize, MaxPackets, MaxGroups, MaxFaults} \subseteq Nat
    /\ Lens \subseteq Nat \ {0} /\ Compression \in BOOLEAN

\* The redundancy is 20 percent, at least one packet.
parity_shards(n) == Max({(n + 4) \div 5, 1})

Groups == 0 .. MaxGroups
Indices == 0 .. BATCH_SIZE + parity_shards(BATCH_SIZE) - 1

\* A packet as it is handed to the encoder and on by the decoder.
Packet == [group_id : Groups, index : Indices]

\* data_shards is 0 for an original and the size of the group for a parity.
Shard == [group_id : Groups, index : Indices, len : Lens,
          data_shards : 0 .. BATCH_SIZE]

\* received_shards is emptied when the group is done.
FecGroup == [data_shards : 0 .. BATCH_SIZE, received_original_count : Nat,
             received_shards : SUBSET Shard]

ASSUME NoneAssumption == None \notin FecGroup

VARIABLES
    group_id,   \* encoder: the open group
    batches,    \* group -> lengths of its packets; the open one is
                \*   current_batch, the others are history
    batch_rx,   \* full groups on their way to the worker
    net,        \* shards under way
    groups,     \* decoder: group -> FecGroup, or None
    delivered,  \* history: packets that went on as they had been sent
    spoiled,    \* history: packets the decoder returned with wrong flags, or
                \*   that were dropped since one before them had wrong flags
    lost,       \* history: group -> number of its shards that were lost
    copies,     \* history: number of shards that were duplicated
    forgotten   \* history: groups the decoder has cleaned up

encVars == <<group_id, batches, batch_rx>>
decVars == <<groups, delivered, spoiled, forgotten>>
vars == <<group_id, batches, batch_rx, net, groups, delivered, spoiled, lost,
          copies, forgotten>>

TypeOK ==
    /\ group_id \in Groups
    /\ batches \in [Groups -> Seq(Lens)]
    /\ batch_rx \in Seq(Groups)
    /\ net \subseteq Shard
    /\ groups \in [Groups -> FecGroup \cup {None}]
    /\ delivered \subseteq Packet /\ spoiled \subseteq Packet
    /\ lost \in [Groups -> Nat] /\ copies \in Nat
    /\ forgotten \subseteq Groups

Init ==
    /\ group_id = 0
    /\ batches = [g \in Groups |-> <<>>]
    /\ batch_rx = <<>>
    /\ net = {}
    /\ groups = [g \in Groups |-> None]
    /\ delivered = {} /\ spoiled = {} /\ forgotten = {}
    /\ lost = [g \in Groups |-> 0] /\ copies = 0

-----------------------------------------------------------------------------
(***************************************************************************)
(* Encoder                                                                 *)
(***************************************************************************)

SentPackets == MapThenSumSet(LAMBDA g : Len(batches[g]), Groups)

\* A packet joins the open group and is sent.  When that fills the group it
\* goes to the worker, unless the channel is full.
encode(len) ==
    LET batch == Append(batches[group_id], len)
        full == Len(batch) >= BATCH_SIZE
    IN /\ SentPackets < MaxPackets /\ group_id < MaxGroups
       /\ batches' = [batches EXCEPT ![group_id] = batch]
       /\ net' = net \cup {[group_id |-> group_id, len |-> len,
                            index |-> Len(batch) - 1, data_shards |-> 0]}
       /\ group_id' = IF full THEN group_id + 1 ELSE group_id
       /\ batch_rx' = IF full /\ Len(batch_rx) < ChannelSize
                      THEN Append(batch_rx, group_id) ELSE batch_rx
       /\ UNCHANGED <<decVars, lost, copies>>

\* The parity packets of group g, as long as its longest packet.
encode_and_send_parity(g) ==
    LET n == Len(batches[g])
    IN {[group_id |-> g, index |-> n + i, data_shards |-> n,
         len |-> Max({batches[g][j] : j \in 1 .. n})] :
            i \in 0 .. parity_shards(n) - 1}

\* The worker takes a full group from its channel.
WorkerReceives ==
    /\ batch_rx # <<>>
    /\ batch_rx' = Tail(batch_rx)
    /\ net' = net \cup encode_and_send_parity(Head(batch_rx))
    /\ UNCHANGED <<group_id, batches, decVars, lost, copies>>

\* The worker's timer finds the time of the open group over.
WorkerTick ==
    /\ batches[group_id] # <<>>
    /\ group_id' = group_id + 1
    /\ net' = net \cup encode_and_send_parity(group_id)
    /\ UNCHANGED <<batches, batch_rx, decVars, lost, copies>>

-----------------------------------------------------------------------------
(***************************************************************************)
(* Decoder                                                                 *)
(***************************************************************************)

PacketOf(s) == [group_id |-> s.group_id, index |-> s.index]

NewGroup == [data_shards |-> 0, received_original_count |-> 0,
             received_shards |-> {}]

GroupOf(g) == IF groups[g] = None THEN NewGroup ELSE groups[g]

is_done(g) ==
    g.data_shards # 0 /\ g.received_original_count = g.data_shards

\* Mutant: the shards are kept and the count is not set.
DoneKeepsCount(g) == [g EXCEPT !.received_shards = {}]

done(g) == [g EXCEPT !.received_original_count = g.data_shards,
                     !.received_shards = {}]

Known(g, s) == \E r \in g.received_shards : r.index = s.index

\* Mutant: a parity packet counts as well.
StoredCountsAll(g, s) ==
    [data_shards |-> IF s.data_shards = 0 THEN g.data_shards ELSE s.data_shards,
     received_original_count |-> g.received_original_count + 1,
     received_shards |-> g.received_shards \cup {s}]

Stored(g, s) ==
    [data_shards |-> IF s.data_shards = 0 THEN g.data_shards ELSE s.data_shards,
     received_original_count |-> IF s.data_shards = 0
                                 THEN g.received_original_count + 1
                                 ELSE g.received_original_count,
     received_shards |-> g.received_shards \cup {s}]

\* Mutant: one shard more is waited for.
DecodableLate(g) ==
    /\ g.data_shards # 0
    /\ Cardinality(g.received_shards) > g.data_shards

\* try_decode: there are enough shards for what is missing.
Decodable(g) ==
    /\ g.data_shards # 0
    /\ Cardinality(g.received_shards) >= g.data_shards

\* The library reconstructs from shards of one length only.  Originals are
\* stored as they are, while the encoder pads them to the longest.
reconstruct(g) == \A r, q \in g.received_shards : r.len = q.len

\* The packets that had not arrived.  Payload, length and type byte come out
\* as they were; of the flags see Suspect.
decode_with_rs(g, gid) ==
    {[group_id |-> gid, index |-> i] :
        i \in {j \in 0 .. g.data_shards - 1 :
                  \A r \in g.received_shards : r.index # j}}

\* Mutant: a parity packet is returned as well.
OriginalAny(s) == {PacketOf(s)}

Original(s) == IF s.data_shards = 0 THEN {PacketOf(s)} ELSE {}

DecodeFails(g) == ~is_done(g) /\ Decodable(g) /\ ~reconstruct(g)

\* What receive makes of a shard it has not got yet: the group, and what is
\* handed on.  An error in the decoding takes the original with it.
Received(s) ==
    LET g == Stored(GroupOf(s.group_id), s)
    IN CASE is_done(g) -> [group |-> done(g), out |-> Original(s)]
         [] ~is_done(g) /\ ~Decodable(g) -> [group |-> g, out |-> Original(s)]
         [] ~is_done(g) /\ Decodable(g) /\ reconstruct(g) ->
               [group |-> done(g),
                out |-> Original(s) \cup decode_with_rs(g, s.group_id)]
         [] DecodeFails(g) -> [group |-> g, out |-> {}]

\* The group is done, or has the shard.
Ignored(s) ==
    LET g == GroupOf(s.group_id)
    IN is_done(g) \/ Known(g, s)

HandsOn(s) == IF Ignored(s) THEN {} ELSE Received(s).out

\* The reconstructed packets whose flags may be wrong.  An original is stored
\* with the FEC flag, while the encoder computed the parity without it: when
\* an original takes part, what comes out depends on the coefficients of the
\* code.  Of these flags only COMPRESSED is read after the decoding.
Suspect(s) ==
    IF Compression /\ \E r \in Stored(GroupOf(s.group_id), s).received_shards :
                          r.data_shards = 0
    THEN HandsOn(s) \ Original(s)
    ELSE {}

\* The loop over the packets.  They come in the order of their indices, the
\* shard's own one last.  A wrong flag may make the decompression fail, and
\* the loop ends there; what has right flags and comes before that goes on.
process(s) ==
    LET out == HandsOn(s)
        Before(failed) == {p \in out \ Original(s) : p.index < failed.index}
    IN \E wrong \in SUBSET Suspect(s) : \E failed \in wrong \cup {None} :
          LET sound == (IF failed = None THEN out ELSE Before(failed)) \ wrong
          IN /\ delivered' = delivered \cup sound
             /\ spoiled' = spoiled \cup (out \ sound)

\* Groups without a packet for 3 seconds may be cleaned up on this occasion,
\* unless an early return or an error comes first.
receive(s) ==
    /\ process(s)
    /\ IF Ignored(s)
       THEN UNCHANGED <<groups, forgotten>>
       ELSE \E old \in SUBSET {g \in Groups \ {s.group_id} : groups[g] # None} :
               /\ DecodeFails(Stored(GroupOf(s.group_id), s)) => old = {}
               /\ forgotten' = forgotten \cup old
               /\ groups' = [g \in Groups |->
                     IF g = s.group_id THEN Received(s).group
                     ELSE IF g \in old THEN None ELSE groups[g]]
    /\ UNCHANGED <<encVars, lost>>

-----------------------------------------------------------------------------
(***************************************************************************)
(* Network                                                                 *)
(***************************************************************************)

Faults == MapThenSumSet(LAMBDA g : lost[g], Groups) + copies

Arrive(s) == net' = net \ {s} /\ receive(s) /\ UNCHANGED copies

\* The packet arrives and will arrive again.
ArriveTwice(s) ==
    /\ Faults < MaxFaults
    /\ copies' = copies + 1
    /\ net' = net
    /\ receive(s)

Lose(s) ==
    /\ Faults < MaxFaults
    /\ net' = net \ {s}
    /\ lost' = [lost EXCEPT ![s.group_id] = @ + 1]
    /\ UNCHANGED <<encVars, decVars, copies>>

Worker == WorkerReceives \/ WorkerTick

Next ==
    \/ \E len \in Lens : encode(len)
    \/ Worker
    \/ \E s \in net : Arrive(s) \/ ArriveTwice(s) \/ Lose(s)

\* The worker's loop runs on; what is not lost arrives.
Spec ==
    /\ Init /\ [][Next]_vars
    /\ WF_vars(Worker)
    /\ WF_vars(\E s \in net : Arrive(s))

-----------------------------------------------------------------------------
(***************************************************************************)
(* Properties                                                              *)
(***************************************************************************)

\* The packets the decoder has returned.
Handed == delivered \cup spoiled

\* A packet is handed on once, as an original or reconstructed, whatever is
\* duplicated, late or overtaken by a parity packet, until the decoder has
\* forgotten its group.
DeliveredOnce ==
    \A s \in net : HandsOn(s) \cap Handed # {} => s.group_id \in forgotten

\* The decoder returns nothing but packets that were sent, and what becomes
\* of a packet otherwise than as it was sent does so in a group of several
\* packets, and with compression: the only group it reconstructs from parity
\* alone is that of a single packet.
NothingInvented ==
    /\ \A p \in Handed : p.index < Len(batches[p.group_id])
    /\ \A p \in spoiled : Compression /\ Len(batches[p.group_id]) > 1

Uniform(g) == \A i, j \in DOMAIN batches[g] : batches[g][i] = batches[g][j]

\* A group that is done, and drops everything that still comes for it, has
\* handed on all its packets, provided they are of one length.
DoneIsComplete ==
    \A g \in Groups : groups[g] # None /\ is_done(groups[g]) /\ Uniform(g) =>
        \A i \in 0 .. Len(batches[g]) - 1 :
            [group_id |-> g, index |-> i] \in Handed

\* The decoder's groups are well formed, and what they count as done is.
GroupInv == TypeOK /\ DoneIsComplete

\* Losses up to the number of parity packets are made good: every packet of a
\* group goes on as it was sent.  The exceptions: the group is of more than
\* one length, the channel to the worker was full, the decoder has forgotten
\* the group, or the packet was spoiled by the flags of a reconstructed one.
\* (By the bound, group MaxGroups is the open one that takes no packets.)
LossIsRepaired ==
    \A g \in 0 .. MaxGroups - 1 :
        (\E s \in net : s.group_id = g /\ s.data_shards # 0) ~>
            \/ \A i \in 0 .. Len(batches[g]) - 1 :
                  LET p == [group_id |-> g, index |-> i]
                  IN p \in delivered \/ p \in spoiled
            \/ lost[g] > parity_shards(Len(batches[g]))
            \/ ~Uniform(g) \/ g \in forgotten
=============================================================================
