--------------------------- MODULE MessageChannel ---------------------------
(***************************************************************************)
(* internal/ecs/event/channel.go: a ring of messages with one monotonic    *)
(* cursor per reader.  A read is a Go iterator: the caller's loop body     *)
(* runs between two messages, and may write, start another read (of the    *)
(* same reader too), register or unregister.  `reads` is the stack of the  *)
(* iterators that are running; each keeps its own copy of the cursor and   *)
(* writes it back when it ends.                                            *)
(***************************************************************************)
EXTENDS Naturals, Sequences, FiniteSets, SequencesExt

CONSTANTS
    Capacity,      \* of the ring
    MaxMessages,   \* bound: messages written
    MaxReaders,    \* bound: readers registered
    MaxDepth,      \* bound: iterators nested in each other
    MaxReads       \* bound: reads started

ASSUME ChannelAssumption ==
    Capacity \in Nat \ {0} /\ MaxMessages \in Nat /\ MaxReaders \in Nat /\ MaxDepth \in Nat /\ MaxReads \in Nat

VARIABLES
    buffer,     \* [0 .. Capacity - 1 -> message]; a message is its number
    head,       \* messages written so far
    readers,    \* [registered IDs -> cursor]
    nextID,
    reads,      \* running iterators, the innermost last: [id, cursor, body]
    received,        \* history: [1 .. MaxReaders -> messages yielded]
    lapped,     \* history: IDs one of whose iterators was overtaken by the ring
    reentered,  \* history: IDs read inside their own iteration
    begun       \* history: reads started

channelHistory == <<received, lapped, reentered, begun>>
channelVars == <<buffer, head, readers, nextID, reads, channelHistory>>

IDs == 1 .. MaxReaders
Reading == {reads[k].id : k \in DOMAIN reads}

ChannelInit ==
    /\ buffer = [i \in 0 .. Capacity - 1 |-> 0]
    /\ head = 0 /\ nextID = 0
    /\ readers = <<>>
    /\ reads = <<>>
    /\ received = [id \in IDs |-> <<>>]
    /\ lapped = {} /\ reentered = {} /\ begun = 0

(* Systems act while no iterator runs, or in the body of the innermost. *)
InCaller == reads # <<>> => Last(reads).body

Write ==
    /\ InCaller /\ head < MaxMessages
    /\ buffer' = [buffer EXCEPT ![head % Capacity] = head + 1]
    /\ head' = head + 1
    /\ lapped' = lapped \cup {reads[k].id : k \in {j \in DOMAIN reads : head + 1 > reads[j].cursor + Capacity}}
    /\ UNCHANGED <<readers, nextID, reads, received, reentered, begun>>

RegisterReader ==
    /\ InCaller /\ nextID < MaxReaders
    /\ nextID' = nextID + 1
    /\ readers' = [id \in DOMAIN readers \cup {nextID + 1} |-> IF id \in DOMAIN readers THEN readers[id] ELSE head]
    /\ UNCHANGED <<buffer, head, reads, channelHistory>>

Stored(id, cursor) ==
    readers' = [i \in DOMAIN readers \cup {id} |-> IF i = id THEN cursor ELSE readers[i]]

UnregisterReader(id) ==
    /\ InCaller /\ id \in DOMAIN readers
    /\ readers' = [i \in DOMAIN readers \ {id} |-> readers[i]]
    /\ UNCHANGED <<buffer, head, nextID, reads, channelHistory>>

(* Mutant: an overtaken reader is not moved forward. *)
OldestKept(cursor) == cursor

(* The fast-forward at the start of a read. *)
OldestUnread(cursor) == IF head > cursor + Capacity THEN head - Capacity ELSE cursor

(* All() is ranged over; the read of an unknown reader ends at once. *)
Begin(id) ==
    /\ InCaller /\ Len(reads) < MaxDepth /\ begun < MaxReads
    /\ begun' = begun + 1
    /\ id \in DOMAIN readers
    /\ reads' = Append(reads, [id |-> id, cursor |-> OldestUnread(readers[id]), body |-> FALSE])
    /\ reentered' = IF id \in Reading THEN reentered \cup {id} ELSE reentered
    /\ UNCHANGED <<buffer, head, readers, nextID, received, lapped>>

Top == Last(reads)

(* The innermost iterator yields its next message to its body. *)
Yield ==
    /\ reads # <<>> /\ Top.cursor < head
    /\ received' = [received EXCEPT ![Top.id] = Append(@, buffer[Top.cursor % Capacity])]
    /\ reads' = [reads EXCEPT ![Len(reads)].cursor = @ + 1, ![Len(reads)].body = TRUE]
    /\ UNCHANGED <<buffer, head, readers, nextID, lapped, reentered, begun>>

(* It ends, because nothing is left or because its body breaks: the cursor *)
(* is written back.                                                        *)
End ==
    /\ reads # <<>>
    /\ Top.body \/ Top.cursor >= head
    /\ Stored(Top.id, Top.cursor)
    /\ reads' = Front(reads)
    /\ UNCHANGED <<buffer, head, nextID, channelHistory>>

ChannelNext ==
    \/ Write
    \/ RegisterReader
    \/ \E id \in IDs : UnregisterReader(id) \/ Begin(id)
    \/ Yield
    \/ End

ChannelSpec == ChannelInit /\ [][ChannelNext]_channelVars

-----------------------------------------------------------------------------
Increasing(s) == \A k \in 2 .. Len(s) : s[k - 1] < s[k]

(* channel.go:12-21.  A reader receives messages in the order they were    *)
(* written and none twice, as long as no body overtakes its own iterator   *)
(* with more writes than the ring holds, and no body reads the same reader *)
(* again.                                                                  *)
InOrderUnlessReentered ==
    \A id \in IDs \ (lapped \cup reentered) : Increasing(received[id])

(* channel.go:83-85, 109-111.  A cursor passes over a message only after   *)
(* the message was delivered to that reader, or overwritten, whatever the  *)
(* bodies do.                                                              *)
PassedOnlyWhenOverwritten ==
    \A id \in DOMAIN readers \cap DOMAIN readers' :
        \A m \in readers[id] + 1 .. readers'[id] :
            m \in ToSet(received'[id]) \/ m + Capacity <= head

(* channel.go:12-21, 83-111.  Both: what a reader reads, and what it can   *)
(* miss.                                                                   *)
RingReadsInOrder == [][InOrderUnlessReentered' /\ PassedOnlyWhenOverwritten]_channelVars

(* channel.go:20.  "Readers cannot rewind": no reader receives a message   *)
(* that is not newer than the ones it has.                                 *)
NeverRewinds == \A id \in IDs : Increasing(received[id])
=============================================================================
