-------------------------- MODULE ReliableChannel --------------------------
(***************************************************************************)
(* One direction of a reliable game channel of internal/net/transport: the *)
(* client's sending window, datagrams that may be lost, duplicated and     *)
(* reordered, and the server's acknowledgements, duplicate filter and      *)
(* reorder buffer.  It begins when the client has just received            *)
(* ConnectAccept: its ConnectAck is queued on the control channel, and the *)
(* server skips game frames until that has arrived.                        *)
(*                                                                         *)
(* Frames are acknowledged through the datagram that carried them last.    *)
(* Sequence numbers do not wrap within the bounds.                         *)
(***************************************************************************)
EXTENDS Integers, Sequences, FiniteSets, FiniteSetsExt, SequencesExt

CONSTANTS
    WinCap,       \* reliableSender.winCap (256 in the code)
    DedupWidth,   \* width of reliableReceiver.seen (64 in the code)
    AckWidth,     \* width of ackTracker.bits (32 in the code)
    Modes,        \* the delivery modes to consider
    MaxMsg,       \* bound: game messages that are accepted for sending
    MaxDatagram   \* bound: datagrams the client sends

ASSUME ChannelAssumption ==
    /\ WinCap \in Nat \ {0} /\ DedupWidth \in Nat \ {0} /\ AckWidth \in Nat \ {0}
    /\ Modes \subseteq {"ordered", "unordered"}
    /\ MaxMsg \in Nat /\ MaxDatagram \in Nat

VARIABLES
    mode,        \* the channel's delivery mode
    window,      \* the client's frames that are not acknowledged yet
    nextSeq,     \* sequence number of the next game message
    localSeq,    \* packet sequence of the client's next datagram
    datagrams,   \* what the client has put on the network
    acks,        \* the acknowledgements the server has put on the network
    open,        \* the server is in stateConnected
    track,       \* the server's ackTracker
    receiver,    \* the server's reliableReceiver of the game channel
    delivered,   \* the messages handed to the game, in order
    skipped, late, forgotten   \* history, see Receive

vars == <<mode, window, nextSeq, localSeq, datagrams, acks, open, track,
          receiver, delivered, skipped, late, forgotten>>
client == <<window, nextSeq, localSeq, datagrams>>
server == <<acks, open, track, receiver, delivered, skipped, late, forgotten>>

(* A frame of the window remembers the datagram it was last sent in. *)
Unsent == -1
Pending(ch, seq, dg) == [ch |-> ch, seq |-> seq, datagramSeq |-> dg]
ConnectAck == [ch |-> "control", seq |-> 0]
GameFrame(seq) == [ch |-> "game", seq |-> seq]
GameWindow == {f \in window : f.ch = "game"}

Init ==
    /\ mode \in Modes
    /\ window = {Pending("control", 0, Unsent)}
    /\ nextSeq = 0
    /\ localSeq = 1
    /\ datagrams = {} /\ acks = {}
    /\ open = FALSE
    /\ track = [base |-> 0, bits |-> {}]
    /\ receiver = [started |-> FALSE, highest |-> 0, seen |-> {}, expect |-> 0, reorder |-> {}]
    /\ delivered = <<>>
    /\ skipped = {} /\ late = {} /\ forgotten = {}

-----------------------------------------------------------------------------
(* queue accepts the next message unless the window is full; enqueueFrame  *)
(* ignores the refusal, so a message refused is never numbered nor sent.   *)
Queue ==
    /\ nextSeq < MaxMsg
    /\ Cardinality(GameWindow) < WinCap
    /\ window' = window \cup {Pending("game", nextSeq, Unsent)}
    /\ nextSeq' = nextSeq + 1
    /\ UNCHANGED <<mode, localSeq, datagrams, server>>

(* due: the frames never sent, and those of which the retransmission       *)
(* timeout has elapsed: the ones sent up to a moment, another moment for   *)
(* each channel.                                                           *)
Due(upTo) == {f \in window : f.datagramSeq = Unsent \/ f.datagramSeq <= upTo[f.ch]}

(* Mutant: setDatagramSeq is forgotten, so a frame keeps the placeholder   *)
(* of due, its own message number.                                         *)
TickPlaceholder(upTo) ==
    /\ localSeq <= MaxDatagram
    /\ datagrams' = datagrams \cup
           {[seq |-> localSeq, frames |-> {[ch |-> f.ch, seq |-> f.seq] : f \in Due(upTo)}]}
    /\ window' = {IF f \in Due(upTo) THEN [f EXCEPT !.datagramSeq = f.seq] ELSE f : f \in window}
    /\ localSeq' = localSeq + 1
    /\ UNCHANGED <<mode, nextSeq, server>>

(* tickConns: everything that is due leaves in one datagram, whose packet  *)
(* sequence its frames are marked with.  Without any it is a heartbeat.    *)
Tick(upTo) ==
    /\ localSeq <= MaxDatagram
    /\ datagrams' = datagrams \cup
           {[seq |-> localSeq, frames |-> {[ch |-> f.ch, seq |-> f.seq] : f \in Due(upTo)}]}
    /\ window' = {IF f \in Due(upTo) THEN [f EXCEPT !.datagramSeq = localSeq] ELSE f : f \in window}
    /\ localSeq' = localSeq + 1
    /\ UNCHANGED <<mode, nextSeq, server>>

(* acked *)
Acked(a, seq) == seq = a.base \/ a.base - seq \in a.bits

(* onAck of an acknowledgement that arrives now. *)
OnAck(a) ==
    /\ a \in acks
    /\ window' = {f \in window : f.datagramSeq = Unsent \/ ~Acked(a, f.datagramSeq)}
    /\ UNCHANGED <<mode, nextSeq, localSeq, datagrams, server>>

-----------------------------------------------------------------------------
(* A bit field of the given width below a highest sequence number, moved   *)
(* up by `shift`: a jump of the whole width clears it, the old highest     *)
(* number included.                                                        *)
Shifted(bits, shift, width) ==
    IF shift >= width THEN {} ELSE {d + shift : d \in {b \in bits : b + shift <= width}} \cup {shift}

(* onReceived *)
OnReceived(t, seq) ==
    IF seq > t.base THEN [base |-> seq, bits |-> Shifted(t.bits, seq - t.base, AckWidth)]
    ELSE [t EXCEPT !.bits = @ \cup ({t.base - seq} \cap (1 .. AckWidth))]

(* isDuplicate: what is older than the window counts as seen. *)
IsDuplicate(r, seq) ==
    /\ r.started
    /\ seq <= r.highest
    /\ seq = r.highest \/ r.highest - seq > DedupWidth \/ r.highest - seq \in r.seen

(* markSeen *)
MarkSeen(r, seq) ==
    IF ~r.started THEN [r EXCEPT !.started = TRUE, !.highest = seq, !.seen = {}]
    ELSE IF seq > r.highest
         THEN [r EXCEPT !.highest = seq, !.seen = Shifted(@, seq - r.highest, DedupWidth)]
         ELSE [r EXCEPT !.seen = @ \cup ({r.highest - seq} \cap (1 .. DedupWidth))]

(* The contiguous run that can be released from the reorder buffer. *)
Run(r) == {k \in r.reorder : r.expect .. k \subseteq r.reorder /\ k >= r.expect}

(* The numbers of a set, the lowest first. *)
Ascending(S) == [i \in 1 .. Cardinality(S) |-> CHOOSE k \in S : Cardinality({j \in S : j < k}) = i - 1]

(* receive of one game frame, in a state st of the server's game channel:  *)
(* the receiver, what it has delivered to the game, and the history of     *)
(* frames refused as too old though they had never arrived (late) and of   *)
(* old highest frames that a jump by the filter's exact width unmarked     *)
(* while they are still within it (forgotten).                             *)
ArrivedIn(st) == Range(st.out) \cup st.r.reorder

ReceiveFrame(st, seq) ==
    IF IsDuplicate(st.r, seq) THEN [st EXCEPT !.late = @ \cup ({seq} \ ArrivedIn(st))]
    ELSE LET marked == MarkSeen(st.r, seq)
             buffered == [marked EXCEPT !.reorder = @ \cup {seq}]
             run == Run(buffered)
             gone == {k \in {st.r.highest} \cap ArrivedIn(st) : k + DedupWidth = marked.highest}
         IN [r |-> IF mode = "unordered" THEN marked
                   ELSE [buffered EXCEPT !.reorder = @ \ run, !.expect = @ + Cardinality(run)],
             out |-> IF mode = "unordered" THEN Append(st.out, seq)
                     ELSE st.out \o Ascending(run),
             late |-> st.late,
             forgotten |-> st.forgotten \cup gone]

GameChannel == [r |-> receiver, out |-> delivered, late |-> late, forgotten |-> forgotten]

(* pass 2 of processInbound: the frames in turn. *)
ReceiveFrames(seqs) ==
    LET st[i \in 0 .. Len(seqs)] == IF i = 0 THEN GameChannel ELSE ReceiveFrame(st[i - 1], seqs[i])
    IN  st[Len(seqs)]

GameSeqs(d) == {f.seq : f \in {g \in d.frames : g.ch = "game"}}

(* processInbound: the datagram counts as received; a ConnectAck in it     *)
(* opens the connection before its game frames are looked at, and while    *)
(* the connection is not open they are skipped.                            *)
Receive(d) ==
    LET opens == open \/ ConnectAck \in d.frames
        st == ReceiveFrames(Ascending(GameSeqs(d)))
    IN
    /\ d \in datagrams
    /\ track' = OnReceived(track, d.seq)
    /\ open' = opens
    /\ IF opens
       THEN /\ receiver' = st.r
            /\ delivered' = st.out
            /\ late' = st.late
            /\ forgotten' = st.forgotten
            /\ UNCHANGED skipped
       ELSE /\ skipped' = skipped \cup GameSeqs(d)
            /\ UNCHANGED <<receiver, delivered, late, forgotten>>
    /\ UNCHANGED <<mode, client, acks>>

(* Any datagram of the server carries its acknowledgement: heartbeats and  *)
(* traffic once it is open, retransmissions of ConnectAccept before.       *)
SendAck ==
    /\ acks' = acks \cup {track}
    /\ UNCHANGED <<mode, client, open, track, receiver, delivered, skipped, late, forgotten>>

Next ==
    \/ Queue
    \/ \E upTo \in [{"control", "game"} -> 0 .. localSeq - 1] : Tick(upTo)
    \/ \E a \in acks : OnAck(a)
    \/ \E d \in datagrams : Receive(d)
    \/ SendAck

Spec == Init /\ [][Next]_vars

-----------------------------------------------------------------------------
(* The window, the trackers and the receiver have their declared shape. *)
TypeOK ==
    /\ Cardinality(GameWindow) <= WinCap
    /\ nextSeq \in 0 .. MaxMsg
    /\ \A f \in window : f.datagramSeq \in {Unsent} \cup (1 .. MaxDatagram)
    /\ track.base \in 0 .. MaxDatagram /\ track.bits \subseteq 1 .. AckWidth
    /\ receiver.highest \in 0 .. MaxMsg /\ receiver.seen \subseteq 1 .. DedupWidth
    /\ receiver.reorder \subseteq 0 .. MaxMsg - 1
    /\ Range(delivered) \subseteq 0 .. MaxMsg - 1

(* l1-transport INV-2 (transport.go:33, "exactly-once, in send order").    *)
(* Whatever the network loses, repeats or reorders, the game sees the      *)
(* messages from the first one on, in order and without a gap.             *)
InOrder == mode = "ordered" => \A i \in 1 .. Len(delivered) : delivered[i] = i - 1

(* l1-transport INV-3 (transport.go:31, "exactly-once, any order").  A     *)
(* message is delivered twice only if it was the highest one when the      *)
(* numbers jumped by exactly the width of the filter.                      *)
AtMostOnce ==
    \A i, j \in 1 .. Len(delivered) :
        i # j /\ delivered[i] = delivered[j] => delivered[i] \in forgotten

(* A frame leaves the sender's window only when it has arrived.  There are *)
(* two exceptions in the code: a frame acknowledged although it was        *)
(* skipped, and one that fell behind the duplicate filter.                 *)
NothingLost ==
    \A k \in 0 .. nextSeq - 1 :
        \/ k \in {f.seq : f \in GameWindow}
        \/ k \in ArrivedIn(GameChannel)
        \/ k \in skipped \cup late

(* transport.go:28-34.  The two reliable modes: exactly once, in order for *)
(* the ordered one.                                                        *)
ReliableDelivery == InOrder /\ AtMostOnce /\ NothingLost

(* udp.go:614-616: game frames are skipped while connecting so that they   *)
(* are not "lost permanently".                                             *)
SkippedNotLost ==
    \A k \in skipped \ late : k \in {f.seq : f \in GameWindow} \/ k \in ArrivedIn(GameChannel)
=============================================================================
