------------------------ MODULE NetworkManager_proofs ------------------------
(***************************************************************************)
(* Proofs about the network managers: their types and the consistency of   *)
(* the socket tables, that nothing is handled that the peer has not sent,  *)
(* and what two nodes may rely on while they have one connection.          *)
(***************************************************************************)
EXTENDS NetworkManager, SequenceTheorems, TLAPS

-----------------------------------------------------------------------------
(* The inductive invariant: types and sockets *)

Socket == Connection \cup {NoSocket}
Peers == [from : Node, to : Node]

Shape ==
  /\ sockets_by_id \in [Node -> [Node -> Socket]]
  /\ length_buffers \in [Node -> [Node -> Word]]
  /\ incoming_message_buffers \in [Node -> [Node -> Seq(Word)]]
  /\ stopped \subseteq Node
  /\ handlers \in [Node -> Seq(Completion)]
  /\ pending \in [Connection -> [Node -> Seq(Read)]]
  /\ connections \in Seq(Peers)
  /\ ends \in [Connection -> SUBSET Node]
  /\ arriving \in [Connection -> [Node -> Seq(Word)]]
  /\ backlog \in [Node -> Seq(Connection)]
  /\ broken \subseteq Connection
  /\ unsent \subseteq Traffic
  /\ sent \in [Node -> [Node -> Seq(Sent)]]
  /\ handled \in [Node -> [Node -> Seq(Sent \cup {Misread})]]

made == 1 .. Len(connections)

\* The connection has this node at one of its ends.
joins(c, n) == c \in made /\ n \in {connections[c].from, connections[c].to}

ConnectionsInv ==
  /\ made \subseteq Connection
  /\ broken \subseteq made
  /\ \A c \in made : connections[c].from # connections[c].to

\* An entry is a socket that is open here, of a connection with the peer.
EntryInv(n, p) ==
  sockets_by_id[n][p] # NoSocket =>
    /\ joins(sockets_by_id[n][p], n)
    /\ n \in ends[sockets_by_id[n][p]]
    /\ peer_of(sockets_by_id[n][p], n) = p

\* Reads wait on entries only, and one of a size is for one word.
ReadsInv(c, n) ==
  /\ pending[c][n] # <<>> => joins(c, n) /\ sockets_by_id[n][peer_of(c, n)] = c
  /\ arriving[c][n] # <<>> => joins(c, n)
  /\ \A i \in 1 .. Len(pending[c][n]) :
       pending[c][n][i].op = "size" => pending[c][n][i].words = 1

\* What waits to be accepted is open at this end and no entry yet.
BacklogInv(n) ==
  /\ \A i \in 1 .. Len(backlog[n]) :
       /\ backlog[n][i] \in made
       /\ connections[backlog[n][i]].to = n
       /\ n \in ends[backlog[n][i]]
       /\ sockets_by_id[n][connections[backlog[n][i]].from] # backlog[n][i]
  /\ \A i, j \in 1 .. Len(backlog[n]) : backlog[n][i] = backlog[n][j] => i = j

TableInv ==
  /\ \A n, p \in Node : EntryInv(n, p)
  /\ \A c \in Connection, n \in Node : ReadsInv(c, n)
  /\ \A n \in Node : BacklogInv(n)

SocketsInv == Shape /\ ConnectionsInv /\ TableInv

-----------------------------------------------------------------------------
(* Where messages may be *)

\* The messages among these words are in the set.
within(w, S) ==
  \A i \in 1 .. Len(w) : w[i].is = "message" => w[i].value \in S

ArrivingInv(c, n) ==
  arriving[c][n] # <<>> => within(arriving[c][n], Range(sent[peer_of(c, n)][n]))

BuffersInv(n, p) ==
  /\ length_buffers[n][p].is = "message" =>
       length_buffers[n][p].value \in Range(sent[p][n])
  /\ within(incoming_message_buffers[n][p], Range(sent[p][n]))
  /\ Range(handled[n][p]) \subseteq Range(sent[p][n]) \cup {Misread}

MessagesInv ==
  /\ \A c \in Connection, n \in Node : ArrivingInv(c, n)
  /\ \A n, p \in Node : BuffersInv(n, p)

-----------------------------------------------------------------------------
(* Two nodes with one connection *)

\* What p sent to n first, and the body of its frame.
is_first(s, n, p) ==
  /\ s \in Traffic \ unsent /\ s.from = p /\ s.to = n /\ s.overload # "PingMessage"
  /\ IsPrefix(s.messages, sent[p][n])
body(s) == <<num_messages(Len(s.messages))>> \o words(s.messages)

begins(w, beginning) ==
  Len(beginning) <= Len(w) /\ \A i \in 1 .. Len(beginning) : w[i] = beginning[i]

\* A read from p has succeeded and its completion at n is still to run; there is
\* at most one such.
read_from(n, p) ==
  {k \in 1 .. Len(handlers[n]) : /\ handlers[n][k].peer = p /\ ~handlers[n][k].error
                                 /\ handlers[n][k].op # "write"}
has_read(n, p, op) == \E k \in read_from(n, p) : handlers[n][k].op = op
one_read(n, p) == \A k, l \in read_from(n, p) : k = l
waiting(c, n) == \E i \in 1 .. Len(backlog[n]) : backlog[n][i] = c
reads(c, n, op) == pending[c][n] # <<>> /\ pending[c][n][1].op = op

\* At the end that accepts the connection one thing at a time is under way: the
\* accept, the read of the size, its handler, the read of the body, its handler.
StageInv(c, n, p) ==
  /\ Len(pending[c][n]) <= 1
  /\ read_from(n, p) # {} => pending[c][n] = <<>>
  /\ waiting(c, n) => pending[c][n] = <<>> /\ read_from(n, p) = {}
  /\ waiting(c, n) \/ pending[c][n] # <<>> \/ read_from(n, p) # {} => handled[n][p] = <<>>
  /\ connections[c].from = n =>
       pending[c][n] = <<>> /\ read_from(n, p) = {} /\ handled[n][p] = <<>>

\* Before the size is read the first frame is the first thing to arrive; nothing
\* arrives if p has sent nothing or cannot send.
UnreadInv(c, n, p) ==
  \/ arriving[c][n] = <<>> /\ (sent[p][n] = <<>> \/ c \in broken \/ n \notin ends[c])
  \/ \E s \in Traffic : is_first(s, n, p)
                        /\ begins(arriving[c][n], <<size(Len(body(s)))>> \o body(s))

\* And what is read of it is the size, then the body.
FrameInv(c, n, p) ==
  /\ waiting(c, n) \/ connections[c].from = n \/ reads(c, n, "size") => UnreadInv(c, n, p)
  /\ reads(c, n, "body") =>
       \E s \in Traffic : /\ is_first(s, n, p)
                          /\ begins(arriving[c][n], body(s))
                          /\ pending[c][n][1].words = Len(body(s))
                          /\ Len(incoming_message_buffers[n][p]) = Len(body(s))
  /\ has_read(n, p, "size") =>
       \E s \in Traffic : /\ is_first(s, n, p)
                          /\ begins(arriving[c][n], body(s))
                          /\ length_buffers[n][p] = size(Len(body(s)))
  /\ has_read(n, p, "body") =>
       \E s \in Traffic : is_first(s, n, p) /\ incoming_message_buffers[n][p] = body(s)

Understood(n, p) ==
  /\ connections_of(n, p) = {} =>
       read_from(n, p) = {} /\ handled[n][p] = <<>> /\ sent[p][n] = <<>>
  /\ one_read(n, p)
  /\ \A c \in connections_of(n, p) : StageInv(c, n, p) /\ FrameInv(c, n, p)
  /\ \/ handled[n][p] = <<>>
     \/ \E s \in Traffic : is_first(s, n, p) /\ handled[n][p] = s.messages

OneConnectionInv ==
  \A n \in Node \ {UTILITY_NODE_ID}, p \in Node :
    one_connection(n, p) /\ ~pinged(n, p) => Understood(n, p)

IInv == SocketsInv /\ MessagesInv /\ OneConnectionInv
-----------------------------------------------------------------------------
(* Types *)

LEMMA SendType ==
  ASSUME NEW s \in Traffic
  PROVE  /\ s.from \in Node /\ s.to \in Node /\ s.from # s.to
         /\ s.messages \in Seq(Sent) /\ s.messages # <<>>
<1>1. s.messages \in Seq(Range(s.messages)) /\ s.messages # <<>>
  BY TrafficAssumption
<1>2. Range(s.messages) \subseteq Sent
  BY DEF Sent
<1>3. s.messages \in Seq(Sent)
  BY <1>1, <1>2, SeqMonotonic
<1> QED
  BY <1>1, <1>3, TrafficAssumption

LEMMA BufferType ==
  ASSUME NEW s \in Traffic PROVE send_buffer(s) \in Seq(Word)
<1>1. s.messages \in Seq(Sent)
  BY SendType
<1>2. Len(s.messages) \in Nat /\ DOMAIN s.messages = 1 .. Len(s.messages)
  BY <1>1
<1>3. words(s.messages) \in Seq(Word)
  <2>1. \A i \in 1 .. Len(s.messages) : message(s.messages[i]) \in Word
    BY <1>1 DEF message, Word
  <2> QED
    BY <1>2, <2>1 DEF words
<1>4. \A k \in Nat : size(k) \in Word /\ num_messages(k) \in Word
  BY DEF size, num_messages, Word
<1> DEFINE header == IF has_header(s) THEN <<num_messages(Len(s.messages))>> ELSE <<>>
<1>5. header \in Seq(Word)
  BY <1>2, <1>4
<1>6. header \o words(s.messages) \in Seq(Word)
  BY <1>3, <1>5
<1>7. Len(header \o words(s.messages)) \in Nat
  BY <1>6
<1>8. <<size(Len(header \o words(s.messages)))>> \in Seq(Word)
  BY <1>4, <1>7
<1>9. <<size(1)>> \in Seq(Word)
  BY <1>4
<1> QED
  BY <1>6, <1>8, <1>9 DEF send_buffer

LEMMA StoredType ==
  ASSUME NEW data \in Seq(Word), NEW buffer \in Seq(Word)
  PROVE  stored(data, buffer) \in Seq(Word) /\ Len(stored(data, buffer)) = Len(buffer)
<1>1. \A i \in 1 .. Len(buffer) :
        (IF i <= Len(data) THEN data[i] ELSE buffer[i]) \in Word
  OBVIOUS
<1>2. DOMAIN buffer = 1 .. Len(buffer) /\ Len(buffer) \in Nat
  OBVIOUS
<1> QED
  BY <1>1, <1>2 DEF stored

LEMMA ResizeType ==
  ASSUME NEW buffer \in Seq(Word), NEW k \in Nat
  PROVE  resize(buffer, k) \in Seq(Word) /\ Len(resize(buffer, k)) = k
<1>1. zero \in Word
  BY DEF zero, Word
<1>2. \A i \in 1 .. k : (IF i <= Len(buffer) THEN buffer[i] ELSE zero) \in Word
  BY <1>1
<1> QED
  BY <1>2 DEF resize

LEMMA ReceiveType ==
  ASSUME NEW w \in Seq(Word)
  PROVE  receive_message(w) \in Seq(Sent \cup {Misread})
<1>1. <<Misread>> \in Seq(Sent \cup {Misread})
  OBVIOUS
<1>2. CASE /\ w # <<>> /\ \A i \in 2 .. Len(w) : w[i].is = "message"
  <2>1. \A i \in 1 .. Len(w) - 1 : w[i + 1].value \in Sent
    <3> TAKE i \in 1 .. Len(w) - 1
    <3>1. i + 1 \in 2 .. Len(w) /\ w[i + 1] \in Word /\ w[i + 1].is = "message"
      BY <1>2
    <3> QED
      BY <3>1 DEF Word
  <2>2. Len(w) - 1 \in Nat
    BY <1>2
  <2>3. [i \in 1 .. Len(w) - 1 |-> w[i + 1].value] \in Seq(Sent \cup {Misread})
    BY <2>1, <2>2
  <2> QED
    BY <1>1, <2>3 DEF receive_message
<1>3. CASE ~(w # <<>> /\ \A i \in 2 .. Len(w) : w[i].is = "message")
  BY <1>1, <1>3 DEF receive_message
<1> QED
  BY <1>2, <1>3

LEMMA CompletionType ==
  ASSUME NEW op \in {"size", "body", "write"}, NEW p \in Node, NEW error \in BOOLEAN
  PROVE  completion(op, p, error) \in Completion
BY DEF completion, Completion

\* The peer at the other end of a connection.
LEMMA PeerType ==
  ASSUME Shape, ConnectionsInv, NEW c, NEW n \in Node, joins(c, n)
  PROVE  /\ peer_of(c, n) \in Node /\ peer_of(c, n) # n /\ c \in Connection
         /\ {connections[c].from, connections[c].to} = {n, peer_of(c, n)}
<1>1. c \in made /\ connections[c] \in Peers
  BY DEF joins, Shape, made
<1>2. connections[c].from \in Node /\ connections[c].to \in Node
  BY <1>1 DEF Peers
<1>3. connections[c].from # connections[c].to /\ c \in Connection
  BY <1>1 DEF ConnectionsInv
<1> QED
  BY <1>2, <1>3 DEF peer_of, joins

LEMMA CancelledType ==
  ASSUME Shape, ConnectionsInv, NEW c \in Connection, NEW n \in Node, joins(c, n)
  PROVE  cancelled(c, n) \in Seq(Completion)
<1>1. pending[c][n] \in Seq(Read)
  BY DEF Shape
<1>2. \A i \in 1 .. Len(pending[c][n]) :
        completion(pending[c][n][i].op, peer_of(c, n), TRUE) \in Completion
  <2> TAKE i \in 1 .. Len(pending[c][n])
  <2>0. pending[c][n][i] \in Read
    BY <1>1
  <2>1. pending[c][n][i].op \in {"size", "body"}
    BY <2>0 DEF Read
  <2>2. peer_of(c, n) \in Node
    BY PeerType
  <2> QED
    BY <2>1, <2>2, CompletionType
<1>3. DOMAIN pending[c][n] = 1 .. Len(pending[c][n]) /\ Len(pending[c][n]) \in Nat
  BY <1>1
<1> DEFINE k == Len(pending[c][n])
           f(i) == completion(pending[c][n][i].op, peer_of(c, n), TRUE)
<1>4. k \in Nat /\ \A i \in 1 .. k : f(i) \in Completion
  BY <1>2, <1>3
<1>5. [i \in 1 .. k |-> f(i)] \in Seq(Completion)
  <2> HIDE DEF f, k
  <2> QED
    BY <1>4
<1> QED
  BY <1>3, <1>5 DEF cancelled

-----------------------------------------------------------------------------
(* Sockets *)

LEMMA SameConnections ==
  ASSUME connections' = connections
  PROVE  /\ made' = made
         /\ \A c, n : joins(c, n)' = joins(c, n) /\ peer_of(c, n)' = peer_of(c, n)
BY DEF made, joins, peer_of

\* Closing a socket takes it out of the table with the reads that wait on it.
LEMMA EraseSockets ==
  ASSUME SocketsInv, NEW n \in Node, NEW p \in Node, NEW done \in Seq(Completion),
         erase(n, p, done),
         UNCHANGED <<length_buffers, incoming_message_buffers, stopped, connections,
                     arriving, backlog, broken>>,
         unsent' \subseteq Traffic, sent' \in [Node -> [Node -> Seq(Sent)]],
         handled' = handled
  PROVE  SocketsInv'
<1> DEFINE c == sockets_by_id[n][p]
<1>0. Shape /\ ConnectionsInv /\ TableInv
  BY DEF SocketsInv
<1>a. made' = made /\ ConnectionsInv'
  BY <1>0 DEF ConnectionsInv, made
<1>b. \A d, m : joins(d, m)' = joins(d, m) /\ peer_of(d, m)' = peer_of(d, m)
  BY SameConnections
<1>1. CASE c = NoSocket
  <2>1. UNCHANGED <<sockets_by_id, ends, pending>> /\ handlers' = [handlers EXCEPT ![n] = done]
    BY <1>1 DEF erase
  <2>2. Shape'
    BY <1>0, <2>1 DEF Shape
  <2>3. TableInv'
    BY <1>0, <2>1 DEF TableInv, EntryInv, ReadsInv, BacklogInv, made, joins, peer_of
  <2> QED
    BY <1>a, <2>2, <2>3 DEF SocketsInv
<1>2. CASE c # NoSocket
  <2>1. /\ sockets_by_id' = [sockets_by_id EXCEPT ![n][p] = NoSocket]
        /\ ends' = [ends EXCEPT ![c] = @ \ {n}]
        /\ pending' = [pending EXCEPT ![c][n] = <<>>]
        /\ handlers' = [handlers EXCEPT ![n] = done \o cancelled(c, n)]
    BY <1>2 DEF erase
  <2>2a. joins(c, n) /\ n \in ends[c] /\ peer_of(c, n) = p
    BY <1>0, <1>2 DEF TableInv, EntryInv
  <2>2. joins(c, n) /\ n \in ends[c] /\ peer_of(c, n) = p /\ c \in Connection
    BY <1>0, <2>2a, PeerType
  <2>3. done \o cancelled(c, n) \in Seq(Completion)
    BY <1>0, <2>2, CancelledType
  <2>4. Shape'
    <3>1. sockets_by_id' \in [Node -> [Node -> Socket]]
      BY <1>0, <2>1 DEF Shape, Socket
    <3>2. ends' \in [Connection -> SUBSET Node]
      BY <1>0, <2>1, <2>2 DEF Shape
    <3>3. pending' \in [Connection -> [Node -> Seq(Read)]]
      <4>1. <<>> \in Seq(Read) /\ pending \in [Connection -> [Node -> Seq(Read)]]
        BY <1>0 DEF Shape
      <4> QED
        BY <2>1, <4>1
    <3> QED
      BY <1>0, <2>1, <2>3, <3>1, <3>2, <3>3 DEF Shape
  <2>a. sockets_by_id \in [Node -> [Node -> Socket]] /\ ends \in [Connection -> SUBSET Node]
    BY <1>0 DEF Shape
  <2>b. /\ \A m, q \in Node : sockets_by_id'[m][q] = IF m = n /\ q = p THEN NoSocket ELSE sockets_by_id[m][q]
        /\ \A d \in Connection : ends'[d] = IF d = c THEN ends[d] \ {n} ELSE ends[d]
    BY <2>1, <2>a
  <2>c. \A d \in Connection, m \in Node : pending'[d][m] = IF d = c /\ m = n THEN <<>> ELSE pending[d][m]
    BY <1>0, <2>1 DEF Shape
  <2>5. ASSUME NEW m \in Node, NEW q \in Node PROVE EntryInv(m, q)'
    <3> SUFFICES ASSUME sockets_by_id'[m][q] # NoSocket
                 PROVE  EntryInv(m, q)'
      BY DEF EntryInv
    <3> DEFINE d == sockets_by_id[m][q]
    <3>1. sockets_by_id'[m][q] = d /\ ~(m = n /\ q = p) /\ d # NoSocket
      BY <2>b
    <3>2. joins(d, m) /\ m \in ends[d] /\ peer_of(d, m) = q
      BY <1>0, <3>1 DEF EntryInv, TableInv
    <3>3. d \in Connection
      BY <1>0, <3>2, PeerType
    <3>4. m \in ends'[d]
      BY <2>b, <2>2, <3>1, <3>2, <3>3
    <3> QED
      BY <1>b, <3>1, <3>2, <3>4 DEF EntryInv
  <2>6. ASSUME NEW d \in Connection, NEW m \in Node PROVE ReadsInv(d, m)'
    <3>0. ReadsInv(d, m)
      BY <1>0 DEF TableInv
    <3>1. CASE d = c /\ m = n
      BY <1>b, <2>c, <3>0, <3>1 DEF ReadsInv
    <3>2. CASE ~(d = c /\ m = n)
      <4>1. pending'[d][m] = pending[d][m]
        BY <2>c, <3>2
      <4>2. pending[d][m] # <<>> => joins(d, m) /\ sockets_by_id[m][peer_of(d, m)] = d
        BY <3>0 DEF ReadsInv
      <4>3. pending[d][m] # <<>> => peer_of(d, m) \in Node
        BY <1>0, <4>2, PeerType
      <4>4. pending[d][m] # <<>> => sockets_by_id'[m][peer_of(d, m)] = d
        BY <2>b, <3>2, <4>2, <4>3
      <4> QED
        BY <1>b, <3>0, <4>1, <4>2, <4>4 DEF ReadsInv
    <3> QED
      BY <3>1, <3>2
  <2>7. ASSUME NEW m \in Node PROVE BacklogInv(m)'
    <3>0. BacklogInv(m)
      BY <1>0 DEF TableInv
    <3>1. ASSUME NEW i \in 1 .. Len(backlog[m])
          PROVE  /\ m \in ends'[backlog[m][i]]
                 /\ sockets_by_id'[m][connections[backlog[m][i]].from] # backlog[m][i]
      <4> DEFINE b == backlog[m][i]
      <4>1. /\ b \in made /\ connections[b].to = m /\ m \in ends[b]
            /\ sockets_by_id[m][connections[b].from] # b
        BY <3>0 DEF BacklogInv
      <4>2. joins(b, m) /\ peer_of(b, m) = connections[b].from
        BY <4>1 DEF joins, peer_of
      <4>3a. b \in Connection /\ peer_of(b, m) \in Node
        BY <1>0, <4>2, PeerType
      <4>3. b \in Connection /\ connections[b].from \in Node
        BY <4>2, <4>3a
      <4>4. ~(b = c /\ m = n)
        BY <2>2, <4>1, <4>2
      <4>5. NoSocket # b
        BY <4>3, ValuesAssumption
      <4> QED
        BY <2>b, <4>1, <4>3, <4>4, <4>5
    <3> QED
      BY <1>a, <3>0, <3>1 DEF BacklogInv
  <2>8. TableInv'
    BY <2>5, <2>6, <2>7 DEF TableInv
  <2> QED
    BY <1>a, <2>4, <2>8 DEF SocketsInv
<1> QED
  BY <1>1, <1>2

\* A step that leaves the table, the connections and the backlog as they are.
LEMMA TableKept ==
  ASSUME SocketsInv, Shape', broken' \subseteq made,
         UNCHANGED <<sockets_by_id, connections, ends, backlog>>,
         \A c \in Connection, n \in Node : ReadsInv(c, n)'
  PROVE  SocketsInv'
<1>1. ConnectionsInv' /\ made' = made
  BY DEF SocketsInv, ConnectionsInv, made
<1>2. ASSUME NEW n \in Node, NEW p \in Node PROVE EntryInv(n, p)'
  <2>1. EntryInv(n, p)
    BY DEF SocketsInv, TableInv
  <2> QED
    BY <2>1 DEF EntryInv, joins, peer_of, made
<1>3. ASSUME NEW n \in Node PROVE BacklogInv(n)'
  <2>1. BacklogInv(n)
    BY DEF SocketsInv, TableInv
  <2> QED
    BY <1>1, <2>1 DEF BacklogInv
<1> QED
  BY <1>1, <1>2, <1>3 DEF SocketsInv, TableInv

\* And the reads that wait too.
LEMMA SocketsKept ==
  ASSUME SocketsInv, Shape', broken' \subseteq made,
         UNCHANGED <<sockets_by_id, connections, ends, backlog, pending>>,
         \A c \in Connection, n \in Node : arriving'[c][n] # <<>> => joins(c, n)
  PROVE  SocketsInv'
<1>1. ASSUME NEW c \in Connection, NEW n \in Node PROVE ReadsInv(c, n)'
  <2>1. ReadsInv(c, n)
    BY DEF SocketsInv, TableInv
  <2>2. joins(c, n)' = joins(c, n) /\ peer_of(c, n)' = peer_of(c, n)
    BY SameConnections
  <2> QED
    BY <2>1, <2>2 DEF ReadsInv
<1> QED
  BY <1>1, TableKept

\* A read is started on an entry.
LEMMA ReadStarts ==
  ASSUME SocketsInv, NEW n \in Node, NEW p \in Node,
         NEW op \in {"size", "body"}, NEW k \in Nat, op = "size" => k = 1,
         sockets_by_id[n][p] # NoSocket, start_read(sockets_by_id[n][p], n, op, k),
         UNCHANGED <<sockets_by_id, connections, arriving>>
  PROVE  /\ \A c \in Connection, m \in Node : ReadsInv(c, m)'
         /\ pending' \in [Connection -> [Node -> Seq(Read)]]
<1> DEFINE c == sockets_by_id[n][p]
<1>1. joins(c, n) /\ peer_of(c, n) = p
  BY DEF SocketsInv, TableInv, EntryInv
<1>2. c \in Connection
  BY <1>1, PeerType DEF SocketsInv
<1>3. pending \in [Connection -> [Node -> Seq(Read)]]
  BY DEF SocketsInv, Shape
<1>4. pending'[c][n] = Append(pending[c][n], [op |-> op, words |-> k])
  BY <1>2, <1>3 DEF start_read
<1>5. \A d \in Connection, m \in Node : ~(d = c /\ m = n) => pending'[d][m] = pending[d][m]
  BY <1>2, <1>3 DEF start_read
<1>6. ASSUME NEW d \in Connection, NEW m \in Node PROVE ReadsInv(d, m)'
  <2>1. ReadsInv(d, m)
    BY DEF SocketsInv, TableInv
  <2>2. joins(d, m)' = joins(d, m) /\ peer_of(d, m)' = peer_of(d, m)
    BY SameConnections
  <2>3. CASE d = c /\ m = n
    <3>1. \A i \in 1 .. Len(pending'[c][n]) :
            pending'[c][n][i].op = "size" => pending'[c][n][i].words = 1
      <4>1. pending[c][n] \in Seq(Read)
        BY <1>2, <1>3
      <4>2. \A i \in 1 .. Len(pending[c][n]) :
              pending[c][n][i].op = "size" => pending[c][n][i].words = 1
        BY <2>1, <2>3 DEF ReadsInv
      <4> DEFINE q == pending[c][n]
                 new == [op |-> op, words |-> k]
      <4>3. pending'[c][n] = Append(q, new)
        BY <1>4
      <4>4. q \in Seq(Read) /\ new.op = op /\ new.words = k
        BY <4>1
      <4> HIDE DEF q, new
      <4>5. Len(q) \in Nat /\ Len(Append(q, new)) = Len(q) + 1
        BY <4>4
      <4>6. \A i \in 1 .. Len(q) + 1 : Append(q, new)[i] = IF i <= Len(q) THEN q[i] ELSE new
        BY <4>4
      <4>7. ASSUME NEW i \in 1 .. Len(q) + 1, Append(q, new)[i].op = "size"
            PROVE  Append(q, new)[i].words = 1
        <5>1. CASE i <= Len(q)
          <6>1. Append(q, new)[i] = q[i] /\ i \in 1 .. Len(q)
            BY <4>5, <4>6, <5>1
          <6> QED
            BY <4>2, <4>7, <6>1 DEF q
        <5>2. CASE ~(i <= Len(q))
          <6>1. Append(q, new)[i] = new
            BY <4>5, <4>6, <5>2
          <6> QED
            BY <4>4, <4>7, <6>1
        <5> QED
          BY <5>1, <5>2
      <4> QED
        BY <4>3, <4>5, <4>7
    <3> QED
      BY <1>1, <2>1, <2>2, <2>3, <3>1 DEF ReadsInv
  <2>4. CASE ~(d = c /\ m = n)
    BY <1>5, <2>1, <2>2, <2>4 DEF ReadsInv
  <2> QED
    BY <2>3, <2>4
<1>7. pending' \in [Connection -> [Node -> Seq(Read)]]
  <2>1. [op |-> op, words |-> k] \in Read /\ pending[c][n] \in Seq(Read)
    BY <1>2, <1>3 DEF Read
  <2>2. Append(pending[c][n], [op |-> op, words |-> k]) \in Seq(Read)
    BY <2>1
  <2> QED
    BY <1>2, <1>3, <2>2 DEF start_read
<1> QED
  BY <1>6, <1>7

\* A connection keeps its number and its ends.
LEMMA ConnectionsGrow ==
  ASSUME Shape, NEW k \in Peers, connections' = Append(connections, k)
  PROVE  /\ Len(connections) \in Nat /\ Len(connections') = Len(connections) + 1
         /\ connections'[Len(connections) + 1] = k
         /\ \A c \in made : c \in made' /\ connections'[c] = connections[c]
         /\ \A c \in made' : c \in made \/ c = Len(connections) + 1
         /\ \A c, n : joins(c, n) => joins(c, n)' /\ peer_of(c, n)' = peer_of(c, n)
<1>1. connections \in Seq(Peers)
  BY DEF Shape
<1>2. /\ Len(connections) \in Nat /\ Len(connections') = Len(connections) + 1
      /\ connections'[Len(connections) + 1] = k
      /\ \A c \in 1 .. Len(connections) : connections'[c] = connections[c]
  BY <1>1
<1>3. \A c \in made : c \in made' /\ connections'[c] = connections[c]
  BY <1>2 DEF made
<1>4. \A c \in made' : c \in made \/ c = Len(connections) + 1
  BY <1>2 DEF made
<1>5. \A c, n : joins(c, n) => joins(c, n)' /\ peer_of(c, n)' = peer_of(c, n)
  BY <1>3 DEF joins, peer_of
<1> QED
  BY <1>2, <1>3, <1>4, <1>5

-----------------------------------------------------------------------------
(* Types and sockets, step by step *)

LEMMA SendBeginsType ==
  ASSUME SocketsInv, NEW s \in Traffic, NEW c \in Connection, SendBegins(s, c)
  PROVE  /\ unsent' \subseteq Traffic /\ sent' \in [Node -> [Node -> Seq(Sent)]]
         /\ \A n, p \in Node : Range(sent[n][p]) \subseteq Range(sent'[n][p])
<1>1. s.from \in Node /\ s.to \in Node /\ s.messages \in Seq(Sent)
  BY SendType
<1>2. sent \in [Node -> [Node -> Seq(Sent)]] /\ unsent \subseteq Traffic
  BY DEF SocketsInv, Shape
<1> DEFINE new == IF s.overload = "PingMessage" THEN sent[s.from][s.to]
                  ELSE sent[s.from][s.to] \o s.messages
<1>3. sent' = [sent EXCEPT ![s.from][s.to] = new] /\ unsent' = unsent \ {s}
  BY DEF SendBegins
<1>4. sent[s.from][s.to] \in Seq(Sent)
  BY <1>1, <1>2
<1>5. new \in Seq(Sent)
  BY <1>1, <1>4
<1>6. Range(sent[s.from][s.to]) \subseteq Range(new)
  <2>1. \A i \in DOMAIN sent[s.from][s.to] : i \in DOMAIN new /\ new[i] = sent[s.from][s.to][i]
    <3> DEFINE a == sent[s.from][s.to]
    <3>1. a \in Seq(Sent) /\ s.messages \in Seq(Sent)
      BY <1>1, <1>4
    <3>2. \A i \in DOMAIN a : /\ i \in DOMAIN (a \o s.messages)
                             /\ (a \o s.messages)[i] = a[i]
      <4> HIDE DEF a
      <4> QED
        BY <3>1
    <3> QED
      BY <3>2
  <2> QED
    BY <2>1 DEF Range
<1> HIDE DEF new
<1> QED
  BY <1>1, <1>2, <1>3, <1>5, <1>6

LEMMA MayFail ==
  ASSUME SocketsInv, NEW s \in Traffic, NEW c \in Connection, SendBegins(s, c),
         may_fail(c, s.to)
  PROVE  sockets_by_id[s.from][s.to] = c
<1>1. c \in made
  BY DEF may_fail, SocketsInv, ConnectionsInv, made, Connection
<1>2. Len(connections) \in Nat
  BY DEF SocketsInv, Shape
<1> QED
  BY <1>1, <1>2 DEF SendBegins, socket, made

LEMMA SendKeepsSockets ==
  ASSUME SocketsInv, NEW s \in Traffic, Send(s) PROVE SocketsInv'
<1> PICK c \in Connection : /\ SendBegins(s, c) /\ initialize_socket(s, c)
                            /\ arriving' = IF may_fail(c, s.to) THEN arriving
                                 ELSE [arriving EXCEPT ![c][s.to] = @ \o send_buffer(s)]
                            /\ UNCHANGED <<handlers, pending>>
  BY DEF Send
<1>1. /\ s.from \in Node /\ s.to \in Node /\ s.from # s.to
      /\ send_buffer(s) \in Seq(Word)
  BY SendType, BufferType
<1>2. unsent' \subseteq Traffic /\ sent' \in [Node -> [Node -> Seq(Sent)]]
  BY SendBeginsType
<1>3. Shape /\ ConnectionsInv /\ TableInv
  BY DEF SocketsInv
<1>4. /\ UNCHANGED <<length_buffers, incoming_message_buffers, stopped, broken, handled>>
      /\ c = socket(s.from, s.to)
  BY DEF SendBegins, buffers
<1>5. arriving \in [Connection -> [Node -> Seq(Word)]] /\ Len(connections) \in Nat
  BY <1>3 DEF Shape
<1>6. arriving' \in [Connection -> [Node -> Seq(Word)]]
  <2>1. arriving[c][s.to] \o send_buffer(s) \in Seq(Word)
    BY <1>1, <1>5
  <2> QED
    BY <1>1, <1>5, <2>1
<1>7. \A d \in Connection, m \in Node :
        arriving'[d][m] # <<>> => arriving[d][m] # <<>> \/ (d = c /\ m = s.to)
  BY <1>1, <1>5
<1>8. CASE c <= Len(connections)
  <2>1. UNCHANGED <<connections, sockets_by_id, ends, backlog>>
    BY <1>8, <1>5 DEF initialize_socket, Connection
  <2>2. Shape'
    BY <1>2, <1>3, <1>4, <1>6, <2>1 DEF Shape
  <2>3. sockets_by_id[s.from][s.to] = c
    <3>1. c # Len(connections) + 1
      BY <1>5, <1>8
    <3> QED
      BY <1>4, <3>1, Zenon DEF socket
  <2>4. joins(c, s.from) /\ peer_of(c, s.from) = s.to
    BY <1>1, <1>3, <2>3, ValuesAssumption DEF TableInv, EntryInv
  <2>5. joins(c, s.to)
    BY <1>1, <2>4 DEF joins, peer_of
  <2>6. \A d \in Connection, m \in Node : arriving'[d][m] # <<>> => joins(d, m)
    BY <1>3, <1>7, <2>5 DEF TableInv, ReadsInv
  <2> QED
    BY <1>3, <1>4, <2>1, <2>2, <2>6, SocketsKept DEF ConnectionsInv
<1>9. CASE c > Len(connections)
  <2> DEFINE k == [from |-> s.from, to |-> s.to]
  <2>1. /\ connections' = Append(connections, k)
        /\ sockets_by_id' = [sockets_by_id EXCEPT ![s.from][s.to] = c]
        /\ ends' = [ends EXCEPT ![c] = {s.from, s.to}]
        /\ backlog' = [backlog EXCEPT ![s.to] = Append(@, c)]
    BY <1>9 DEF initialize_socket
  <2>2. k \in Peers /\ k.from = s.from /\ k.to = s.to
    BY <1>1 DEF Peers
  <2>3. c = Len(connections) + 1 /\ c \notin made
    <3>1. \A n, p \in Node : sockets_by_id[n][p] # NoSocket => sockets_by_id[n][p] \in made
      BY <1>3 DEF TableInv, EntryInv, joins
    <3>2. c \notin made
      BY <1>5, <1>9 DEF made
    <3>3. sockets_by_id[s.from][s.to] # c \/ sockets_by_id[s.from][s.to] = NoSocket
      BY <1>1, <3>1, <3>2
    <3>4. c = Len(connections) + 1
      BY <1>4, <3>3, ValuesAssumption, Zenon DEF socket
    <3> QED
      BY <3>2, <3>4
  <2>4. sockets_by_id[s.from][s.to] = NoSocket
    <3>1. sockets_by_id[s.from][s.to] # NoSocket => sockets_by_id[s.from][s.to] \in made
      BY <1>1, <1>3 DEF TableInv, EntryInv, joins
    <3> QED
      BY <1>4, <2>3, <3>1 DEF socket
  <2> HIDE DEF k
  <2>5. /\ connections'[c] = k
        /\ \A d \in made : d \in made' /\ connections'[d] = connections[d]
        /\ \A d \in made' : d \in made \/ d = c
        /\ \A d, m : joins(d, m) => joins(d, m)' /\ peer_of(d, m)' = peer_of(d, m)
        /\ Len(connections') = Len(connections) + 1
    BY <1>3, <2>1, <2>2, <2>3, ConnectionsGrow
  <2>6. c \in made'
    BY <1>5, <2>3, <2>5 DEF made
  <2>7. joins(c, s.from)' /\ joins(c, s.to)' /\ peer_of(c, s.from)' = s.to
    BY <1>1, <2>2, <2>5, <2>6 DEF joins, peer_of
  <2>a. /\ sockets_by_id \in [Node -> [Node -> Socket]]
        /\ ends \in [Connection -> SUBSET Node]
        /\ backlog \in [Node -> Seq(Connection)]
    BY <1>3 DEF Shape
  <2>b. /\ \A m, q \in Node : sockets_by_id'[m][q] = IF m = s.from /\ q = s.to THEN c
                                                     ELSE sockets_by_id[m][q]
        /\ \A d \in Connection : ends'[d] = IF d = c THEN {s.from, s.to} ELSE ends[d]
        /\ \A m \in Node : backlog'[m] = IF m = s.to THEN Append(backlog[m], c) ELSE backlog[m]
    BY <1>1, <2>1, <2>a
  <2>8. Shape'
    <3>1. connections' \in Seq(Peers)
      BY <1>3, <2>1, <2>2 DEF Shape
    <3>2. /\ sockets_by_id' \in [Node -> [Node -> Socket]]
          /\ ends' \in [Connection -> SUBSET Node]
      BY <1>1, <2>1, <2>a DEF Socket
    <3>3. backlog' \in [Node -> Seq(Connection)]
      BY <1>1, <2>1, <2>a
    <3> QED
      BY <1>2, <1>3, <1>4, <1>6, <3>1, <3>2, <3>3 DEF Shape
  <2>9. ConnectionsInv'
    <3>1. \A d \in made' : connections'[d].from # connections'[d].to
      BY <1>1, <1>3, <2>2, <2>5 DEF ConnectionsInv
    <3>2. made' \subseteq Connection /\ broken' \subseteq made'
      BY <1>3, <1>4, <2>5 DEF ConnectionsInv
    <3> QED
      BY <3>1, <3>2 DEF ConnectionsInv
  <2>10. ASSUME NEW m \in Node, NEW q \in Node PROVE EntryInv(m, q)'
    <3>1. CASE m = s.from /\ q = s.to
      BY <2>7, <2>b, <3>1 DEF EntryInv
    <3>2. CASE ~(m = s.from /\ q = s.to)
      <4>1. EntryInv(m, q)
        BY <1>3 DEF TableInv
      <4>2. sockets_by_id'[m][q] = sockets_by_id[m][q]
        BY <2>b, <3>2
      <4>3. joins(sockets_by_id[m][q], m) => sockets_by_id[m][q] \in Connection /\ sockets_by_id[m][q] # c
        BY <1>3, <2>3 DEF joins, ConnectionsInv
      <4>4. joins(sockets_by_id[m][q], m) => ends'[sockets_by_id[m][q]] = ends[sockets_by_id[m][q]]
        BY <2>b, <4>3
      <4> QED
        BY <2>5, <4>1, <4>2, <4>4 DEF EntryInv
    <3> QED
      BY <3>1, <3>2
  <2>11. ASSUME NEW d \in Connection, NEW m \in Node PROVE ReadsInv(d, m)'
    <3>1. ReadsInv(d, m)
      BY <1>3 DEF TableInv
    <3>2. joins(d, m) => d # c
      BY <2>3 DEF joins
    <3>3. pending[d][m] # <<>> =>
            /\ joins(d, m) /\ sockets_by_id[m][peer_of(d, m)] = d /\ peer_of(d, m) \in Node
      BY <1>3, <3>1, PeerType DEF ReadsInv
    <3>4. pending[d][m] # <<>> => sockets_by_id'[m][peer_of(d, m)] = d
      BY <2>4, <2>b, <3>3, ValuesAssumption
    <3>5. arriving'[d][m] # <<>> => joins(d, m)'
      BY <1>7, <2>5, <2>7, <3>1 DEF ReadsInv
    <3>6. pending' = pending
      OBVIOUS
    <3> QED
      BY <2>5, <3>1, <3>3, <3>4, <3>5, <3>6 DEF ReadsInv
  <2>12. ASSUME NEW m \in Node PROVE BacklogInv(m)'
    <3>0. BacklogInv(m) /\ backlog[m] \in Seq(Connection)
      BY <1>3, <2>a DEF TableInv
    <3>1. \A i \in 1 .. Len(backlog[m]) :
            /\ backlog[m][i] \in made /\ backlog[m][i] # c
            /\ backlog[m][i] \in Connection
            /\ connections[backlog[m][i]].from \in Node
      <4> TAKE i \in 1 .. Len(backlog[m])
      <4>1. backlog[m][i] \in made /\ joins(backlog[m][i], m)
            /\ peer_of(backlog[m][i], m) = connections[backlog[m][i]].from
        BY <3>0 DEF BacklogInv, joins, peer_of
      <4>2. backlog[m][i] \in Connection /\ peer_of(backlog[m][i], m) \in Node
        BY <1>3, <4>1, PeerType
      <4> QED
        BY <2>3, <4>1, <4>2
    <3>2. \A i \in 1 .. Len(backlog[m]) :
            /\ backlog[m][i] \in made'
            /\ connections'[backlog[m][i]].to = m
            /\ m \in ends'[backlog[m][i]]
            /\ sockets_by_id'[m][connections'[backlog[m][i]].from] # backlog[m][i]
      <4> TAKE i \in 1 .. Len(backlog[m])
      <4> DEFINE b == backlog[m][i]
      <4>1. /\ b \in made /\ connections[b].to = m /\ m \in ends[b]
            /\ sockets_by_id[m][connections[b].from] # b
        BY <3>0 DEF BacklogInv
      <4>2. b # c /\ b \in Connection /\ connections[b].from \in Node
        BY <3>1
      <4>3. connections'[b] = connections[b] /\ b \in made'
        BY <2>5, <4>1
      <4> QED
        BY <2>b, <4>1, <4>2, <4>3
    <3>3. CASE m # s.to
      <4>1. backlog'[m] = backlog[m]
        BY <2>b, <3>3
      <4> QED
        BY <3>0, <3>2, <4>1 DEF BacklogInv
    <3>4. CASE m = s.to
      <4>1. backlog'[m] = Append(backlog[m], c)
        BY <2>b, <3>4
      <4>2. /\ Len(backlog'[m]) = Len(backlog[m]) + 1 /\ Len(backlog[m]) \in Nat
            /\ backlog'[m][Len(backlog[m]) + 1] = c
            /\ \A i \in 1 .. Len(backlog[m]) : backlog'[m][i] = backlog[m][i]
        BY <3>0, <4>1
      <4>3. \A i \in 1 .. Len(backlog'[m]) :
              i \in 1 .. Len(backlog[m]) \/ (i = Len(backlog[m]) + 1 /\ backlog'[m][i] = c)
        BY <4>2
      <4>4. /\ connections'[c].to = m /\ m \in ends'[c] /\ sockets_by_id'[m][s.from] # c
            /\ connections'[c].from = s.from
        <5>1. sockets_by_id[m][s.from] # c
          <6>1. sockets_by_id[m][s.from] # NoSocket => sockets_by_id[m][s.from] \in made
            BY <1>1, <1>3, <3>4 DEF TableInv, EntryInv, joins
          <6> QED
            BY <2>3, <6>1, ValuesAssumption
        <5> QED
          BY <1>1, <2>2, <2>5, <2>b, <3>4, <5>1
      <4>5. \A i \in 1 .. Len(backlog'[m]) :
              /\ backlog'[m][i] \in made'
              /\ connections'[backlog'[m][i]].to = m
              /\ m \in ends'[backlog'[m][i]]
              /\ sockets_by_id'[m][connections'[backlog'[m][i]].from] # backlog'[m][i]
        BY <2>6, <3>2, <4>2, <4>3, <4>4
      <4>6. \A i, j \in 1 .. Len(backlog'[m]) : backlog'[m][i] = backlog'[m][j] => i = j
        <5> TAKE i, j \in 1 .. Len(backlog'[m])
        <5> HAVE backlog'[m][i] = backlog'[m][j]
        <5>1. \A e \in 1 .. Len(backlog[m]) : backlog'[m][e] # c
          BY <3>1, <4>2
        <5>2. \A e, f \in 1 .. Len(backlog[m]) : backlog'[m][e] = backlog'[m][f] => e = f
          BY <3>0, <4>2 DEF BacklogInv
        <5> QED
          BY <4>3, <5>1, <5>2
      <4> QED
        BY <4>5, <4>6 DEF BacklogInv
    <3> QED
      BY <3>3, <3>4
  <2> QED
    BY <2>8, <2>9, <2>10, <2>11, <2>12 DEF SocketsInv, TableInv
<1> QED
  BY <1>5, <1>8, <1>9 DEF Connection

LEMMA SendFailsKeepsSockets ==
  ASSUME SocketsInv, NEW s \in Traffic, SendFails(s) PROVE SocketsInv'
<1> PICK c \in Connection :
      /\ SendBegins(s, c)
      /\ handlers' = [handlers EXCEPT ![s.from] = Append(@, completion("write", s.to, TRUE))]
      /\ UNCHANGED <<sockets_by_id, ends, pending, connections, arriving, backlog>>
  BY DEF SendFails
<1>1. s.from \in Node /\ s.to \in Node
  BY SendType
<1>2. unsent' \subseteq Traffic /\ sent' \in [Node -> [Node -> Seq(Sent)]]
  BY SendBeginsType
<1>3. UNCHANGED <<length_buffers, incoming_message_buffers, stopped, broken, handled>>
  BY DEF SendBegins, buffers
<1>4. completion("write", s.to, TRUE) \in Completion
  BY <1>1, CompletionType
<1>5. handlers' \in [Node -> Seq(Completion)]
  <2>1. handlers \in [Node -> Seq(Completion)]
    BY DEF SocketsInv, Shape
  <2>a. handlers[s.from] \in Seq(Completion)
    BY <1>1, <2>1
  <2>2. Append(handlers[s.from], completion("write", s.to, TRUE)) \in Seq(Completion)
    BY <1>4, <2>a, AppendProperties
  <2> QED
    BY <1>1, <2>1, <2>2
<1>6. Shape'
  BY <1>2, <1>3, <1>5 DEF SocketsInv, Shape
<1>7. broken' \subseteq made /\ \A d \in Connection, m \in Node : arriving'[d][m] # <<>> => joins(d, m)
  BY <1>3 DEF SocketsInv, ConnectionsInv, TableInv, ReadsInv
<1> QED
  BY <1>6, <1>7, SocketsKept

LEMMA PingFailsKeepsSockets ==
  ASSUME SocketsInv, NEW s \in Traffic, PingFails(s) PROVE SocketsInv'
<1> PICK c \in Connection : /\ SendBegins(s, c)
                            /\ erase(s.from, s.to, handlers[s.from])
                            /\ UNCHANGED <<connections, arriving, backlog>>
  BY DEF PingFails
<1>1. s.from \in Node /\ s.to \in Node
  BY SendType
<1>2. unsent' \subseteq Traffic /\ sent' \in [Node -> [Node -> Seq(Sent)]]
  BY SendBeginsType
<1>3. UNCHANGED <<length_buffers, incoming_message_buffers, stopped, broken, handled>>
  BY DEF SendBegins, buffers
<1>4. handlers[s.from] \in Seq(Completion)
  BY <1>1 DEF SocketsInv, Shape
<1> QED
  BY <1>1, <1>2, <1>3, <1>4, EraseSockets

\* The handler that runs is the first, and takes itself off the list.
LEMMA HandlerType ==
  ASSUME SocketsInv, NEW n \in Node, handlers[n] # <<>>
  PROVE  /\ handler(n) \in Completion /\ handler(n).peer \in Node
         /\ Tail(handlers[n]) \in Seq(Completion)
         /\ HandlerDone(n) => handlers' \in [Node -> Seq(Completion)]
<1>1. handlers \in [Node -> Seq(Completion)]
  BY DEF SocketsInv, Shape
<1>2. handlers[n] \in Seq(Completion)
  BY <1>1
<1>3. handler(n) \in Completion /\ Tail(handlers[n]) \in Seq(Completion)
  BY <1>2 DEF handler
<1>4. handler(n).peer \in Node
  BY <1>3 DEF Completion
<1>5. HandlerDone(n) => handlers' \in [Node -> Seq(Completion)]
  BY <1>1, <1>3 DEF HandlerDone
<1> QED
  BY <1>3, <1>4, <1>5

LEMMA ErrorsKeepSockets ==
  ASSUME SocketsInv, NEW n \in Node, handle_body_read_error(n) \/ handle_write_complete(n)
  PROVE  SocketsInv'
<1>1. /\ handlers[n] # <<>> /\ erase(n, handler(n).peer, Tail(handlers[n]))
      /\ UNCHANGED <<length_buffers, incoming_message_buffers, stopped, connections,
                     arriving, backlog, broken, unsent, sent, handled>>
  BY DEF handle_body_read_error, handle_write_complete, Completes, buffers
<1>2. handler(n).peer \in Node /\ Tail(handlers[n]) \in Seq(Completion)
  BY <1>1, HandlerType
<1>3. unsent' \subseteq Traffic /\ sent' \in [Node -> [Node -> Seq(Sent)]]
  BY <1>1 DEF SocketsInv, Shape
<1> QED
  BY <1>1, <1>2, <1>3, EraseSockets

LEMMA SizeErrorKeepsSockets ==
  ASSUME SocketsInv, NEW n \in Node, handle_size_read_error(n) PROVE SocketsInv'
<1>1. /\ handlers[n] # <<>> /\ HandlerDone(n)
      /\ UNCHANGED <<sockets_by_id, length_buffers, incoming_message_buffers, stopped,
                     pending, connections, ends, arriving, backlog, broken, unsent, sent, handled>>
  BY DEF handle_size_read_error, Completes, buffers
<1>2. handlers' \in [Node -> Seq(Completion)]
  <2>1. handlers[n] # <<>> /\ HandlerDone(n)
    BY <1>1
  <2> QED
    BY <2>1, HandlerType
<1>3. Shape'
  BY <1>1, <1>2 DEF SocketsInv, Shape
<1>4. broken' \subseteq made /\ \A d \in Connection, m \in Node : arriving'[d][m] # <<>> => joins(d, m)
  BY <1>1 DEF SocketsInv, ConnectionsInv, TableInv, ReadsInv
<1> QED
  BY <1>1, <1>3, <1>4, SocketsKept

\* What is given to handle_message is added at the end.
LEMMA HandlesType ==
  ASSUME SocketsInv, NEW n \in Node, handlers[n] # <<>>,
         NEW what \in Seq(Sent \cup {Misread}), Handles(n, what)
  PROVE  handled' \in [Node -> [Node -> Seq(Sent \cup {Misread})]]
<1>1. handled \in [Node -> [Node -> Seq(Sent \cup {Misread})]] /\ handler(n).peer \in Node
  BY HandlerType DEF SocketsInv, Shape
<1>2. handled[n][handler(n).peer] \o what \in Seq(Sent \cup {Misread})
  BY <1>1
<1> QED
  BY <1>1, <1>2 DEF Handles

LEMMA BodyReadKeepsSockets ==
  ASSUME SocketsInv, NEW n \in Node, handle_body_read(n) PROVE SocketsInv'
<1> DEFINE what == receive_message(incoming_message_buffers[n][handler(n).peer])
<1>1. /\ handlers[n] # <<>> /\ HandlerDone(n) /\ Handles(n, what)
      /\ UNCHANGED <<sockets_by_id, length_buffers, incoming_message_buffers, stopped,
                     pending, connections, ends, arriving, backlog, broken, unsent, sent>>
  BY DEF handle_body_read, Completes, buffers
<1>2. handlers' \in [Node -> Seq(Completion)] /\ handler(n).peer \in Node
  BY <1>1, HandlerType
<1>3. incoming_message_buffers[n][handler(n).peer] \in Seq(Word)
  BY <1>2 DEF SocketsInv, Shape
<1>4. handled' \in [Node -> [Node -> Seq(Sent \cup {Misread})]]
  BY <1>1, <1>3, ReceiveType, HandlesType
<1>5. Shape'
  BY <1>1, <1>2, <1>4 DEF SocketsInv, Shape
<1>6. broken' \subseteq made /\ \A d \in Connection, m \in Node : arriving'[d][m] # <<>> => joins(d, m)
  BY <1>1 DEF SocketsInv, ConnectionsInv, TableInv, ReadsInv
<1> QED
  BY <1>1, <1>5, <1>6, SocketsKept

LEMMA SizeReadKeepsSockets ==
  ASSUME SocketsInv, NEW n \in Node, handle_size_read(n) PROVE SocketsInv'
<1> DEFINE p == handler(n).peer
           word == length_buffers[n][p]
           c == sockets_by_id[n][p]
<1>1. /\ handlers[n] # <<>> /\ HandlerDone(n)
      /\ UNCHANGED <<sockets_by_id, length_buffers, connections, ends, arriving, backlog,
                     broken, unsent, sent>>
  BY DEF handle_size_read, Completes
<1>2. handlers' \in [Node -> Seq(Completion)] /\ p \in Node
  BY <1>1, HandlerType
<1>3. broken' \subseteq made /\ \A d \in Connection, m \in Node : arriving'[d][m] # <<>> => joins(d, m)
  BY <1>1 DEF SocketsInv, ConnectionsInv, TableInv, ReadsInv
<1>4. CASE /\ stopped' = stopped \cup {n}
           /\ UNCHANGED <<incoming_message_buffers, pending, handled>>
  <2>1. Shape'
    BY <1>1, <1>2, <1>4 DEF SocketsInv, Shape
  <2> QED
    BY <1>1, <1>3, <1>4, <2>1, SocketsKept
<1>5. CASE /\ c # NoSocket /\ word.is = "size"
           /\ incoming_message_buffers' =
                [incoming_message_buffers EXCEPT ![n][p] = resize(@, word.value)]
           /\ start_read(c, n, "body", word.value)
           /\ UNCHANGED <<stopped, handled>>
  <2>0. /\ length_buffers \in [Node -> [Node -> Word]]
        /\ incoming_message_buffers \in [Node -> [Node -> Seq(Word)]]
    BY DEF SocketsInv, Shape
  <2>1. word \in Word /\ incoming_message_buffers[n][p] \in Seq(Word)
    BY <1>2, <2>0
  <2>2. word.value \in Nat
    BY <1>5, <2>1 DEF Word
  <2>3. resize(incoming_message_buffers[n][p], word.value) \in Seq(Word)
    BY <2>1, <2>2, ResizeType
  <2>4. incoming_message_buffers' \in [Node -> [Node -> Seq(Word)]]
    BY <1>2, <1>5, <2>3 DEF SocketsInv, Shape
  <2>5. /\ \A d \in Connection, m \in Node : ReadsInv(d, m)'
        /\ pending' \in [Connection -> [Node -> Seq(Read)]]
    BY <1>1, <1>2, <1>5, <2>2, ReadStarts
  <2>6. Shape'
    BY <1>1, <1>2, <1>5, <2>4, <2>5 DEF SocketsInv, Shape
  <2> QED
    BY <1>1, <1>3, <2>5, <2>6, TableKept
<1>6. CASE /\ Handles(n, <<Misread>>)
           /\ UNCHANGED <<incoming_message_buffers, stopped, pending>>
  <2>1. <<Misread>> \in Seq(Sent \cup {Misread})
    OBVIOUS
  <2>2. handled' \in [Node -> [Node -> Seq(Sent \cup {Misread})]]
    BY <1>1, <1>6, <2>1, HandlesType
  <2>3. Shape'
    BY <1>1, <1>2, <1>6, <2>2 DEF SocketsInv, Shape
  <2> QED
    BY <1>1, <1>3, <1>6, <2>3, SocketsKept
<1> QED
  BY <1>4, <1>5, <1>6 DEF handle_size_read

LEMMA AcceptKeepsSockets ==
  ASSUME SocketsInv, NEW n \in Node, Accept(n) PROVE SocketsInv'
<1> DEFINE b == Head(backlog[n])
           p == connections[b].from
<1>1. /\ backlog[n] # <<>> /\ backlog' = [backlog EXCEPT ![n] = Tail(@)]
      /\ UNCHANGED <<length_buffers, incoming_message_buffers, stopped, handlers,
                     connections, arriving, broken, unsent, sent, handled>>
  BY DEF Accept, buffers
<1>2. Shape /\ ConnectionsInv /\ TableInv
  BY DEF SocketsInv
<1>3. backlog \in [Node -> Seq(Connection)] /\ backlog[n] \in Seq(Connection)
  BY <1>2 DEF Shape
<1>4. /\ Len(backlog[n]) \in Nat \ {0} /\ backlog[n][1] = b /\ b \in Connection
      /\ Tail(backlog[n]) \in Seq(Connection) /\ Len(Tail(backlog[n])) = Len(backlog[n]) - 1
      /\ \A i \in 1 .. Len(Tail(backlog[n])) : Tail(backlog[n])[i] = backlog[n][i + 1]
  BY <1>1, <1>3
<1>5. BacklogInv(n)
  BY <1>2 DEF TableInv
<1>6. b \in made /\ connections[b].to = n /\ n \in ends[b] /\ sockets_by_id[n][p] # b
  BY <1>4, <1>5 DEF BacklogInv
<1>7. joins(b, n) /\ peer_of(b, n) = p
  BY <1>6 DEF joins, peer_of
<1>8. p \in Node
  <2>1. peer_of(b, n) \in Node
    BY <1>2, <1>7, PeerType
  <2> QED
    BY <1>7, <2>1
<1> HIDE DEF b, p
<1>9. \A d, m : joins(d, m)' = joins(d, m) /\ peer_of(d, m)' = peer_of(d, m)
  BY <1>1, SameConnections
<1>10. made' = made /\ ConnectionsInv'
  BY <1>1, <1>2 DEF made, ConnectionsInv
<1>11. \A m \in Node : backlog'[m] = IF m = n THEN Tail(backlog[n]) ELSE backlog[m]
  BY <1>1, <1>3
<1>12. backlog' \in [Node -> Seq(Connection)]
  BY <1>1, <1>3, <1>4
<1>a. /\ sockets_by_id \in [Node -> [Node -> Socket]]
      /\ ends \in [Connection -> SUBSET Node]
      /\ pending \in [Connection -> [Node -> Seq(Read)]]
  BY <1>2 DEF Shape
<1>b. [op |-> "size", words |-> 1] \in Read
  BY DEF Read
\* What is left in the backlog is not b, and was there before.
<1>13. \A m \in Node : \A i \in 1 .. Len(backlog'[m]) :
         \E j \in 1 .. Len(backlog[m]) : /\ backlog'[m][i] = backlog[m][j]
                                         /\ m = n => j = i + 1
                                         /\ m # n => j = i
  <2> TAKE m \in Node
  <2>1. CASE m = n
    <3>1. \A i \in 1 .. Len(Tail(backlog[n])) : i + 1 \in 1 .. Len(backlog[n])
      BY <1>4
    <3> QED
      BY <1>4, <1>11, <2>1, <3>1
  <2>2. CASE m # n
    BY <1>11, <2>2
  <2> QED
    BY <2>1, <2>2
<1>14. \A m \in Node : \A i \in 1 .. Len(backlog'[m]) : m = n => backlog'[m][i] # b
  <2> TAKE m \in Node
  <2> TAKE i \in 1 .. Len(backlog'[m])
  <2> HAVE m = n
  <2>1. PICK j \in 1 .. Len(backlog[n]) : backlog'[n][i] = backlog[n][j] /\ j = i + 1
    BY <1>13
  <2>2. i \in Nat /\ i >= 1
    BY <1>11, <1>4
  <2> QED
    BY <1>4, <1>5, <2>1, <2>2 DEF BacklogInv
<1>15. ASSUME NEW m \in Node
       PROVE  \A i, j \in 1 .. Len(backlog'[m]) : backlog'[m][i] = backlog'[m][j] => i = j
  <2> TAKE i, j \in 1 .. Len(backlog'[m])
  <2>1. PICK k \in 1 .. Len(backlog[m]) :
          backlog'[m][i] = backlog[m][k] /\ (m = n => k = i + 1) /\ (m # n => k = i)
    BY <1>13
  <2>2. PICK l \in 1 .. Len(backlog[m]) :
          backlog'[m][j] = backlog[m][l] /\ (m = n => l = j + 1) /\ (m # n => l = j)
    BY <1>13
  <2>3. backlog[m][k] = backlog[m][l] => k = l
    BY <1>2 DEF TableInv, BacklogInv
  <2>4. Len(backlog'[m]) \in Nat
    BY <1>12
  <2> QED
    BY <2>1, <2>2, <2>3, <2>4
<1>16. CASE sockets_by_id[n][p] = NoSocket
  <2>1. /\ sockets_by_id' = [sockets_by_id EXCEPT ![n][p] = b]
        /\ pending' = [pending EXCEPT ![b][n] = Append(@, [op |-> "size", words |-> 1])]
        /\ ends' = ends
    BY <1>16 DEF Accept, start_read, b, p
  <2>2. pending[b][n] = <<>>
    <3>1. ReadsInv(b, n)
      BY <1>2, <1>4 DEF TableInv
    <3> QED
      BY <1>4, <1>6, <1>7, <3>1 DEF ReadsInv
  <2>a. \A m, q \in Node : sockets_by_id'[m][q] = IF m = n /\ q = p THEN b ELSE sockets_by_id[m][q]
    BY <1>8, <1>a, <2>1
  <2>b. \A d \in Connection, m \in Node :
          pending'[d][m] = IF d = b /\ m = n THEN <<[op |-> "size", words |-> 1]>> ELSE pending[d][m]
    BY <1>4, <1>a, <2>1, <2>2
  <2>3. Shape'
    <3>1. sockets_by_id' \in [Node -> [Node -> Socket]]
      BY <1>4, <1>8, <1>a, <2>1 DEF Socket
    <3>2. pending' \in [Connection -> [Node -> Seq(Read)]]
      <4>1. Append(pending[b][n], [op |-> "size", words |-> 1]) \in Seq(Read)
        BY <1>4, <1>a, <1>b
      <4> QED
        BY <1>4, <1>a, <2>1, <4>1
    <3> QED
      BY <1>1, <1>2, <1>12, <2>1, <3>1, <3>2 DEF Shape
  <2>4. ASSUME NEW m \in Node, NEW q \in Node PROVE EntryInv(m, q)'
    <3>1. EntryInv(m, q)
      BY <1>2 DEF TableInv
    <3> QED
      BY <1>6, <1>7, <1>9, <2>1, <2>a, <3>1 DEF EntryInv
  <2>5. ASSUME NEW d \in Connection, NEW m \in Node PROVE ReadsInv(d, m)'
    <3>1. ReadsInv(d, m)
      BY <1>2 DEF TableInv
    <3>2. CASE d = b /\ m = n
      <4>1. pending'[d][m] = <<[op |-> "size", words |-> 1]>>
        BY <2>b, <3>2
      <4>2. \A i \in 1 .. Len(pending'[d][m]) : pending'[d][m][i].words = 1
        BY <4>1
      <4>3. sockets_by_id'[n][p] = b
        BY <1>8, <2>a
      <4> QED
        BY <1>1, <1>7, <1>9, <3>1, <3>2, <4>2, <4>3 DEF ReadsInv
    <3>3. CASE ~(d = b /\ m = n)
      <4>1. pending'[d][m] = pending[d][m]
        BY <2>b, <3>3
      <4>2. pending[d][m] # <<>> =>
              /\ joins(d, m) /\ sockets_by_id[m][peer_of(d, m)] = d /\ peer_of(d, m) \in Node
        BY <1>2, <3>1, PeerType DEF ReadsInv
      <4>3. pending[d][m] # <<>> => sockets_by_id'[m][peer_of(d, m)] = d
        BY <1>16, <2>a, <4>2, ValuesAssumption
      <4> QED
        BY <1>1, <1>9, <3>1, <4>1, <4>2, <4>3 DEF ReadsInv
    <3> QED
      BY <3>2, <3>3
  <2>6. ASSUME NEW m \in Node PROVE BacklogInv(m)'
    <3>1. BacklogInv(m)
      BY <1>2 DEF TableInv
    <3>2. \A i \in 1 .. Len(backlog'[m]) :
            /\ backlog'[m][i] \in made /\ connections[backlog'[m][i]].to = m
            /\ m \in ends[backlog'[m][i]]
            /\ sockets_by_id'[m][connections[backlog'[m][i]].from] # backlog'[m][i]
      <4> TAKE i \in 1 .. Len(backlog'[m])
      <4>1. PICK j \in 1 .. Len(backlog[m]) : backlog'[m][i] = backlog[m][j]
        BY <1>13
      <4> DEFINE e == backlog[m][j]
      <4>2. /\ e \in made /\ connections[e].to = m /\ m \in ends[e]
            /\ sockets_by_id[m][connections[e].from] # e
        BY <3>1 DEF BacklogInv
      <4>3. joins(e, m) /\ peer_of(e, m) = connections[e].from
        BY <4>2 DEF joins, peer_of
      <4>4. peer_of(e, m) \in Node
        BY <1>2, <4>3, PeerType
      <4>5. m = n => e # b
        BY <1>14, <4>1
      <4>6. sockets_by_id'[m][connections[e].from] # e
        BY <2>a, <4>2, <4>3, <4>4, <4>5
      <4> QED
        BY <4>1, <4>2, <4>6
    <3>3. \A i, j \in 1 .. Len(backlog'[m]) : backlog'[m][i] = backlog'[m][j] => i = j
      BY <1>15
    <3> QED
      BY <1>1, <1>10, <2>1, <3>2, <3>3 DEF BacklogInv
  <2> QED
    BY <1>10, <2>3, <2>4, <2>5, <2>6 DEF SocketsInv, TableInv
<1>17. CASE sockets_by_id[n][p] # NoSocket
  <2>1. /\ ends' = [ends EXCEPT ![b] = @ \ {n}]
        /\ start_read(sockets_by_id[n][p], n, "size", 1)
        /\ sockets_by_id' = sockets_by_id
    BY <1>17 DEF Accept, b, p
  <2>2. /\ \A d \in Connection, m \in Node : ReadsInv(d, m)'
        /\ pending' \in [Connection -> [Node -> Seq(Read)]]
    BY <1>1, <1>8, <1>17, <2>1, ReadStarts
  <2>3. /\ ends' \in [Connection -> SUBSET Node]
        /\ \A d \in Connection : ends'[d] = IF d = b THEN ends[d] \ {n} ELSE ends[d]
    BY <1>4, <1>a, <2>1
  <2>4. Shape'
    BY <1>1, <1>2, <1>12, <2>1, <2>2, <2>3 DEF Shape
  <2>5. ASSUME NEW m \in Node, NEW q \in Node PROVE EntryInv(m, q)'
    <3> SUFFICES ASSUME sockets_by_id[m][q] # NoSocket PROVE EntryInv(m, q)'
      BY <2>1 DEF EntryInv
    <3> DEFINE d == sockets_by_id[m][q]
    <3>1. joins(d, m) /\ m \in ends[d] /\ peer_of(d, m) = q
      BY <1>2 DEF TableInv, EntryInv
    <3>2. ~(d = b /\ m = n)
      BY <1>6, <1>7, <3>1
    <3>3. d \in Connection
      BY <1>2, <3>1, PeerType
    <3>4. m \in ends'[d]
      BY <2>3, <3>1, <3>2, <3>3
    <3> QED
      BY <1>9, <2>1, <3>1, <3>4 DEF EntryInv
  <2>6. ASSUME NEW m \in Node PROVE BacklogInv(m)'
    <3>1. BacklogInv(m)
      BY <1>2 DEF TableInv
    <3>2. \A i \in 1 .. Len(backlog'[m]) :
            /\ backlog'[m][i] \in made /\ connections[backlog'[m][i]].to = m
            /\ m \in ends'[backlog'[m][i]]
            /\ sockets_by_id[m][connections[backlog'[m][i]].from] # backlog'[m][i]
      <4> TAKE i \in 1 .. Len(backlog'[m])
      <4>1. PICK j \in 1 .. Len(backlog[m]) : backlog'[m][i] = backlog[m][j]
        BY <1>13
      <4> DEFINE e == backlog[m][j]
      <4>2. /\ e \in made /\ connections[e].to = m /\ m \in ends[e]
            /\ sockets_by_id[m][connections[e].from] # e
        BY <3>1 DEF BacklogInv
      <4>3. e \in Connection
        BY <1>2, <4>2 DEF ConnectionsInv
      <4>4. m = n => e # b
        BY <1>14, <4>1
      <4>5. m \in ends'[e]
        BY <2>3, <4>2, <4>3, <4>4
      <4> QED
        BY <4>1, <4>2, <4>5
    <3>3. \A i, j \in 1 .. Len(backlog'[m]) : backlog'[m][i] = backlog'[m][j] => i = j
      BY <1>15
    <3> QED
      BY <1>1, <1>10, <2>1, <3>2, <3>3 DEF BacklogInv
  <2> QED
    BY <1>10, <2>2, <2>4, <2>5, <2>6 DEF SocketsInv, TableInv
<1> QED
  BY <1>16, <1>17

\* A read that ends leaves the list, and its words go to the buffers of the peer.
LEMMA ReadEnds ==
  ASSUME SocketsInv, NEW c \in Connection, NEW n \in Node, pending[c][n] # <<>>,
         NEW data \in Seq(Word), Fill(c, n, data), NEW error \in BOOLEAN,
         handlers' = [handlers EXCEPT ![n] =
           Append(@, completion(Head(pending[c][n]).op, peer_of(c, n), error))],
         NEW rest \in Seq(Word), arriving' = [arriving EXCEPT ![c][n] = rest],
         pending' = [pending EXCEPT ![c][n] = Tail(@)],
         UNCHANGED <<sockets_by_id, stopped, handled, connections, ends, backlog,
                     broken, unsent, sent>>
  PROVE  SocketsInv'
<1> DEFINE p == peer_of(c, n)
<1>1. Shape /\ ConnectionsInv /\ TableInv
  BY DEF SocketsInv
<1>2. joins(c, n) /\ sockets_by_id[n][p] = c
  BY <1>1 DEF TableInv, ReadsInv
<1>3. p \in Node
  BY <1>1, <1>2, PeerType
<1>4. /\ pending \in [Connection -> [Node -> Seq(Read)]]
      /\ handlers \in [Node -> Seq(Completion)]
      /\ arriving \in [Connection -> [Node -> Seq(Word)]]
      /\ length_buffers \in [Node -> [Node -> Word]]
      /\ incoming_message_buffers \in [Node -> [Node -> Seq(Word)]]
  BY <1>1 DEF Shape
<1>5. pending[c][n] \in Seq(Read) /\ handlers[n] \in Seq(Completion)
  BY <1>4
<1>6. Head(pending[c][n]) \in Read /\ Tail(pending[c][n]) \in Seq(Read)
  BY <1>5
<1>7. handlers' \in [Node -> Seq(Completion)]
  <2> DEFINE new == completion(Head(pending[c][n]).op, p, error)
  <2>1. Head(pending[c][n]).op \in {"size", "body", "write"}
    BY <1>6 DEF Read
  <2>2. new \in Completion
    BY <1>3, <2>1, CompletionType
  <2> HIDE DEF new
  <2>3. Append(handlers[n], new) \in Seq(Completion)
    BY <1>5, <2>2
  <2> QED
    BY <1>4, <2>3 DEF new
<1>8. pending' \in [Connection -> [Node -> Seq(Read)]]
  BY <1>4, <1>6
<1>9. arriving' \in [Connection -> [Node -> Seq(Word)]]
  BY <1>4
<1> HIDE DEF p
<1>10. /\ length_buffers' \in [Node -> [Node -> Word]]
       /\ incoming_message_buffers' \in [Node -> [Node -> Seq(Word)]]
  <2>1. data # <<>> => data[1] \in Word
    OBVIOUS
  <2>2. incoming_message_buffers[n][p] \in Seq(Word)
    BY <1>3, <1>4
  <2>3. stored(data, incoming_message_buffers[n][p]) \in Seq(Word)
    BY <2>2, StoredType
  <2>4. CASE Head(pending[c][n]).op = "size"
    <3>1. /\ length_buffers' = IF data = <<>> THEN length_buffers
                               ELSE [length_buffers EXCEPT ![n][p] = data[1]]
          /\ UNCHANGED incoming_message_buffers
      BY <2>4 DEF Fill, p
    <3> QED
      BY <1>3, <1>4, <2>1, <3>1
  <2>5. CASE Head(pending[c][n]).op # "size"
    <3>1. /\ \/ incoming_message_buffers' = [incoming_message_buffers EXCEPT ![n][p] =
                                               stored(data, incoming_message_buffers[n][p])]
             \/ UNCHANGED incoming_message_buffers
          /\ UNCHANGED length_buffers
      BY <2>5 DEF Fill, p
    <3> DEFINE new == stored(data, incoming_message_buffers[n][p])
    <3>2. new \in Seq(Word)
      BY <2>3
    <3> HIDE DEF new
    <3>3. [incoming_message_buffers EXCEPT ![n][p] = new] \in [Node -> [Node -> Seq(Word)]]
      BY <1>3, <1>4, <3>2
    <3> QED
      BY <1>4, <3>1, <3>3 DEF new
  <2> QED
    BY <2>4, <2>5
<1>11. Shape'
  BY <1>1, <1>7, <1>8, <1>9, <1>10 DEF Shape
<1>12. ASSUME NEW d \in Connection, NEW m \in Node PROVE ReadsInv(d, m)'
  <2>1. ReadsInv(d, m)
    BY <1>1 DEF TableInv
  <2>2. joins(d, m)' = joins(d, m) /\ peer_of(d, m)' = peer_of(d, m)
    BY SameConnections
  <2>3. CASE d = c /\ m = n
    <3>1. pending'[d][m] = Tail(pending[c][n])
      BY <1>4, <2>3
    <3>2. \A i \in 1 .. Len(Tail(pending[c][n])) :
            i + 1 \in 1 .. Len(pending[c][n]) /\ Tail(pending[c][n])[i] = pending[c][n][i + 1]
      BY <1>5
    <3> QED
      BY <1>2, <2>1, <2>2, <2>3, <3>1, <3>2 DEF ReadsInv, p
  <2>4. CASE ~(d = c /\ m = n)
    <3>1. pending'[d][m] = pending[d][m] /\ arriving'[d][m] = arriving[d][m]
      BY <1>4, <2>4
    <3> QED
      BY <2>1, <2>2, <3>1 DEF ReadsInv
  <2> QED
    BY <2>3, <2>4
<1>13. broken' \subseteq made
  BY <1>1 DEF ConnectionsInv
<1> QED
  BY <1>11, <1>12, <1>13, TableKept

LEMMA ReadsKeepSockets ==
  ASSUME SocketsInv, NEW c \in Connection, NEW n \in Node, Reads(c, n) PROVE SocketsInv'
<1>1. /\ pending[c][n] # <<>>
      /\ pending' = [pending EXCEPT ![c][n] = Tail(@)]
      /\ UNCHANGED <<sockets_by_id, stopped, handled, connections, ends, backlog,
                     broken, unsent, sent>>
  BY DEF Reads, ReadCompletes, ReadFails
<1>2. arriving[c][n] \in Seq(Word) /\ pending[c][n] \in Seq(Read)
  BY DEF SocketsInv, Shape
<1>3. CASE ReadFails(c, n)
  <2>1. /\ Fill(c, n, arriving[c][n])
        /\ arriving' = [arriving EXCEPT ![c][n] = <<>>]
        /\ handlers' = [handlers EXCEPT ![n] =
             Append(@, completion(Head(pending[c][n]).op, peer_of(c, n), TRUE))]
    BY <1>3 DEF ReadFails
  <2>2. <<>> \in Seq(Word)
    OBVIOUS
  <2> QED
    BY <1>1, <1>2, <2>1, <2>2, ReadEnds
<1>4. CASE ReadCompletes(c, n)
  <2> DEFINE k == Head(pending[c][n]).words
             data == SubSeq(arriving[c][n], 1, k)
             rest == SubSeq(arriving[c][n], k + 1, Len(arriving[c][n]))
  <2>1. /\ Len(arriving[c][n]) >= k
        /\ Fill(c, n, data)
        /\ arriving' = [arriving EXCEPT ![c][n] = rest]
        /\ handlers' = [handlers EXCEPT ![n] =
             Append(@, completion(Head(pending[c][n]).op, peer_of(c, n), FALSE))]
    BY <1>4 DEF ReadCompletes
  <2>2. Head(pending[c][n]) \in Read
    BY <1>1, <1>2
  <2>3. k \in Nat
    BY <2>2 DEF Read
  <2>4. data \in Seq(Word) /\ rest \in Seq(Word)
    <3> HIDE DEF k
    <3> QED
      BY <1>2, <2>1, <2>3
  <2> HIDE DEF data, rest
  <2> QED
    BY <1>1, <2>1, <2>4, ReadEnds
<1> QED
  BY <1>3, <1>4 DEF Reads

LEMMA InitSockets == Init => SocketsInv
<1> SUFFICES ASSUME Init PROVE SocketsInv
  OBVIOUS
<1>1. zero \in Word
  BY DEF zero, Word
<1>2. /\ <<>> \in Seq(Word) /\ <<>> \in Seq(Completion) /\ <<>> \in Seq(Read)
      /\ <<>> \in Seq(Peers) /\ <<>> \in Seq(Connection) /\ <<>> \in Seq(Sent)
      /\ <<>> \in Seq(Sent \cup {Misread})
  OBVIOUS
<1>3. Shape
  BY <1>1, <1>2 DEF Init, Shape, Socket
<1>4. made = {}
  BY DEF Init, made
<1>5. ConnectionsInv
  BY <1>4 DEF Init, ConnectionsInv
<1>6. TableInv
  BY DEF Init, TableInv, EntryInv, ReadsInv, BacklogInv
<1> QED
  BY <1>3, <1>5, <1>6 DEF SocketsInv

LEMMA NextKeepsSockets ==
  ASSUME SocketsInv, [Next]_vars PROVE SocketsInv'
<1>1. ASSUME NEW s \in Traffic, Send(s) \/ SendFails(s) \/ PingFails(s) PROVE SocketsInv'
  BY <1>1, SendKeepsSockets, SendFailsKeepsSockets, PingFailsKeepsSockets
<1>2. ASSUME NEW n \in Node, Run(n) PROVE SocketsInv'
  BY <1>2, AcceptKeepsSockets, SizeReadKeepsSockets, SizeErrorKeepsSockets,
     BodyReadKeepsSockets, ErrorsKeepSockets DEF Run
<1>3. ASSUME NEW n \in Node, shutdown(n) PROVE SocketsInv'
  <2>1. /\ stopped' \subseteq Node
        /\ UNCHANGED <<sockets_by_id, length_buffers, incoming_message_buffers, handlers,
                       handled, pending, connections, ends, arriving, backlog, broken,
                       unsent, sent>>
    BY <1>3, NodeAssumption DEF shutdown, buffers, transport, SocketsInv, Shape
  <2>2. Shape'
    BY <2>1 DEF SocketsInv, Shape
  <2>3. broken' \subseteq made /\ \A d \in Connection, m \in Node : arriving'[d][m] # <<>> => joins(d, m)
    BY <2>1 DEF SocketsInv, ConnectionsInv, TableInv, ReadsInv
  <2> QED
    BY <2>1, <2>2, <2>3, SocketsKept
<1>4. ASSUME NEW c \in Connection, Break(c) PROVE SocketsInv'
  <2>1. /\ broken' = broken \cup {c} /\ c \in made
        /\ UNCHANGED <<sockets_by_id, length_buffers, incoming_message_buffers, stopped,
                       handlers, handled, pending, connections, ends, arriving, backlog,
                       unsent, sent>>
    BY <1>4 DEF Break, node, buffers, made
  <2>2. Shape'
    BY <2>1 DEF SocketsInv, Shape
  <2>3. broken' \subseteq made /\ \A d \in Connection, m \in Node : arriving'[d][m] # <<>> => joins(d, m)
    BY <2>1 DEF SocketsInv, ConnectionsInv, TableInv, ReadsInv
  <2> QED
    BY <2>1, <2>2, <2>3, SocketsKept
<1>5. ASSUME NEW c \in Connection, NEW n \in Node, Reads(c, n) PROVE SocketsInv'
  BY <1>5, ReadsKeepSockets
<1>6. CASE UNCHANGED vars
  <2>1. UNCHANGED <<sockets_by_id, length_buffers, incoming_message_buffers, stopped,
                    handlers, handled, pending, connections, ends, arriving, backlog,
                    broken, unsent, sent>>
    BY <1>6 DEF vars, node, buffers, transport
  <2>2. Shape'
    BY <2>1 DEF SocketsInv, Shape
  <2>3. broken' \subseteq made /\ \A d \in Connection, m \in Node : arriving'[d][m] # <<>> => joins(d, m)
    BY <2>1 DEF SocketsInv, ConnectionsInv, TableInv, ReadsInv
  <2> QED
    BY <2>1, <2>2, <2>3, SocketsKept
<1> QED
  BY <1>1, <1>2, <1>3, <1>4, <1>5, <1>6 DEF Next

LEMMA SocketsAreTyped == SocketsInv => TypeOK
<1> SUFFICES ASSUME SocketsInv PROVE TypeOK
  OBVIOUS
<1>1. Shape /\ ConnectionsInv /\ TableInv
  BY DEF SocketsInv
<1>2. \A n \in Node : backlog[n] \in Seq(1 .. Len(connections))
  <2> TAKE n \in Node
  <2>1. backlog[n] \in Seq(Connection)
    BY <1>1 DEF Shape
  <2>2. \A i \in 1 .. Len(backlog[n]) : backlog[n][i] \in 1 .. Len(connections)
    BY <1>1 DEF TableInv, BacklogInv, made
  <2>3. Len(backlog[n]) \in Nat /\ backlog[n] = [i \in 1 .. Len(backlog[n]) |-> backlog[n][i]]
    BY <2>1
  <2> QED
    BY <2>2, <2>3
<1>3. \A n, p \in Node : sockets_by_id[n][p] # NoSocket =>
        /\ sockets_by_id[n][p] \in 1 .. Len(connections)
        /\ n \in ends[sockets_by_id[n][p]]
        /\ peer_of(sockets_by_id[n][p], n) = p
  BY <1>1 DEF TableInv, EntryInv, joins, made
<1>4. \A n \in Node, c \in Connection : pending[c][n] # <<>> => n \in ends[c]
  <2> TAKE n \in Node, c \in Connection
  <2> HAVE pending[c][n] # <<>>
  <2>1. joins(c, n) /\ sockets_by_id[n][peer_of(c, n)] = c
    BY <1>1 DEF TableInv, ReadsInv
  <2>2. peer_of(c, n) \in Node
    BY <1>1, <2>1, PeerType
  <2> QED
    BY <1>3, <2>1, <2>2, ValuesAssumption
<1>5. connections \in Seq([from : Node, to : Node])
  BY <1>1 DEF Shape, Peers
<1> QED
  BY <1>1, <1>2, <1>3, <1>4, <1>5 DEF TypeOK, Shape

\* The variables have their types, an entry of sockets_by_id is an open socket of
\* a connection with the peer it is the entry of, and a read waits on open
\* sockets only: however the sends cross, the connections break and the handlers
\* of both ends erase the entries (make_socket, do_accept, the handle_ functions).
THEOREM NetworkTypeCorrect == Spec => []TypeOK
<1>1. Init => SocketsInv
  BY InitSockets
<1>2. SocketsInv /\ [Next]_vars => SocketsInv'
  BY NextKeepsSockets
<1>3. SocketsInv => TypeOK
  BY SocketsAreTyped
<1> QED
  BY <1>1, <1>2, <1>3, PTL DEF Spec

-----------------------------------------------------------------------------
(* Messages *)

LEMMA WithinPieces ==
  ASSUME NEW w \in Seq(Word), NEW S, within(w, S)
  PROVE  /\ \A v \in Seq(Word) : within(v, S) => within(w \o v, S) /\ within(stored(v, w), S)
         /\ \A i \in 1 .. Len(w) + 1, j \in 0 .. Len(w) : within(SubSeq(w, i, j), S)
         /\ \A k \in Nat : within(resize(w, k), S)
         /\ Range(receive_message(w)) \subseteq S \cup {Misread}
<1>1. ASSUME NEW v \in Seq(Word), within(v, S) PROVE within(w \o v, S)
  <2>1. \A i \in 1 .. Len(w \o v) :
          \/ i \in 1 .. Len(w) /\ (w \o v)[i] = w[i]
          \/ i - Len(w) \in 1 .. Len(v) /\ (w \o v)[i] = v[i - Len(w)]
    OBVIOUS
  <2> QED
    BY <1>1, <2>1 DEF within
<1>2. ASSUME NEW v \in Seq(Word), within(v, S) PROVE within(stored(v, w), S)
  <2>1. Len(stored(v, w)) = Len(w)
    BY StoredType
  <2>2. \A i \in 1 .. Len(w) : stored(v, w)[i] = IF i <= Len(v) THEN v[i] ELSE w[i]
    BY DEF stored
  <2>3. \A i \in 1 .. Len(w) : i <= Len(v) => i \in 1 .. Len(v)
    OBVIOUS
  <2> QED
    BY <1>2, <2>1, <2>2, <2>3 DEF within
<1>3. ASSUME NEW i \in 1 .. Len(w) + 1, NEW j \in 0 .. Len(w) PROVE within(SubSeq(w, i, j), S)
  <2>1. \A k \in 1 .. Len(SubSeq(w, i, j)) :
          k + i - 1 \in 1 .. Len(w) /\ SubSeq(w, i, j)[k] = w[k + i - 1]
    OBVIOUS
  <2> QED
    BY <2>1 DEF within
<1>4. ASSUME NEW k \in Nat PROVE within(resize(w, k), S)
  <2>1. Len(resize(w, k)) = k
    BY ResizeType
  <2>2. \A i \in 1 .. k : resize(w, k)[i] = IF i <= Len(w) THEN w[i] ELSE zero
    BY DEF resize
  <2>3. \A i \in 1 .. k : i <= Len(w) => i \in 1 .. Len(w)
    OBVIOUS
  <2>4. zero.is # "message"
    BY DEF zero
  <2> QED
    BY <2>1, <2>2, <2>3, <2>4 DEF within
<1>5. Range(receive_message(w)) \subseteq S \cup {Misread}
  <2>1. Range(<<Misread>>) = {Misread}
    BY DEF Range
  <2>2. CASE \A i \in 2 .. Len(w) : w[i].is = "message"
    <3>1. \A i \in 1 .. Len(w) - 1 : i + 1 \in 2 .. Len(w) /\ i + 1 \in 1 .. Len(w)
      OBVIOUS
    <3>2. \A i \in 1 .. Len(w) - 1 : w[i + 1].value \in S
      BY <2>2, <3>1 DEF within
    <3>3. Range([i \in 1 .. Len(w) - 1 |-> w[i + 1].value]) \subseteq S
      BY <3>2 DEF Range
    <3> QED
      BY <2>1, <3>3 DEF receive_message
  <2>3. CASE ~ \A i \in 2 .. Len(w) : w[i].is = "message"
    BY <2>1, <2>3 DEF receive_message
  <2> QED
    BY <2>2, <2>3
<1> QED
  BY <1>1, <1>2, <1>3, <1>4, <1>5

\* The frame of a send holds messages that have been sent to its recipient.
LEMMA FrameIsSent ==
  ASSUME SocketsInv, NEW s \in Traffic, NEW c \in Connection, SendBegins(s, c)
  PROVE  within(send_buffer(s), Range(sent'[s.from][s.to]))
<1>1. s.from \in Node /\ s.to \in Node /\ s.messages \in Seq(Sent)
  BY SendType
<1>2. sent \in [Node -> [Node -> Seq(Sent)]]
  BY DEF SocketsInv, Shape
<1>3. CASE s.overload = "PingMessage"
  <2>1. send_buffer(s) = <<size(1)>>
    BY <1>3 DEF send_buffer
  <2> QED
    BY <2>1 DEF within, size
<1>4. CASE s.overload # "PingMessage"
  <2> DEFINE a == sent[s.from][s.to]
             m == s.messages
  <2>1. sent'[s.from][s.to] = a \o m
    BY <1>1, <1>2, <1>4 DEF SendBegins
  <2>2. a \in Seq(Sent) /\ m \in Seq(Sent)
    BY <1>1, <1>2
  <2>3. \A i \in 1 .. Len(m) : m[i] \in Range(a \o m)
    <3> HIDE DEF a, m
    <3>1. \A i \in 1 .. Len(m) : /\ Len(a) + i \in DOMAIN (a \o m)
                                 /\ (a \o m)[Len(a) + i] = m[i]
      BY <2>2
    <3> QED
      BY <3>1 DEF Range
  <2> DEFINE header == IF has_header(s) THEN <<num_messages(Len(m))>> ELSE <<>>
             all == words(m)
             h == <<size(Len(header \o all))>>
             S == Range(a \o m)
  <2>4. send_buffer(s) = h \o (header \o all)
    BY <1>4 DEF send_buffer
  <2>5. /\ DOMAIN all = 1 .. Len(m) /\ Len(m) \in Nat
        /\ \A i \in 1 .. Len(m) : all[i].value = m[i]
    BY <2>2 DEF words, message
  <2>6. Len(all) = Len(m)
    <3> HIDE DEF all
    <3> QED
      BY <2>5
  <2>7. header \in Seq(Word) /\ all \in Seq(Word) /\ h \in Seq(Word)
    <3>1. \A k \in Nat : size(k) \in Word /\ num_messages(k) \in Word
      BY DEF size, num_messages, Word
    <3>2. header \in Seq(Word)
      BY <2>5, <3>1
    <3>3. all \in Seq(Word)
      <4>1. \A i \in 1 .. Len(m) : message(m[i]) \in Word
        BY <2>2 DEF message, Word
      <4>2. DOMAIN m = 1 .. Len(m)
        BY <2>2
      <4> QED
        BY <2>5, <4>1, <4>2 DEF words
    <3>4. Len(header \o all) \in Nat
      BY <3>2, <3>3
    <3> QED
      BY <3>1, <3>2, <3>3, <3>4
  <2>8. within(header, S) /\ within(h, S)
    BY DEF within, num_messages, size
  <2>9. within(all, S)
    BY <2>3, <2>5, <2>6 DEF within
  <2>10. header \o all \in Seq(Word)
    BY <2>7
  <2> HIDE DEF header, all, h, a, S
  <2>11. within(header \o all, S)
    BY <2>7, <2>8, <2>9, WithinPieces
  <2>12. within(h \o (header \o all), S)
    BY <2>7, <2>8, <2>10, <2>11, WithinPieces
  <2> QED
    BY <2>1, <2>4, <2>12 DEF S
<1> QED
  BY <1>3, <1>4

\* A step that leaves the buffers and what has been handled as they are.
LEMMA MessagesKept ==
  ASSUME SocketsInv, MessagesInv,
         UNCHANGED <<length_buffers, incoming_message_buffers, handled>>,
         \A n, p \in Node : Range(sent[n][p]) \subseteq Range(sent'[n][p]),
         \A c \in Connection, n \in Node : ArrivingInv(c, n)'
  PROVE  MessagesInv'
<1>1. ASSUME NEW n \in Node, NEW p \in Node PROVE BuffersInv(n, p)'
  <2>1. BuffersInv(n, p) /\ Range(sent[p][n]) \subseteq Range(sent'[p][n])
    BY DEF MessagesInv
  <2> QED
    BY <2>1 DEF BuffersInv, within
<1> QED
  BY <1>1 DEF MessagesInv

\* And what arrives.
LEMMA ArrivingKept ==
  ASSUME SocketsInv, MessagesInv,
         UNCHANGED <<length_buffers, incoming_message_buffers, handled, arriving, connections>>,
         \A n, p \in Node : Range(sent[n][p]) \subseteq Range(sent'[n][p])
  PROVE  MessagesInv'
<1>1. ASSUME NEW c \in Connection, NEW n \in Node PROVE ArrivingInv(c, n)'
  <2> SUFFICES ASSUME arriving[c][n] # <<>> PROVE ArrivingInv(c, n)'
    BY DEF ArrivingInv
  <2>1. joins(c, n)
    BY DEF SocketsInv, TableInv, ReadsInv
  <2>2. peer_of(c, n) \in Node
    BY <2>1, PeerType DEF SocketsInv
  <2>3. peer_of(c, n)' = peer_of(c, n)
    BY SameConnections
  <2>4. ArrivingInv(c, n) /\ Range(sent[peer_of(c, n)][n]) \subseteq Range(sent'[peer_of(c, n)][n])
    BY <2>2 DEF MessagesInv
  <2> QED
    BY <2>3, <2>4 DEF ArrivingInv, within
<1> QED
  BY <1>1, MessagesKept

LEMMA SendKeepsMessages ==
  ASSUME SocketsInv, MessagesInv, NEW s \in Traffic, Send(s) PROVE MessagesInv'
<1> PICK c \in Connection : /\ SendBegins(s, c) /\ initialize_socket(s, c)
                            /\ arriving' = IF may_fail(c, s.to) THEN arriving
                                 ELSE [arriving EXCEPT ![c][s.to] = @ \o send_buffer(s)]
  BY DEF Send
<1>1. s.from \in Node /\ s.to \in Node /\ s.from # s.to /\ send_buffer(s) \in Seq(Word)
  BY SendType, BufferType
<1>2. \A n, p \in Node : Range(sent[n][p]) \subseteq Range(sent'[n][p])
  BY SendBeginsType
<1>3. /\ arriving \in [Connection -> [Node -> Seq(Word)]] /\ Len(connections) \in Nat
      /\ connections \in Seq(Peers)
  BY DEF SocketsInv, Shape
<1>4. UNCHANGED <<length_buffers, incoming_message_buffers, handled>> /\ c = socket(s.from, s.to)
  BY DEF SendBegins, buffers
<1> DEFINE k == [from |-> s.from, to |-> s.to]
<1>5. \A d, m : joins(d, m) => peer_of(d, m)' = peer_of(d, m)
  <2>1. CASE connections' = connections
    BY <2>1, SameConnections
  <2>2. CASE connections' = Append(connections, k)
    <3>1. k \in Peers
      BY <1>1 DEF Peers
    <3> HIDE DEF k
    <3> QED
      BY <2>2, <3>1, ConnectionsGrow DEF SocketsInv
  <2> QED
    BY <2>1, <2>2 DEF initialize_socket
\* What arrived before, and the frame.
<1>6. ASSUME NEW d \in Connection, NEW m \in Node, arriving[d][m] # <<>>
      PROVE  within(arriving[d][m], Range(sent'[peer_of(d, m)'][m]))
  <2>1. joins(d, m)
    BY <1>6 DEF SocketsInv, TableInv, ReadsInv
  <2>2. peer_of(d, m) \in Node /\ peer_of(d, m)' = peer_of(d, m)
    BY <1>5, <2>1, PeerType DEF SocketsInv
  <2>3. ArrivingInv(d, m)
    BY DEF MessagesInv
  <2>4. Range(sent[peer_of(d, m)][m]) \subseteq Range(sent'[peer_of(d, m)][m])
    BY <1>2, <2>2
  <2> QED
    BY <1>6, <2>2, <2>3, <2>4 DEF ArrivingInv, within
<1>7. within(send_buffer(s), Range(sent'[s.from][s.to]))
  BY FrameIsSent
<1>8. peer_of(c, s.to)' = s.from
  <2>1. CASE c <= Len(connections)
    <3>1. c # Len(connections) + 1
      BY <1>3, <2>1
    <3>2. sockets_by_id[s.from][s.to] = c
      BY <1>4, <3>1, Zenon DEF socket
    <3>3. joins(c, s.from) /\ peer_of(c, s.from) = s.to
      BY <1>1, <3>2, ValuesAssumption DEF SocketsInv, TableInv, EntryInv
    <3>4. joins(c, s.to) /\ peer_of(c, s.to) = s.from
      BY <1>1, <3>3 DEF joins, peer_of
    <3> QED
      BY <1>5, <3>4
  <2>2. CASE c > Len(connections)
    <3>1. connections' = Append(connections, k)
      BY <2>2 DEF initialize_socket
    <3>2. c # Len(connections) + 1 => sockets_by_id[s.from][s.to] = c
      BY <1>4, Zenon DEF socket
    <3>3. sockets_by_id[s.from][s.to] = c => c \in made
      BY <1>1, ValuesAssumption DEF SocketsInv, TableInv, EntryInv, joins
    <3>4. c = Len(connections) + 1
      BY <1>3, <2>2, <3>2, <3>3 DEF made
    <3>5. k \in Peers /\ k.from = s.from /\ k.to = s.to
      BY <1>1 DEF Peers
    <3> HIDE DEF k
    <3>6. connections'[c] = k
      BY <1>3, <3>1, <3>4, <3>5
    <3> QED
      BY <3>5, <3>6 DEF peer_of
  <2> QED
    BY <1>3, <2>1, <2>2 DEF Connection
<1>9. ASSUME NEW d \in Connection, NEW m \in Node PROVE ArrivingInv(d, m)'
  <2>1. CASE arriving'[d][m] = arriving[d][m]
    BY <1>6, <2>1 DEF ArrivingInv
  <2>2. CASE arriving'[d][m] # arriving[d][m]
    <3>1. d = c /\ m = s.to /\ arriving'[d][m] = arriving[c][s.to] \o send_buffer(s)
      BY <1>1, <1>3, <2>2
    <3>2. arriving[c][s.to] \in Seq(Word)
      BY <1>1, <1>3
    <3>3. within(arriving[c][s.to], Range(sent'[s.from][s.to]))
      <4>1. CASE arriving[c][s.to] # <<>>
        BY <1>1, <1>6, <1>8, <4>1
      <4>2. CASE arriving[c][s.to] = <<>>
        BY <4>2 DEF within
      <4> QED
        BY <4>1, <4>2
    <3>4. within(arriving[c][s.to] \o send_buffer(s), Range(sent'[s.from][s.to]))
      BY <1>1, <1>7, <3>2, <3>3, WithinPieces
    <3> QED
      BY <1>8, <3>1, <3>4 DEF ArrivingInv
  <2> QED
    BY <2>1, <2>2
<1> QED
  BY <1>2, <1>4, <1>9, MessagesKept

LEMMA ReadsKeepMessages ==
  ASSUME SocketsInv, MessagesInv, NEW c \in Connection, NEW n \in Node, Reads(c, n)
  PROVE  MessagesInv'
<1> DEFINE p == peer_of(c, n)
           S == Range(sent[p][n])
<1>1. pending[c][n] # <<>> /\ UNCHANGED <<handled, connections, sent>>
  BY DEF Reads, ReadCompletes, ReadFails
<1>2. joins(c, n)
  BY <1>1 DEF SocketsInv, TableInv, ReadsInv
<1>3. p \in Node
  BY <1>2, PeerType DEF SocketsInv
<1>4. /\ arriving \in [Connection -> [Node -> Seq(Word)]]
      /\ length_buffers \in [Node -> [Node -> Word]]
      /\ incoming_message_buffers \in [Node -> [Node -> Seq(Word)]]
      /\ pending[c][n] \in Seq(Read)
  BY DEF SocketsInv, Shape
<1>5. arriving[c][n] \in Seq(Word) /\ within(arriving[c][n], S)
  <2>1. ArrivingInv(c, n)
    BY DEF MessagesInv
  <2>2. arriving[c][n] = <<>> => within(arriving[c][n], S)
    BY DEF within
  <2> QED
    BY <1>4, <2>1, <2>2 DEF ArrivingInv
\* The words read and those left are words that arrived.
<1>6. PICK data \in Seq(Word), rest \in Seq(Word) :
        /\ Fill(c, n, data) /\ arriving' = [arriving EXCEPT ![c][n] = rest]
        /\ within(data, S) /\ within(rest, S)
  <2> HIDE DEF S
  <2>1. CASE ReadFails(c, n)
    <3>1. Fill(c, n, arriving[c][n]) /\ arriving' = [arriving EXCEPT ![c][n] = <<>>]
      BY <2>1 DEF ReadFails
    <3>2. <<>> \in Seq(Word) /\ within(<<>>, S)
      BY DEF within
    <3> QED
      BY <1>5, <3>1, <3>2
  <2>2. CASE ReadCompletes(c, n)
    <3> DEFINE k == Head(pending[c][n]).words
               w == arriving[c][n]
    <3>1. /\ Len(w) >= k
          /\ Fill(c, n, SubSeq(w, 1, k))
          /\ arriving' = [arriving EXCEPT ![c][n] = SubSeq(w, k + 1, Len(w))]
      BY <2>2 DEF ReadCompletes
    <3>2. Head(pending[c][n]) \in Read
      BY <1>1, <1>4
    <3>3. k \in Nat
      BY <3>2 DEF Read
    <3> HIDE DEF k, w
    <3>4. w \in Seq(Word) /\ within(w, S)
      BY <1>5 DEF w
    <3>5. 1 \in 1 .. Len(w) + 1 /\ k + 1 \in 1 .. Len(w) + 1 /\ k \in 0 .. Len(w) /\ Len(w) \in 0 .. Len(w)
      BY <3>1, <3>3, <3>4
    <3>6. within(SubSeq(w, 1, k), S) /\ within(SubSeq(w, k + 1, Len(w)), S)
      BY <3>4, <3>5, WithinPieces
    <3>7. SubSeq(w, 1, k) \in Seq(Word) /\ SubSeq(w, k + 1, Len(w)) \in Seq(Word)
      BY <3>1, <3>3, <3>4
    <3> QED
      BY <3>1, <3>6, <3>7
  <2> QED
    BY <2>1, <2>2 DEF Reads
<1> HIDE DEF p
<1>7. ASSUME NEW d \in Connection, NEW m \in Node PROVE ArrivingInv(d, m)'
  <2>1. ArrivingInv(d, m) /\ peer_of(d, m)' = peer_of(d, m)
    BY <1>1, SameConnections DEF MessagesInv
  <2>2. arriving'[d][m] = IF d = c /\ m = n THEN rest ELSE arriving[d][m]
    BY <1>4, <1>6
  <2> QED
    BY <1>1, <1>6, <2>1, <2>2 DEF ArrivingInv, p
<1>8. ASSUME NEW m \in Node, NEW q \in Node PROVE BuffersInv(m, q)'
  <2>1. BuffersInv(m, q)
    BY DEF MessagesInv
  <2>2. BuffersInv(n, p)
    BY <1>3 DEF MessagesInv
  <2>3. CASE Head(pending[c][n]).op = "size"
    <3>1. /\ length_buffers' = IF data = <<>> THEN length_buffers
                               ELSE [length_buffers EXCEPT ![n][p] = data[1]]
          /\ UNCHANGED incoming_message_buffers
      BY <1>6, <2>3 DEF Fill, p
    <3>2. length_buffers'[m][q] = length_buffers[m][q]
            \/ (data # <<>> /\ m = n /\ q = p /\ length_buffers'[m][q] = data[1])
      BY <1>3, <1>4, <3>1
    <3>3. data # <<>> => 1 \in 1 .. Len(data)
      OBVIOUS
    <3> QED
      BY <1>1, <1>6, <2>1, <3>1, <3>2, <3>3 DEF BuffersInv, within
  <2>4. CASE Head(pending[c][n]).op # "size"
    <3>1. /\ \/ incoming_message_buffers' = [incoming_message_buffers EXCEPT ![n][p] =
                                               stored(data, incoming_message_buffers[n][p])]
             \/ UNCHANGED incoming_message_buffers
          /\ UNCHANGED length_buffers
      BY <1>6, <2>4 DEF Fill, p
    <3>2. within(stored(data, incoming_message_buffers[n][p]), S)
      BY <1>3, <1>4, <1>6, <2>2, WithinPieces DEF BuffersInv
    <3>3. incoming_message_buffers'[m][q] = incoming_message_buffers[m][q]
            \/ (m = n /\ q = p
                /\ incoming_message_buffers'[m][q] = stored(data, incoming_message_buffers[n][p]))
      <4> DEFINE new == stored(data, incoming_message_buffers[n][p])
      <4> HIDE DEF new
      <4>1. CASE incoming_message_buffers' = [incoming_message_buffers EXCEPT ![n][p] = new]
        <5>1. incoming_message_buffers'[m][q] = IF m = n /\ q = p THEN new
                                                ELSE incoming_message_buffers[m][q]
          BY <1>3, <1>4, <4>1
        <5> QED
          BY <5>1 DEF new
      <4>2. CASE UNCHANGED incoming_message_buffers
        BY <4>2
      <4> QED
        BY <3>1, <4>1, <4>2 DEF new
    <3>4. within(incoming_message_buffers'[m][q], Range(sent[q][m]))
      BY <2>1, <3>2, <3>3 DEF BuffersInv
    <3> QED
      BY <1>1, <2>1, <3>1, <3>4 DEF BuffersInv
  <2> QED
    BY <2>3, <2>4
<1> QED
  BY <1>7, <1>8 DEF MessagesInv

LEMMA HandlersKeepMessages ==
  ASSUME SocketsInv, MessagesInv, NEW n \in Node, handle_size_read(n) \/ handle_body_read(n)
  PROVE  MessagesInv'
<1> DEFINE p == handler(n).peer
<1>1. handlers[n] # <<>> /\ UNCHANGED <<length_buffers, arriving, connections, sent>>
  BY DEF handle_size_read, handle_body_read, Completes, buffers
<1>2. p \in Node
  BY <1>1, HandlerType
<1>3. /\ incoming_message_buffers \in [Node -> [Node -> Seq(Word)]]
      /\ handled \in [Node -> [Node -> Seq(Sent \cup {Misread})]]
      /\ length_buffers \in [Node -> [Node -> Word]]
  BY DEF SocketsInv, Shape
<1> DEFINE w == incoming_message_buffers[n][p]
           S == Range(sent[p][n])
<1>4. w \in Seq(Word) /\ within(w, S) /\ handled[n][p] \in Seq(Sent \cup {Misread})
      /\ length_buffers[n][p] \in Word /\ Range(handled[n][p]) \subseteq S \cup {Misread}
  BY <1>2, <1>3 DEF MessagesInv, BuffersInv
<1> HIDE DEF p, w, S
\* The buffer is as it was or resized, and what is handled more was in it.
<1>5. /\ \/ UNCHANGED incoming_message_buffers
         \/ \E k \in Nat : incoming_message_buffers' =
                             [incoming_message_buffers EXCEPT ![n][p] = resize(w, k)]
      /\ \/ UNCHANGED handled
         \/ \E what \in Seq(Sent \cup {Misread}) :
              /\ Range(what) \subseteq S \cup {Misread}
              /\ handled' = [handled EXCEPT ![n][p] = @ \o what]
  <2>1. <<Misread>> \in Seq(Sent \cup {Misread}) /\ Range(<<Misread>>) \subseteq S \cup {Misread}
    BY DEF Range
  <2>2. receive_message(w) \in Seq(Sent \cup {Misread})
        /\ Range(receive_message(w)) \subseteq S \cup {Misread}
    BY <1>4, ReceiveType, WithinPieces
  <2>3. length_buffers[n][p].is = "size" => length_buffers[n][p].value \in Nat
    BY <1>4 DEF Word
  <2>4. CASE handle_size_read(n)
    BY <2>1, <2>3, <2>4 DEF handle_size_read, Handles, p, w
  <2>5. CASE handle_body_read(n)
    BY <2>2, <2>5 DEF handle_body_read, Handles, buffers, p, w
  <2> QED
    BY <2>4, <2>5
<1>6. ASSUME NEW m \in Node, NEW q \in Node PROVE BuffersInv(m, q)'
  <2>1. BuffersInv(m, q)
    BY DEF MessagesInv
  <2>2. incoming_message_buffers'[m][q] = incoming_message_buffers[m][q]
          \/ (m = n /\ q = p /\ \E k \in Nat : incoming_message_buffers'[m][q] = resize(w, k))
    <3>1. CASE UNCHANGED incoming_message_buffers
      BY <3>1
    <3>2. ASSUME NEW k \in Nat, incoming_message_buffers' =
                                   [incoming_message_buffers EXCEPT ![n][p] = resize(w, k)]
          PROVE  incoming_message_buffers'[m][q] = IF m = n /\ q = p THEN resize(w, k)
                                                   ELSE incoming_message_buffers[m][q]
      <4> DEFINE new == resize(w, k)
      <4> HIDE DEF new
      <4>1. incoming_message_buffers' = [incoming_message_buffers EXCEPT ![n][p] = new]
        BY <3>2 DEF new
      <4>2. incoming_message_buffers'[m][q] = IF m = n /\ q = p THEN new
                                              ELSE incoming_message_buffers[m][q]
        BY <1>2, <1>3, <4>1
      <4> QED
        BY <4>2 DEF new
    <3> QED
      BY <1>5, <3>1, <3>2
  <2>3. within(incoming_message_buffers'[m][q], Range(sent[q][m]))
    BY <1>4, <2>1, <2>2, WithinPieces DEF BuffersInv, S
  <2>4. Range(handled'[m][q]) \subseteq Range(sent[q][m]) \cup {Misread}
    <3>1. CASE UNCHANGED handled
      BY <2>1, <3>1 DEF BuffersInv
    <3>2. CASE \E what \in Seq(Sent \cup {Misread}) :
                 /\ Range(what) \subseteq S \cup {Misread}
                 /\ handled' = [handled EXCEPT ![n][p] = @ \o what]
      <4> PICK what \in Seq(Sent \cup {Misread}) :
                 /\ Range(what) \subseteq S \cup {Misread}
                 /\ handled' = [handled EXCEPT ![n][p] = @ \o what]
        BY <3>2
      <4>1. handled'[m][q] = IF m = n /\ q = p THEN handled[n][p] \o what ELSE handled[m][q]
        BY <1>2, <1>3
      <4>2. Range(handled[n][p] \o what) = Range(handled[n][p]) \cup Range(what)
        BY <1>4, RangeConcatenation
      <4> QED
        BY <1>4, <2>1, <4>1, <4>2 DEF BuffersInv, S
    <3> QED
      BY <1>5, <3>1, <3>2
  <2> QED
    BY <1>1, <2>1, <2>3, <2>4 DEF BuffersInv
<1>7. ASSUME NEW d \in Connection, NEW m \in Node PROVE ArrivingInv(d, m)'
  <2>1. ArrivingInv(d, m) /\ peer_of(d, m)' = peer_of(d, m)
    BY <1>1, SameConnections DEF MessagesInv
  <2> QED
    BY <1>1, <2>1 DEF ArrivingInv
<1> QED
  BY <1>6, <1>7 DEF MessagesInv

LEMMA NextKeepsMessages ==
  ASSUME SocketsInv, MessagesInv, [Next]_vars PROVE MessagesInv'
<1>1. ASSUME NEW s \in Traffic, SendFails(s) \/ PingFails(s) PROVE MessagesInv'
  <2>1. PICK c \in Connection : SendBegins(s, c) /\ UNCHANGED <<connections, arriving>>
    BY <1>1 DEF SendFails, PingFails
  <2>2. UNCHANGED <<length_buffers, incoming_message_buffers, handled>>
    BY <2>1 DEF SendBegins, buffers
  <2>3. \A n, p \in Node : Range(sent[n][p]) \subseteq Range(sent'[n][p])
    BY <2>1, SendBeginsType
  <2> QED
    BY <2>1, <2>2, <2>3, ArrivingKept
<1>2. CASE UNCHANGED <<length_buffers, incoming_message_buffers, handled, arriving, connections,
                       sent>>
  <2>1. \A n, p \in Node : Range(sent[n][p]) \subseteq Range(sent'[n][p])
    BY <1>2
  <2> QED
    BY <1>2, <2>1, ArrivingKept
<1>3. ASSUME NEW n \in Node, Run(n) \/ shutdown(n) PROVE MessagesInv'
  <2>1. CASE handle_size_read(n) \/ handle_body_read(n)
    BY <2>1, HandlersKeepMessages
  <2>2. CASE Accept(n)
    BY <1>2, <2>2 DEF Accept, buffers
  <2>3. CASE handle_size_read_error(n) \/ handle_body_read_error(n) \/ handle_write_complete(n)
    BY <1>2, <2>3 DEF handle_size_read_error, handle_body_read_error, handle_write_complete,
                      Completes, buffers
  <2>4. CASE shutdown(n)
    BY <1>2, <2>4 DEF shutdown, transport, buffers
  <2> QED
    BY <1>3, <2>1, <2>2, <2>3, <2>4 DEF Run
<1>4. ASSUME NEW c \in Connection, Break(c) PROVE MessagesInv'
  BY <1>2, <1>4 DEF Break, node, buffers
<1>5. CASE UNCHANGED vars
  BY <1>2, <1>5 DEF vars, node, transport, buffers
<1> QED
  BY <1>1, <1>3, <1>4, <1>5, SendKeepsMessages, ReadsKeepMessages DEF Next

LEMMA InitMessages == Init => MessagesInv
<1> SUFFICES ASSUME Init PROVE MessagesInv
  OBVIOUS
<1>1. \A c \in Connection, n \in Node : ArrivingInv(c, n)
  BY DEF Init, ArrivingInv
<1>2. zero.is # "message"
  BY DEF zero
<1>3. ASSUME NEW n \in Node, NEW p \in Node PROVE BuffersInv(n, p)
  <2>1. /\ length_buffers[n][p] = zero /\ incoming_message_buffers[n][p] = <<>>
        /\ handled[n][p] = <<>>
    BY DEF Init
  <2>2. Range(<<>>) = {}
    BY DEF Range
  <2> QED
    BY <1>2, <2>1, <2>2 DEF BuffersInv, within
<1> QED
  BY <1>1, <1>3 DEF MessagesInv

\* Whatever the handlers of a node make of the words they read, by whichever
\* connections these came, they hand nothing on but messages that this peer has
\* sent to this node (receive_message, handle_size_read and handle_body_read).
THEOREM OnlySentIsHandled == Spec => []OnlyHandlesWhatWasSent
<1>1. Init => SocketsInv /\ MessagesInv
  BY InitSockets, InitMessages
<1>2. SocketsInv /\ MessagesInv /\ [Next]_vars => (SocketsInv /\ MessagesInv)'
  BY NextKeepsSockets, NextKeepsMessages
<1>3. SocketsInv /\ MessagesInv => OnlyHandlesWhatWasSent
  BY DEF MessagesInv, BuffersInv, OnlyHandlesWhatWasSent
<1> QED
  BY <1>1, <1>2, <1>3, PTL DEF Spec

-----------------------------------------------------------------------------
(* The first frame *)

LEMMA ConnectionsOf ==
  ASSUME SocketsInv, NEW n \in Node, NEW p
  PROVE  \A c : c \in connections_of(n, p) <=> joins(c, n) /\ peer_of(c, n) = p
<1>1. DOMAIN connections = made
  BY DEF SocketsInv, Shape, made
<1>2. \A c \in made : connections[c].from # connections[c].to
  BY DEF SocketsInv, ConnectionsInv
<1> QED
  BY <1>1, <1>2 DEF connections_of, joins, peer_of

LEMMA BodyShape ==
  ASSUME NEW s \in Traffic
  PROVE  /\ body(s) \in Seq(Word) /\ Len(body(s)) = Len(s.messages) + 1
         /\ body(s)[1] = num_messages(Len(s.messages)) /\ Len(s.messages) \in Nat
         /\ \A i \in 1 .. Len(s.messages) : body(s)[i + 1] = message(s.messages[i])
<1> DEFINE m == s.messages
           h == num_messages(Len(m))
           all == words(m)
<1>1. m \in Seq(Sent) /\ Len(m) \in Nat /\ DOMAIN m = 1 .. Len(m)
  BY SendType
<1>2. all \in Seq(Word) /\ Len(all) = Len(m)
  <2>1. \A i \in 1 .. Len(m) : message(m[i]) \in Word
    BY <1>1 DEF message, Word
  <2> QED
    BY <1>1, <2>1 DEF words
<1>3. \A i \in 1 .. Len(m) : all[i] = message(m[i])
  BY <1>1 DEF words
<1>4. h \in Word
  BY <1>1 DEF num_messages, Word
<1>5. body(s) = <<h>> \o all
  BY DEF body
<1> HIDE DEF h, all
<1>6. /\ <<h>> \o all \in Seq(Word) /\ Len(<<h>> \o all) = Len(all) + 1
      /\ (<<h>> \o all)[1] = h
      /\ \A i \in 1 .. Len(all) : (<<h>> \o all)[i + 1] = all[i]
  BY <1>2, <1>4
<1> QED
  BY <1>1, <1>2, <1>3, <1>5, <1>6 DEF h

\* What is written for a send that is not a ping, to a meter.
LEMMA SendBuffer ==
  ASSUME NEW s \in Traffic, s.overload # "PingMessage", s.to # UTILITY_NODE_ID
  PROVE  send_buffer(s) = <<size(Len(body(s)))>> \o body(s)
<1>1. has_header(s)
  BY TrafficAssumption DEF has_header
<1> QED
  BY <1>1 DEF send_buffer, body

\* A body that is read as it was written yields the messages of the send.
LEMMA BodyIsUnderstood ==
  ASSUME NEW s \in Traffic PROVE receive_message(body(s)) = s.messages
<1> DEFINE b == body(s)
           m == s.messages
<1>1. /\ b \in Seq(Word) /\ Len(b) = Len(m) + 1 /\ b[1] = num_messages(Len(m))
      /\ Len(m) \in Nat /\ m \in Seq(Sent)
      /\ \A i \in 1 .. Len(m) : b[i + 1] = message(m[i])
  BY BodyShape, SendType
<1> HIDE DEF b, m
<1>2. b # <<>> /\ Head(b) = num_messages(Len(m))
  BY <1>1
<1>3. \A i \in 2 .. Len(b) : b[i].is = "message"
  <2> TAKE i \in 2 .. Len(b)
  <2>1. i - 1 \in 1 .. Len(m) /\ i = (i - 1) + 1
    BY <1>1
  <2>2. b[i] = message(m[i - 1])
    BY <1>1, <2>1
  <2> QED
    BY <2>2 DEF message
<1>4. receive_message(b) = [i \in 1 .. Len(b) - 1 |-> b[i + 1].value]
  BY <1>1, <1>2, <1>3 DEF receive_message, num_messages
<1>5. \A i \in 1 .. Len(m) : b[i + 1].value = m[i]
  <2> TAKE i \in 1 .. Len(m)
  <2>1. b[i + 1] = message(m[i])
    BY <1>1
  <2> QED
    BY <2>1 DEF message
<1>6. Len(b) - 1 = Len(m) /\ m = [i \in 1 .. Len(m) |-> m[i]]
  BY <1>1
<1> QED
  BY <1>4, <1>5, <1>6 DEF b, m

LEMMA BeginsPieces ==
  ASSUME NEW w \in Seq(Word), NEW b \in Seq(Word), begins(w, b)
  PROVE  /\ \A v \in Seq(Word) : begins(w \o v, b)
         /\ SubSeq(w, 1, Len(b)) = b
<1>1. Len(b) <= Len(w) /\ \A i \in 1 .. Len(b) : w[i] = b[i]
  BY DEF begins
<1>2. ASSUME NEW v \in Seq(Word) PROVE begins(w \o v, b)
  <2>1. Len(w \o v) = Len(w) + Len(v) /\ Len(v) \in Nat
    OBVIOUS
  <2>2. \A i \in 1 .. Len(b) : (w \o v)[i] = w[i]
    BY <1>1
  <2> QED
    BY <1>1, <2>1, <2>2 DEF begins
<1>3. SubSeq(w, 1, Len(b)) = b
  <2>1. Len(SubSeq(w, 1, Len(b))) = Len(b)
    BY <1>1
  <2>2. \A i \in 1 .. Len(b) : SubSeq(w, 1, Len(b))[i] = b[i]
    BY <1>1
  <2>3. SubSeq(w, 1, Len(b)) \in Seq(Word)
    BY <1>1
  <2> QED
    BY <2>1, <2>2, <2>3, SeqEqual
<1> QED
  BY <1>2, <1>3

LEMMA BeginsItself ==
  ASSUME NEW b \in Seq(Word) PROVE begins(b, b)
BY DEF begins

\* Behind the first word comes the rest.
LEMMA BeginsTail ==
  ASSUME NEW w \in Seq(Word), NEW x \in Word, NEW b \in Seq(Word), begins(w, <<x>> \o b)
  PROVE  /\ Len(w) >= 1 /\ SubSeq(w, 1, 1) = <<x>> /\ w[1] = x
         /\ begins(SubSeq(w, 2, Len(w)), b)
<1>1. /\ Len(<<x>> \o b) = Len(b) + 1 /\ Len(b) \in Nat /\ Len(w) \in Nat
      /\ (<<x>> \o b)[1] = x
      /\ \A i \in 1 .. Len(b) : (<<x>> \o b)[i + 1] = b[i]
  OBVIOUS
<1>2. Len(b) + 1 <= Len(w) /\ \A i \in 1 .. Len(b) + 1 : w[i] = (<<x>> \o b)[i]
  BY <1>1 DEF begins
<1>3. w[1] = x /\ \A i \in 1 .. Len(b) : w[i + 1] = b[i]
  <2>1. \A i \in 1 .. Len(b) : i + 1 \in 1 .. Len(b) + 1
    BY <1>1
  <2>2. 1 \in 1 .. Len(b) + 1
    BY <1>1
  <2> QED
    BY <1>1, <1>2, <2>1, <2>2
<1>4. Len(SubSeq(w, 2, Len(w))) = Len(w) - 1 /\ \A i \in 1 .. Len(w) - 1 : SubSeq(w, 2, Len(w))[i] = w[i + 1]
  BY <1>1, <1>2
<1>5. begins(SubSeq(w, 2, Len(w)), b)
  BY <1>1, <1>2, <1>3, <1>4 DEF begins
<1>6. SubSeq(w, 1, 1) = <<w[1]>>
  <2>1. SubSeq(w, 1, 1) \in Seq(Word) /\ Len(SubSeq(w, 1, 1)) = 1 /\ SubSeq(w, 1, 1)[1] = w[1]
    BY <1>1, <1>2
  <2> DEFINE v == SubSeq(w, 1, 1)
  <2> HIDE DEF v
  <2>2. v \in Seq(Word) /\ Len(v) = 1
    BY <2>1 DEF v
  <2>3. v = <<v[1]>>
    BY <2>2
  <2> QED
    BY <2>1, <2>3 DEF v
<1> QED
  BY <1>1, <1>2, <1>3, <1>5, <1>6

\* A body is put into a buffer of its length as it is.
LEMMA StoredBody ==
  ASSUME NEW b \in Seq(Word), NEW buffer \in Seq(Word), Len(buffer) = Len(b)
  PROVE  stored(b, buffer) = b
<1>1. DOMAIN buffer = 1 .. Len(b) /\ b = [i \in 1 .. Len(b) |-> b[i]]
  OBVIOUS
<1>2. \A i \in 1 .. Len(b) : i <= Len(b)
  OBVIOUS
<1> QED
  BY <1>1, <1>2 DEF stored

\* What was sent first stays first.
LEMMA PrefixStays ==
  ASSUME NEW a \in Seq(Sent), NEW b \in Seq(Sent), NEW m \in Seq(Sent)
  PROVE  /\ IsPrefix(a, b) => IsPrefix(a, b \o m)
         /\ IsPrefix(m, <<>> \o m)
<1>1. ASSUME IsPrefix(a, b) PROVE IsPrefix(a, b \o m)
  <2>1. Len(a) <= Len(b) /\ SubSeq(a, 1, Len(a)) = SubSeq(b, 1, Len(a))
    BY <1>1 DEF IsPrefix
  <2>2. Len(b \o m) = Len(b) + Len(m) /\ Len(m) \in Nat /\ Len(a) \in Nat /\ Len(b) \in Nat
    OBVIOUS
  <2>3. SubSeq(b \o m, 1, Len(a)) = SubSeq(b, 1, Len(a))
    <3>1. \A i \in 1 .. Len(a) : (b \o m)[i] = b[i]
      BY <2>1
    <3>2. /\ SubSeq(b \o m, 1, Len(a)) = [i \in 1 .. Len(a) |-> (b \o m)[i]]
          /\ SubSeq(b, 1, Len(a)) = [i \in 1 .. Len(a) |-> b[i]]
      BY <2>1, <2>2
    <3> QED
      BY <3>1, <3>2
  <2> QED
    BY <2>1, <2>2, <2>3 DEF IsPrefix
<1>2. IsPrefix(m, <<>> \o m)
  <2>1. <<>> \o m = m
    OBVIOUS
  <2> QED
    BY <2>1 DEF IsPrefix
<1> QED
  BY <1>1, <1>2

-----------------------------------------------------------------------------
(* The handlers that are to run *)

\* This completion is not that of a read from p that has succeeded.
other(e, p) == e.peer # p \/ e.error \/ e.op = "write"

LEMMA ElementsOfConcat ==
  ASSUME NEW S, NEW a \in Seq(S), NEW b \in Seq(S)
  PROVE  \A k \in 1 .. Len(a \o b) :
           \/ k \in 1 .. Len(a) /\ (a \o b)[k] = a[k]
           \/ k - Len(a) \in 1 .. Len(b) /\ (a \o b)[k] = b[k - Len(a)]
OBVIOUS

LEMMA ConcatKeeps ==
  ASSUME NEW S, NEW a \in Seq(S), NEW b \in Seq(S)
  PROVE  /\ Len(a \o b) >= Len(a) /\ Len(a) \in Nat /\ Len(a \o b) \in Nat
         /\ \A i \in 1 .. Len(a) : (a \o b)[i] = a[i]
         /\ <<>> \o b = b
OBVIOUS

\* The first handler is taken off, or none is, and others are added at the end.
LEMMA HandlersKept ==
  ASSUME NEW n \in Node, NEW p, handlers[n] \in Seq(Completion),
         NEW done, done = handlers[n] \/ (handlers[n] # <<>> /\ done = Tail(handlers[n])),
         NEW more \in Seq(Completion), \A i \in 1 .. Len(more) : other(more[i], p),
         handlers'[n] = done \o more
  PROVE  /\ read_from(n, p)' # {} => read_from(n, p) # {}
         /\ \A op : has_read(n, p, op)' => has_read(n, p, op)
         /\ one_read(n, p) => one_read(n, p)'
         /\ done # handlers[n] /\ one_read(n, p) /\ ~other(handlers[n][1], p) =>
              read_from(n, p)' = {}
<1>1. PICK d \in {0, 1} :
        /\ done \in Seq(Completion) /\ Len(done) = Len(handlers[n]) - d
        /\ \A k \in 1 .. Len(done) : k + d \in 1 .. Len(handlers[n]) /\ done[k] = handlers[n][k + d]
        /\ done # handlers[n] => d = 1 /\ 1 \in 1 .. Len(handlers[n])
  <2>1. CASE done = handlers[n]
    <3>1. \A k \in 1 .. Len(done) : k + 0 = k
      BY <2>1
    <3> QED
      BY <2>1, <3>1
  <2>2. CASE handlers[n] # <<>> /\ done = Tail(handlers[n])
    BY <2>2
  <2> QED
    BY <2>1, <2>2
<1>2. \A k \in 1 .. Len(done \o more) :
        \/ k \in 1 .. Len(done) /\ (done \o more)[k] = done[k]
        \/ k - Len(done) \in 1 .. Len(more) /\ (done \o more)[k] = more[k - Len(done)]
  BY <1>1, ElementsOfConcat
<1>3. \A k \in read_from(n, p)' : k + d \in read_from(n, p) /\ handlers'[n][k] = handlers[n][k + d]
  <2> TAKE k \in read_from(n, p)'
  <2>1. k \in 1 .. Len(done \o more) /\ ~other((done \o more)[k], p)
    BY DEF read_from, other
  <2>2. k \in 1 .. Len(done) /\ (done \o more)[k] = done[k]
    BY <1>2, <2>1
  <2>3. k + d \in 1 .. Len(handlers[n]) /\ handlers'[n][k] = handlers[n][k + d]
    BY <1>1, <2>2
  <2> QED
    BY <2>3 DEF read_from
<1>4. \A k \in read_from(n, p)' : k \in Nat /\ k >= 1
  BY <1>1 DEF read_from
<1>5. ASSUME one_read(n, p) PROVE one_read(n, p)'
  <2> SUFFICES ASSUME NEW k \in read_from(n, p)', NEW l \in read_from(n, p)' PROVE k = l
    BY DEF one_read
  <2>1. k + d = l + d
    BY <1>3, <1>5 DEF one_read
  <2> QED
    BY <1>4, <2>1
<1>6. ASSUME done # handlers[n], one_read(n, p), ~other(handlers[n][1], p)
      PROVE  read_from(n, p)' = {}
  <2>1. 1 \in read_from(n, p) /\ d = 1
    BY <1>1, <1>6 DEF read_from, other
  <2>2. ASSUME NEW k \in read_from(n, p)' PROVE FALSE
    <3>1. k + 1 = 1
      BY <1>3, <1>6, <2>1 DEF one_read
    <3> QED
      BY <1>4, <3>1
  <2> QED
    BY <2>2
<1>7. \A op : has_read(n, p, op)' => has_read(n, p, op)
  BY <1>3 DEF has_read
<1> QED
  BY <1>3, <1>5, <1>6, <1>7

\* A read from p succeeds, and it is the only one.
LEMMA HandlerAdded ==
  ASSUME NEW n \in Node, NEW p, handlers[n] \in Seq(Completion), read_from(n, p) = {},
         NEW e \in Completion, handlers'[n] = Append(handlers[n], e)
  PROVE  /\ one_read(n, p)' /\ \A op : has_read(n, p, op)' => e.op = op
<1>1. /\ Len(Append(handlers[n], e)) = Len(handlers[n]) + 1 /\ Len(handlers[n]) \in Nat
      /\ Append(handlers[n], e)[Len(handlers[n]) + 1] = e
      /\ \A k \in 1 .. Len(handlers[n]) : Append(handlers[n], e)[k] = handlers[n][k]
  OBVIOUS
<1>2. \A k \in read_from(n, p)' : k = Len(handlers[n]) + 1 /\ handlers'[n][k] = e
  <2> TAKE k \in read_from(n, p)'
  <2>1. k \in 1 .. Len(handlers[n]) + 1
    BY <1>1 DEF read_from
  <2>2. k \notin 1 .. Len(handlers[n])
    BY <1>1 DEF read_from
  <2> QED
    BY <1>1, <2>1, <2>2
<1> QED
  BY <1>2 DEF one_read, has_read

\* What a closed socket leaves to run are errors.
LEMMA CancelledAreErrors ==
  ASSUME Shape, ConnectionsInv, NEW c \in Connection, NEW n \in Node, NEW p
  PROVE  \A i \in 1 .. Len(cancelled(c, n)) : other(cancelled(c, n)[i], p)
<1>1. pending[c][n] \in Seq(Read)
  BY DEF Shape
<1> DEFINE f(i) == completion(pending[c][n][i].op, peer_of(c, n), TRUE)
<1>2. cancelled(c, n) = [i \in 1 .. Len(pending[c][n]) |-> f(i)] /\ Len(pending[c][n]) \in Nat
  BY <1>1 DEF cancelled
<1>3. \A i : other(f(i), p)
  BY DEF other, completion
<1> HIDE DEF f
<1> QED
  BY <1>2, <1>3

-----------------------------------------------------------------------------
(* Steps that change nothing between the two *)

\* The reads that go on are some of those that did, with the same words to come.
LEMMA UnderstoodKept ==
  ASSUME NEW n, NEW p, Understood(n, p),
         connections_of(n, p)' = connections_of(n, p),
         connections_of(n, p) = {} => sent'[p][n] = <<>>,
         handled'[n][p] = handled[n][p], length_buffers'[n][p] = length_buffers[n][p],
         incoming_message_buffers'[n][p] = incoming_message_buffers[n][p],
         \A s \in Traffic : is_first(s, n, p) => is_first(s, n, p)',
         read_from(n, p)' # {} => read_from(n, p) # {},
         \A op : has_read(n, p, op)' => has_read(n, p, op),
         one_read(n, p)',
         \A c \in connections_of(n, p) :
           /\ connections'[c] = connections[c]
           /\ UnreadInv(c, n, p) => UnreadInv(c, n, p)'
           /\ \A b : begins(arriving[c][n], b) => begins(arriving'[c][n], b)
           /\ pending'[c][n] = pending[c][n] \/ pending'[c][n] = <<>>
           /\ waiting(c, n)' => waiting(c, n)
  PROVE  Understood(n, p)'
<1>1. ASSUME NEW c \in connections_of(n, p) PROVE StageInv(c, n, p)'
  <2>1. StageInv(c, n, p)
    BY DEF Understood
  <2>2. Len(<<>>) = 0
    OBVIOUS
  <2> QED
    BY <2>1, <2>2 DEF StageInv
<1>2. ASSUME NEW c \in connections_of(n, p) PROVE FrameInv(c, n, p)'
  <2>1. FrameInv(c, n, p)
    BY DEF Understood
  <2>2. \A op : reads(c, n, op)' => reads(c, n, op) /\ pending'[c][n] = pending[c][n]
    BY DEF reads
  <2>3. (waiting(c, n) \/ connections[c].from = n \/ reads(c, n, "size") => UnreadInv(c, n, p))'
    BY <2>1, <2>2 DEF FrameInv
  <2>4. ASSUME reads(c, n, "body")'
        PROVE  \E s \in Traffic : /\ is_first(s, n, p)'
                                  /\ begins(arriving'[c][n], body(s))
                                  /\ pending'[c][n][1].words = Len(body(s))
                                  /\ Len(incoming_message_buffers'[n][p]) = Len(body(s))
    BY <2>1, <2>2, <2>4 DEF FrameInv
  <2>5. ASSUME has_read(n, p, "size")'
        PROVE  \E s \in Traffic : /\ is_first(s, n, p)'
                                  /\ begins(arriving'[c][n], body(s))
                                  /\ length_buffers'[n][p] = size(Len(body(s)))
    BY <2>1, <2>5 DEF FrameInv
  <2>6. ASSUME has_read(n, p, "body")'
        PROVE  \E s \in Traffic : is_first(s, n, p)' /\ incoming_message_buffers'[n][p] = body(s)
    BY <2>1, <2>6 DEF FrameInv
  <2> QED
    BY <2>3, <2>4, <2>5, <2>6 DEF FrameInv
<1>3. handled'[n][p] = <<>> \/ \E s \in Traffic : is_first(s, n, p)' /\ handled'[n][p] = s.messages
  BY DEF Understood
<1>4. connections_of(n, p) = {} => read_from(n, p)' = {} /\ handled'[n][p] = <<>> /\ sent'[p][n] = <<>>
  BY DEF Understood
<1> QED
  BY <1>1, <1>2, <1>3, <1>4 DEF Understood

\* Nothing has been sent and nothing arrives either.
LEMMA UnderstoodStays ==
  ASSUME NEW n \in Node, NEW p, Understood(n, p),
         connections_of(n, p)' = connections_of(n, p),
         sent'[p][n] = sent[p][n], unsent' \subseteq unsent, broken \subseteq broken',
         handled'[n][p] = handled[n][p], length_buffers'[n][p] = length_buffers[n][p],
         incoming_message_buffers'[n][p] = incoming_message_buffers[n][p],
         read_from(n, p)' # {} => read_from(n, p) # {},
         \A op : has_read(n, p, op)' => has_read(n, p, op),
         one_read(n, p)',
         \A c \in connections_of(n, p) :
           /\ connections'[c] = connections[c]
           /\ arriving'[c][n] = arriving[c][n]
           /\ n \in ends'[c] => n \in ends[c]
           /\ pending'[c][n] = pending[c][n] \/ pending'[c][n] = <<>>
           /\ waiting(c, n)' => waiting(c, n)
  PROVE  Understood(n, p)'
<1>1. \A s \in Traffic : is_first(s, n, p) => is_first(s, n, p)'
  BY DEF is_first
<1>2. \A c \in connections_of(n, p) : UnreadInv(c, n, p) => UnreadInv(c, n, p)'
  BY <1>1 DEF UnreadInv
<1>3. connections_of(n, p) = {} => sent'[p][n] = <<>>
  BY DEF Understood
<1> QED
  BY <1>1, <1>2, <1>3, UnderstoodKept

LEMMA HandlersStay ==
  ASSUME SocketsInv, NEW n \in Node, NEW p, Understood(n, p),
         \/ handlers'[n] = handlers[n]
         \/ \E e \in Completion : other(e, p) /\ handlers'[n] = Append(handlers[n], e)
         \/ handlers[n] # <<>> /\ handlers'[n] = Tail(handlers[n])
  PROVE  /\ read_from(n, p)' # {} => read_from(n, p) # {}
         /\ \A op : has_read(n, p, op)' => has_read(n, p, op)
         /\ one_read(n, p)'
<1>1. handlers[n] \in Seq(Completion)
  BY DEF SocketsInv, Shape
<1>2. one_read(n, p)
  BY DEF Understood
<1>3. <<>> \in Seq(Completion) /\ \A i \in 1 .. Len(<<>>) : other(<<>>[i], p)
  OBVIOUS
<1>4. CASE handlers'[n] = handlers[n]
  <2>1. handlers[n] = handlers[n] \o <<>>
    BY <1>1
  <2> QED
    BY <1>1, <1>2, <1>3, <1>4, <2>1, HandlersKept
<1>5. CASE \E e \in Completion : other(e, p) /\ handlers'[n] = Append(handlers[n], e)
  <2> PICK e \in Completion : other(e, p) /\ handlers'[n] = Append(handlers[n], e)
    BY <1>5
  <2>1. Append(handlers[n], e) = handlers[n] \o <<e>>
    BY <1>1
  <2>2. <<e>> \in Seq(Completion) /\ \A i \in 1 .. Len(<<e>>) : other(<<e>>[i], p)
    <3>1. \A i \in 1 .. Len(<<e>>) : <<e>>[i] = e
      OBVIOUS
    <3> QED
      BY <3>1
  <2> QED
    BY <1>1, <1>2, <2>1, <2>2, HandlersKept
<1>6. CASE handlers[n] # <<>> /\ handlers'[n] = Tail(handlers[n])
  <2>1. Tail(handlers[n]) = Tail(handlers[n]) \o <<>>
    BY <1>1, <1>6
  <2> QED
    BY <1>1, <1>2, <1>3, <1>6, <2>1, HandlersKept
<1> QED
  BY <1>4, <1>5, <1>6

\* Closing a socket: reads may be cancelled, none is started.
LEMMA EraseIsUnderstood ==
  ASSUME SocketsInv, NEW n \in Node, NEW p \in Node, Understood(n, p),
         NEW m \in Node, NEW q \in Node,
         NEW done, done = handlers[m] \/ (handlers[m] # <<>> /\ done = Tail(handlers[m])),
         erase(m, q, done),
         UNCHANGED <<length_buffers, incoming_message_buffers, connections, arriving,
                     backlog, broken, handled>>,
         sent'[p][n] = sent[p][n], unsent' \subseteq unsent
  PROVE  Understood(n, p)'
<1> DEFINE c == sockets_by_id[m][q]
<1>1. Shape /\ ConnectionsInv /\ TableInv
  BY DEF SocketsInv
<1>2. /\ handlers \in [Node -> Seq(Completion)] /\ ends \in [Connection -> SUBSET Node]
      /\ pending \in [Connection -> [Node -> Seq(Read)]]
  BY <1>1 DEF Shape
<1>3. done \in Seq(Completion)
  <2>1. handlers[m] \in Seq(Completion)
    BY <1>2
  <2> QED
    BY <2>1
<1>4. one_read(n, p)
  BY DEF Understood
<1>5. c # NoSocket => c \in Connection
  BY <1>1 DEF Shape, Socket
<1>6. PICK more \in Seq(Completion) :
        /\ handlers' = [handlers EXCEPT ![m] = done \o more]
        /\ \A i \in 1 .. Len(more) : other(more[i], p)
  <2>1. CASE c = NoSocket
    <3>1. handlers' = [handlers EXCEPT ![m] = done]
      BY <2>1 DEF erase
    <3>2. done = done \o <<>> /\ <<>> \in Seq(Completion)
      BY <1>3
    <3>3. \A i \in 1 .. Len(<<>>) : other(<<>>[i], p)
      OBVIOUS
    <3> QED
      BY <3>1, <3>2, <3>3
  <2>2. CASE c # NoSocket
    <3>1. handlers' = [handlers EXCEPT ![m] = done \o cancelled(c, m)]
      BY <2>2 DEF erase
    <3>2. joins(c, m)
      BY <1>1, <2>2 DEF TableInv, EntryInv
    <3>3. cancelled(c, m) \in Seq(Completion)
      BY <1>1, <1>5, <2>2, <3>2, CancelledType
    <3>4. \A i \in 1 .. Len(cancelled(c, m)) : other(cancelled(c, m)[i], p)
      BY <1>1, <1>5, <2>2, CancelledAreErrors
    <3> QED
      BY <3>1, <3>3, <3>4
  <2> QED
    BY <2>1, <2>2
<1>7. /\ \A d \in Connection : n \in ends'[d] => n \in ends[d]
      /\ \A d \in Connection : pending'[d][n] = pending[d][n] \/ pending'[d][n] = <<>>
  <2>1. CASE c = NoSocket
    BY <2>1 DEF erase
  <2>2. CASE c # NoSocket
    <3>1. /\ ends' = [ends EXCEPT ![c] = @ \ {m}]
          /\ pending' = [pending EXCEPT ![c][m] = <<>>]
      BY <2>2 DEF erase
    <3>2. \A d \in Connection : ends'[d] = IF d = c THEN ends[c] \ {m} ELSE ends[d]
      BY <1>2, <1>5, <2>2, <3>1
    <3>3. \A d \in Connection : pending'[d][n] = IF d = c /\ n = m THEN <<>> ELSE pending[d][n]
      BY <1>2, <1>5, <2>2, <3>1
    <3> QED
      BY <3>2, <3>3
  <2> QED
    BY <2>1, <2>2
<1>8. /\ read_from(n, p)' # {} => read_from(n, p) # {}
      /\ \A op : has_read(n, p, op)' => has_read(n, p, op)
      /\ one_read(n, p)'
  <2>1. CASE m = n
    <3>1. handlers'[n] = done \o more /\ handlers[n] \in Seq(Completion)
      BY <1>2, <1>6, <2>1
    <3> QED
      BY <1>4, <1>6, <2>1, <3>1, HandlersKept
  <2>2. CASE m # n
    <3>1. handlers'[n] = handlers[n]
      BY <1>2, <1>6, <2>2
    <3> QED
      BY <3>1, HandlersStay
  <2> QED
    BY <2>1, <2>2
<1>9. connections_of(n, p)' = connections_of(n, p)
  BY DEF connections_of
<1>10. \A d \in connections_of(n, p) : d \in Connection
  BY <1>1, ConnectionsOf DEF joins, ConnectionsInv
<1>11. \A d : waiting(d, n)' => waiting(d, n)
  BY DEF waiting
<1> QED
  BY <1>7, <1>8, <1>9, <1>10, <1>11, UnderstoodStays

\* The connection a send uses is the one of the entry, or a new one.
LEMMA SendConnection ==
  ASSUME SocketsInv, NEW s \in Traffic, NEW c \in Connection, SendBegins(s, c),
         initialize_socket(s, c)
  PROVE  \/ /\ c \in made /\ UNCHANGED <<connections, sockets_by_id, ends, backlog>>
            /\ joins(c, s.to) /\ peer_of(c, s.to) = s.from
            /\ joins(c, s.from) /\ peer_of(c, s.from) = s.to
         \/ /\ c \notin made /\ c = Len(connections) + 1 /\ ~may_fail(c, s.to)
            /\ connections' = Append(connections, [from |-> s.from, to |-> s.to])
            /\ ends' = [ends EXCEPT ![c] = {s.from, s.to}]
            /\ backlog' = [backlog EXCEPT ![s.to] = Append(@, c)]
<1>1. s.from \in Node /\ s.to \in Node /\ s.from # s.to
  BY SendType
<1>2. Len(connections) \in Nat /\ broken \subseteq made
  BY DEF SocketsInv, Shape, ConnectionsInv
<1>3. c = socket(s.from, s.to)
  BY DEF SendBegins
<1>4. sockets_by_id[s.from][s.to] # NoSocket => EntryInv(s.from, s.to)
  BY <1>1 DEF SocketsInv, TableInv
<1>5. CASE c <= Len(connections)
  <2>1. c # Len(connections) + 1
    BY <1>2, <1>5
  <2>2. sockets_by_id[s.from][s.to] = c /\ c # NoSocket
    BY <1>3, <2>1, ValuesAssumption, Zenon DEF socket
  <2>3. joins(c, s.from) /\ peer_of(c, s.from) = s.to
    BY <1>4, <2>2 DEF EntryInv
  <2>4. c \in made /\ joins(c, s.to) /\ peer_of(c, s.to) = s.from
    BY <1>1, <2>3 DEF joins, peer_of
  <2>5. UNCHANGED <<connections, sockets_by_id, ends, backlog>>
    BY <1>2, <1>5 DEF initialize_socket, Connection
  <2> QED
    BY <2>3, <2>4, <2>5
<1>6. CASE c > Len(connections)
  <2>1. c # Len(connections) + 1 => sockets_by_id[s.from][s.to] = c
    BY <1>3, Zenon DEF socket
  <2>2. sockets_by_id[s.from][s.to] = c => c \in made
    BY <1>4, ValuesAssumption DEF EntryInv, joins
  <2>3. c \notin made
    BY <1>2, <1>6 DEF made
  <2>4. ~may_fail(c, s.to)
    BY <1>2, <1>6, <2>3 DEF may_fail, Connection
  <2> QED
    BY <1>6, <2>1, <2>2, <2>3, <2>4 DEF initialize_socket
<1> QED
  BY <1>2, <1>5, <1>6 DEF Connection

-----------------------------------------------------------------------------
(* The steps of the first frame *)

\* p sends to n on the connection they have.
LEMMA NextSendIsUnderstood ==
  ASSUME SocketsInv, NEW n \in Node \ {UTILITY_NODE_ID}, NEW p \in Node, Understood(n, p),
         one_connection(n, p), NEW s \in Traffic, s.from = p, s.to = n,
         s.overload # "PingMessage", NEW c \in connections_of(n, p), c \in Connection,
         unsent' = unsent \ {s}, sent'[p][n] = sent[p][n] \o s.messages,
         may_fail(c, n) => arriving' = arriving,
         ~may_fail(c, n) => arriving' = [arriving EXCEPT ![c][n] = @ \o send_buffer(s)],
         handlers'[n] = handlers[n]
           \/ \E e \in Completion : other(e, p) /\ handlers'[n] = Append(handlers[n], e),
         UNCHANGED <<connections, ends, backlog, pending, broken, handled, length_buffers,
                     incoming_message_buffers>>
  PROVE  Understood(n, p)'
<1>0. /\ arriving \in [Connection -> [Node -> Seq(Word)]] /\ unsent \subseteq Traffic
      /\ sent \in [Node -> [Node -> Seq(Sent)]]
  BY DEF SocketsInv, Shape
<1>1. sent[p][n] \in Seq(Sent) /\ arriving \in [Connection -> [Node -> Seq(Word)]]
      /\ arriving[c][n] \in Seq(Word) /\ unsent \subseteq Traffic
  BY <1>0
<1>2. /\ s.messages \in Seq(Sent) /\ send_buffer(s) \in Seq(Word)
      /\ send_buffer(s) = <<size(Len(body(s)))>> \o body(s)
  BY SendType, BufferType, SendBuffer
<1>3. \A r \in Traffic : is_first(r, n, p) => is_first(r, n, p)'
  <2> TAKE r \in Traffic
  <2>1. r.messages \in Seq(Sent)
    BY SendType
  <2> QED
    BY <1>1, <1>2, <2>1, PrefixStays DEF is_first
<1>4. \A d \in connections_of(n, p) : d = c
  BY DEF one_connection
<1>5. \A b : begins(arriving[c][n], b) => begins(arriving'[c][n], b)
  <2> SUFFICES ASSUME ~may_fail(c, n), NEW b, begins(arriving[c][n], b)
               PROVE  begins(arriving'[c][n], b)
    BY DEF begins
  <2>1. arriving'[c][n] = arriving[c][n] \o send_buffer(s)
    BY <1>1
  <2> DEFINE w == arriving[c][n]
             v == send_buffer(s)
  <2>a. w \in Seq(Word) /\ v \in Seq(Word)
    BY <1>1, <1>2
  <2> HIDE DEF w, v
  <2>2. /\ Len(w \o v) >= Len(w) /\ \A i \in 1 .. Len(w) : (w \o v)[i] = w[i]
        /\ Len(w) \in Nat /\ Len(w \o v) \in Nat
    BY <2>a, ConcatKeeps
  <2>3. Len(b) <= Len(w) /\ \A i \in 1 .. Len(b) : w[i] = b[i]
    BY DEF begins, w
  <2> QED
    BY <2>1, <2>2, <2>3 DEF begins, v, w
<1>6. UnreadInv(c, n, p) => UnreadInv(c, n, p)'
  <2> SUFFICES ASSUME UnreadInv(c, n, p) PROVE UnreadInv(c, n, p)'
    OBVIOUS
  <2>1. CASE \E r \in Traffic : is_first(r, n, p)
                                /\ begins(arriving[c][n], <<size(Len(body(r)))>> \o body(r))
    BY <1>3, <1>5, <2>1 DEF UnreadInv
  <2>2. CASE may_fail(c, n) /\ arriving[c][n] = <<>>
    <3>1. c \in broken \/ n \notin ends[c]
      BY <2>2 DEF may_fail
    <3> QED
      BY <2>2, <3>1 DEF UnreadInv
  <2>3. CASE ~may_fail(c, n) /\ arriving[c][n] = <<>> /\ sent[p][n] = <<>>
    <3>1. arriving'[c][n] = <<>> \o send_buffer(s)
      BY <1>1, <2>3
    <3>2. arriving'[c][n] = send_buffer(s)
      BY <1>2, <3>1, ConcatKeeps
    <3>3. begins(arriving'[c][n], <<size(Len(body(s)))>> \o body(s))
      BY <1>2, <3>2, BeginsItself
    <3>4. IsPrefix(s.messages, sent'[p][n])
      BY <1>2, <2>3, PrefixStays
    <3>5. is_first(s, n, p)'
      BY <3>4 DEF is_first
    <3> QED
      BY <3>3, <3>5 DEF UnreadInv
  <2>4. arriving[c][n] = <<>> /\ (c \in broken \/ n \notin ends[c]) => may_fail(c, n)
    <3>1. joins(c, n)
      BY ConnectionsOf
    <3> QED
      BY <3>1 DEF joins, may_fail, made, SocketsInv, Shape
  <2> QED
    BY <2>1, <2>2, <2>3, <2>4 DEF UnreadInv
<1>7. connections_of(n, p)' = connections_of(n, p)
  BY DEF connections_of
<1>8. \A d : waiting(d, n)' = waiting(d, n)
  BY DEF waiting
<1>9. /\ read_from(n, p)' # {} => read_from(n, p) # {}
      /\ \A op : has_read(n, p, op)' => has_read(n, p, op)
      /\ one_read(n, p)'
  BY HandlersStay
<1> QED
  BY <1>3, <1>4, <1>5, <1>6, <1>7, <1>8, <1>9, UnderstoodKept

\* One of them makes the connection, to send.
LEMMA FirstSendIsUnderstood ==
  ASSUME SocketsInv, NEW n \in Node \ {UTILITY_NODE_ID}, NEW p \in Node, Understood(n, p),
         one_connection(n, p)', ~pinged(n, p)',
         NEW s \in Traffic, {s.from, s.to} = {n, p}, NEW c \in Connection, SendBegins(s, c),
         c \notin made, c = Len(connections) + 1,
         connections' = Append(connections, [from |-> s.from, to |-> s.to]),
         backlog' = [backlog EXCEPT ![s.to] = Append(@, c)],
         arriving' = [arriving EXCEPT ![c][s.to] = @ \o send_buffer(s)],
         UNCHANGED <<handlers, pending>>
  PROVE  Understood(n, p)'
<1> DEFINE k == [from |-> s.from, to |-> s.to]
<1>1. s.from # s.to /\ s.from \in Node /\ s.to \in Node /\ k \in Peers /\ k.from = s.from /\ k.to = s.to
  BY SendType DEF Peers
<1>2. Shape /\ ConnectionsInv /\ TableInv
  BY DEF SocketsInv
<1> HIDE DEF k
<1>3. /\ connections'[c] = k /\ c \in made'
      /\ \A d \in made : d \in made' /\ connections'[d] = connections[d]
      /\ \A d \in made' : d \in made \/ d = c
      /\ DOMAIN connections = made /\ DOMAIN connections' = made'
  <2>1. connections' = Append(connections, k)
    BY DEF k
  <2>2. connections \in Seq(Peers)
    BY <1>2 DEF Shape
  <2>3. DOMAIN connections = made /\ DOMAIN connections' = made'
    BY <1>1, <2>1, <2>2 DEF made
  <2>4. Len(connections) + 1 \in made'
    BY <1>1, <2>1, <2>2 DEF made
  <2> QED
    BY <1>1, <1>2, <2>1, <2>3, <2>4, ConnectionsGrow
\* It is the first and only one, and nothing has happened between them.
<1>4. connections_of(n, p) = {} /\ connections_of(n, p)' = {c}
  <2>1. c \in connections_of(n, p)'
    BY <1>1, <1>3 DEF connections_of
  <2>2. \A d \in connections_of(n, p) : d \in connections_of(n, p)' /\ d # c
    BY <1>3 DEF connections_of
  <2>3. \A d \in connections_of(n, p)' : d = c
    BY <2>1 DEF one_connection
  <2> QED
    BY <2>1, <2>2, <2>3
<1>5. read_from(n, p) = {} /\ handled[n][p] = <<>> /\ sent[p][n] = <<>>
  BY <1>4 DEF Understood
<1>6. read_from(n, p)' = {} /\ one_read(n, p)' /\ \A op : ~has_read(n, p, op)'
  BY <1>5 DEF read_from, one_read, has_read
<1>7. pending'[c][n] = <<>> /\ arriving[c][n] = <<>>
  <2>1. ReadsInv(c, n) /\ ~joins(c, n)
    BY <1>2 DEF TableInv, joins
  <2> QED
    BY <2>1 DEF ReadsInv
<1>8. handled'[n][p] = <<>> /\ unsent' = unsent \ {s} /\ broken' = broken
  BY <1>5 DEF SendBegins
<1>9. arriving \in [Connection -> [Node -> Seq(Word)]] /\ backlog \in [Node -> Seq(Connection)]
      /\ sent \in [Node -> [Node -> Seq(Sent)]] /\ unsent \subseteq Traffic
  BY <1>2 DEF Shape
<1>10. UnreadInv(c, n, p)'
  <2>1. CASE s.to = n
    <3>1. s.from = p
      BY <1>1, <2>1
    <3>2. s.overload # "PingMessage"
      <4>1. s \in Traffic \ unsent'
        BY <1>8
      <4> QED
        BY <2>1, <3>1, <4>1 DEF pinged
    <3>3. /\ s.messages \in Seq(Sent) /\ send_buffer(s) \in Seq(Word)
          /\ send_buffer(s) = <<size(Len(body(s)))>> \o body(s)
      BY <2>1, <3>2, SendType, BufferType, SendBuffer
    <3>4. sent'[p][n] = <<>> \o s.messages
      BY <1>5, <1>9, <2>1, <3>1, <3>2 DEF SendBegins
    <3>5. arriving'[c][n] = <<>> \o send_buffer(s)
      BY <1>7, <1>9, <2>1
    <3>6. arriving'[c][n] = send_buffer(s)
      BY <3>3, <3>5, ConcatKeeps
    <3>7. begins(arriving'[c][n], <<size(Len(body(s)))>> \o body(s))
      BY <3>3, <3>6, BeginsItself
    <3>8. IsPrefix(s.messages, sent'[p][n])
      BY <3>3, <3>4, PrefixStays
    <3>9. is_first(s, n, p)'
      BY <1>8, <2>1, <3>1, <3>2, <3>8 DEF is_first
    <3> QED
      BY <3>7, <3>9 DEF UnreadInv
  <2>2. CASE s.to = p /\ s.from = n
    <3>1. sent'[p][n] = <<>>
      BY <1>1, <1>5, <1>9, <2>2 DEF SendBegins
    <3>2. arriving'[c][n] = <<>>
      BY <1>1, <1>7, <1>9, <2>2
    <3> QED
      BY <3>1, <3>2 DEF UnreadInv
  <2> QED
    BY <1>1, <2>1, <2>2
<1>11. Len(<<>>) = 0
  OBVIOUS
<1>12. StageInv(c, n, p)'
  BY <1>6, <1>7, <1>8, <1>11 DEF StageInv
<1>13. FrameInv(c, n, p)'
  BY <1>6, <1>7, <1>10 DEF FrameInv, reads
<1> QED
  BY <1>4, <1>6, <1>8, <1>12, <1>13 DEF Understood

LEMMA SendIsUnderstood ==
  ASSUME SocketsInv, NEW n \in Node \ {UTILITY_NODE_ID}, NEW p \in Node, Understood(n, p),
         one_connection(n, p), one_connection(n, p)', ~pinged(n, p)',
         NEW s \in Traffic, Send(s)
  PROVE  Understood(n, p)'
<1> PICK c \in Connection : /\ SendBegins(s, c) /\ initialize_socket(s, c)
                            /\ arriving' = IF may_fail(c, s.to) THEN arriving
                                 ELSE [arriving EXCEPT ![c][s.to] = @ \o send_buffer(s)]
                            /\ UNCHANGED <<handlers, pending>>
  BY DEF Send
<1>1. Shape /\ ConnectionsInv /\ TableInv
  BY DEF SocketsInv
<1>2. s.from # s.to /\ s.from \in Node /\ s.to \in Node
  BY SendType
<1>3. UNCHANGED <<length_buffers, incoming_message_buffers, broken, handled>>
      /\ unsent' = unsent \ {s}
  BY DEF SendBegins, buffers
<1>4. /\ arriving \in [Connection -> [Node -> Seq(Word)]] /\ unsent \subseteq Traffic
      /\ sent \in [Node -> [Node -> Seq(Sent)]] /\ backlog \in [Node -> Seq(Connection)]
      /\ ends \in [Connection -> SUBSET Node] /\ connections \in Seq(Peers)
  BY <1>1 DEF Shape
<1>5. s.from = p /\ s.to = n => s.overload # "PingMessage"
  <2>1. s \in Traffic \ unsent'
    BY <1>3
  <2> QED
    BY <2>1 DEF pinged
<1>6. s.from = p /\ s.to = n => sent'[p][n] = sent[p][n] \o s.messages
  BY <1>4, <1>5 DEF SendBegins
<1>7. ~(s.from = p /\ s.to = n) => sent'[p][n] = sent[p][n]
  BY <1>2, <1>4 DEF SendBegins
<1>8. /\ read_from(n, p)' # {} => read_from(n, p) # {}
      /\ \A op : has_read(n, p, op)' => has_read(n, p, op)
      /\ one_read(n, p)'
  BY HandlersStay
<1>9. \A d \in Connection, m \in Node :
        ~(d = c /\ m = s.to) => arriving'[d][m] = arriving[d][m]
  BY <1>2, <1>4
<1>10. \A d : d \in connections_of(n, p) <=> joins(d, n) /\ peer_of(d, n) = p
  BY ConnectionsOf
<1>11. \A d \in connections_of(n, p) : d \in made /\ d \in Connection
  BY <1>1, <1>10 DEF joins, ConnectionsInv
<1>12. CASE /\ c \in made /\ UNCHANGED <<connections, sockets_by_id, ends, backlog>>
            /\ joins(c, s.to) /\ peer_of(c, s.to) = s.from
  <2>1. connections_of(n, p)' = connections_of(n, p)
    BY <1>12 DEF connections_of
  <2>2. CASE s.from = p /\ s.to = n
    <3>1. c \in connections_of(n, p)
      BY <1>10, <1>12, <2>2
    <3>2. UNCHANGED <<connections, ends, backlog>>
      BY <1>12
    <3> QED
      BY <1>3, <1>5, <1>6, <2>2, <3>1, <3>2, NextSendIsUnderstood
  <2>3. CASE ~(s.from = p /\ s.to = n)
    <3>1. \A d \in connections_of(n, p) : ~(d = c /\ n = s.to)
      BY <1>10, <1>12, <2>3
    <3>2. \A d \in connections_of(n, p) : arriving'[d][n] = arriving[d][n]
      BY <1>9, <1>11, <3>1
    <3>3. \A d : waiting(d, n)' = waiting(d, n)
      BY <1>12 DEF waiting
    <3> QED
      BY <1>3, <1>7, <1>8, <1>12, <2>1, <2>3, <3>2, <3>3, UnderstoodStays
  <2> QED
    BY <2>2, <2>3
<1>13. CASE /\ c \notin made /\ c = Len(connections) + 1 /\ ~may_fail(c, s.to)
            /\ connections' = Append(connections, [from |-> s.from, to |-> s.to])
            /\ ends' = [ends EXCEPT ![c] = {s.from, s.to}]
            /\ backlog' = [backlog EXCEPT ![s.to] = Append(@, c)]
  <2>1. CASE {s.from, s.to} = {n, p}
    <3>1. arriving' = [arriving EXCEPT ![c][s.to] = @ \o send_buffer(s)]
      BY <1>13
    <3> QED
      BY <1>13, <2>1, <3>1, FirstSendIsUnderstood
  <2>2. CASE {s.from, s.to} # {n, p}
    <3> DEFINE k == [from |-> s.from, to |-> s.to]
    <3>1. k \in Peers /\ k.from = s.from /\ k.to = s.to
      BY <1>2 DEF Peers
    <3>2. connections' = Append(connections, k)
      BY <1>13
    <3> HIDE DEF k
    <3>3. /\ DOMAIN connections' = DOMAIN connections \cup {c} /\ connections'[c] = k
          /\ \A d \in DOMAIN connections : connections'[d] = connections[d]
      BY <1>4, <1>13, <3>1, <3>2
    <3>4. connections_of(n, p)' = connections_of(n, p)
      <4>1. c \notin DOMAIN connections
        BY <1>4, <1>13 DEF made
      <4>2. \A d : d \in connections_of(n, p)' <=> d \in connections_of(n, p)
        BY <2>2, <3>1, <3>3, <4>1 DEF connections_of
      <4> QED
        BY <4>2
    <3>5. \A d \in connections_of(n, p) : d # c /\ connections'[d] = connections[d]
      BY <1>11, <1>13, <3>3 DEF connections_of
    <3>6. \A d \in connections_of(n, p) : arriving'[d][n] = arriving[d][n] /\ ends'[d] = ends[d]
      BY <1>4, <1>9, <1>11, <1>13, <3>5
    <3>7. \A d : d # c /\ waiting(d, n)' => waiting(d, n)
      <4>1. CASE n # s.to
        <5>1. backlog'[n] = backlog[n]
          BY <1>4, <1>13, <4>1
        <5> QED
          BY <5>1 DEF waiting
      <4>2. CASE n = s.to
        <5>1. backlog'[n] = Append(backlog[n], c) /\ backlog[n] \in Seq(Connection)
          BY <1>4, <1>13, <4>2
        <5>2. \A i \in 1 .. Len(backlog'[n]) :
                backlog'[n][i] = c \/ (i \in 1 .. Len(backlog[n]) /\ backlog'[n][i] = backlog[n][i])
          BY <5>1
        <5> QED
          BY <5>2 DEF waiting
      <4> QED
        BY <4>1, <4>2
    <3>8. sent'[p][n] = sent[p][n]
      BY <1>7, <2>2
    <3> QED
      BY <1>3, <1>8, <3>4, <3>5, <3>6, <3>7, <3>8, UnderstoodStays
  <2> QED
    BY <2>1, <2>2
<1> QED
  BY <1>12, <1>13, SendConnection

LEMMA SendFailsIsUnderstood ==
  ASSUME SocketsInv, NEW n \in Node \ {UTILITY_NODE_ID}, NEW p \in Node, Understood(n, p),
         one_connection(n, p), ~pinged(n, p)', NEW s \in Traffic, SendFails(s)
  PROVE  Understood(n, p)'
<1> PICK c \in Connection :
      /\ s.overload # "PingMessage" /\ may_fail(c, s.to) /\ SendBegins(s, c)
      /\ handlers' = [handlers EXCEPT ![s.from] = Append(@, completion("write", s.to, TRUE))]
      /\ UNCHANGED <<sockets_by_id, ends, pending, connections, arriving, backlog>>
  BY DEF SendFails
<1>1. s.from # s.to /\ s.from \in Node /\ s.to \in Node
  BY SendType
<1>2. UNCHANGED <<length_buffers, incoming_message_buffers, broken, handled>>
      /\ unsent' = unsent \ {s}
  BY DEF SendBegins, buffers
<1>3. /\ handlers \in [Node -> Seq(Completion)] /\ sent \in [Node -> [Node -> Seq(Sent)]]
      /\ unsent \subseteq Traffic
  BY DEF SocketsInv, Shape
<1> DEFINE e == completion("write", s.to, TRUE)
<1>4. e \in Completion /\ other(e, p)
  <2>1. other(e, p)
    BY DEF other, completion
  <2> QED
    BY <1>1, <2>1, CompletionType
<1>5. handlers'[n] = handlers[n] \/ handlers'[n] = Append(handlers[n], e)
  <2> HIDE DEF e
  <2>1. handlers' = [handlers EXCEPT ![s.from] = Append(@, e)]
    BY DEF e
  <2> QED
    BY <1>1, <1>3, <2>1
<1> HIDE DEF e
<1>6. CASE s.from = p /\ s.to = n
  <2>1. sockets_by_id[s.from][s.to] = c
    BY MayFail
  <2>2. joins(c, s.from) /\ peer_of(c, s.from) = s.to
    BY <1>1, <2>1, ValuesAssumption DEF SocketsInv, TableInv, EntryInv
  <2>3. joins(c, n) /\ peer_of(c, n) = p
    BY <1>1, <1>6, <2>2 DEF joins, peer_of
  <2>4. c \in connections_of(n, p)
    BY <2>3, ConnectionsOf
  <2>5. sent'[p][n] = sent[p][n] \o s.messages
    BY <1>3, <1>6 DEF SendBegins
  <2> QED
    BY <1>2, <1>4, <1>5, <1>6, <2>4, <2>5, NextSendIsUnderstood
<1>7. CASE ~(s.from = p /\ s.to = n)
  <2>1. sent'[p][n] = sent[p][n]
    BY <1>1, <1>3, <1>7 DEF SendBegins
  <2>2. /\ read_from(n, p)' # {} => read_from(n, p) # {}
        /\ \A op : has_read(n, p, op)' => has_read(n, p, op)
        /\ one_read(n, p)'
    BY <1>4, <1>5, HandlersStay
  <2>3. connections_of(n, p)' = connections_of(n, p)
    BY DEF connections_of
  <2>4. \A d : waiting(d, n)' = waiting(d, n)
    BY DEF waiting
  <2> QED
    BY <1>2, <2>1, <2>2, <2>3, <2>4, UnderstoodStays
<1> QED
  BY <1>6, <1>7

LEMMA PingFailsIsUnderstood ==
  ASSUME SocketsInv, NEW n \in Node, NEW p \in Node, Understood(n, p),
         NEW s \in Traffic, PingFails(s)
  PROVE  Understood(n, p)'
<1> PICK c \in Connection : /\ s.overload = "PingMessage" /\ SendBegins(s, c)
                            /\ erase(s.from, s.to, handlers[s.from])
                            /\ UNCHANGED <<connections, arriving, backlog>>
  BY DEF PingFails
<1>1. s.from \in Node /\ s.to \in Node
  BY SendType
<1>2. UNCHANGED <<length_buffers, incoming_message_buffers, broken, handled>>
      /\ unsent' \subseteq unsent
  BY DEF SendBegins, buffers
<1>3. sent'[p][n] = sent[p][n]
  <2>1. sent \in [Node -> [Node -> Seq(Sent)]]
    BY DEF SocketsInv, Shape
  <2> QED
    BY <1>1, <2>1 DEF SendBegins
<1> QED
  BY <1>1, <1>2, <1>3, EraseIsUnderstood

\* The accept of the connection with p starts the read of the size: there is no
\* entry yet.
LEMMA AcceptIsUnderstood ==
  ASSUME SocketsInv, NEW n \in Node, NEW p \in Node, Understood(n, p), one_connection(n, p),
         NEW m \in Node, Accept(m)
  PROVE  Understood(n, p)'
<1> DEFINE b == Head(backlog[m])
           q == connections[b].from
           start == [op |-> "size", words |-> 1]
<1>1. /\ backlog[m] # <<>> /\ backlog' = [backlog EXCEPT ![m] = Tail(@)]
      /\ UNCHANGED <<length_buffers, incoming_message_buffers, handlers, connections,
                     arriving, broken, unsent, sent, handled>>
  BY DEF Accept, buffers
<1>2. Shape /\ ConnectionsInv /\ TableInv
  BY DEF SocketsInv
<1>3. /\ backlog \in [Node -> Seq(Connection)] /\ ends \in [Connection -> SUBSET Node]
      /\ pending \in [Connection -> [Node -> Seq(Read)]] /\ backlog[m] \in Seq(Connection)
  BY <1>2 DEF Shape
<1>4. /\ Len(backlog[m]) \in Nat \ {0} /\ backlog[m][1] = b /\ b \in Connection
      /\ Len(Tail(backlog[m])) = Len(backlog[m]) - 1
      /\ \A i \in 1 .. Len(Tail(backlog[m])) : Tail(backlog[m])[i] = backlog[m][i + 1]
  BY <1>1, <1>3
<1>5. BacklogInv(m)
  BY <1>2 DEF TableInv
<1>6. /\ b \in made /\ connections[b].to = m /\ sockets_by_id[m][q] # b
      /\ joins(b, m) /\ peer_of(b, m) = q
  <2>1. b \in made /\ connections[b].to = m /\ sockets_by_id[m][q] # b
    BY <1>4, <1>5 DEF BacklogInv
  <2> QED
    BY <2>1 DEF joins, peer_of
<1>7. q \in Node
  <2>1. peer_of(b, m) \in Node
    BY <1>2, <1>6, PeerType
  <2> QED
    BY <1>6, <2>1
<1>8. waiting(b, m)
  BY <1>4 DEF waiting
<1> HIDE DEF b, q
\* The socket the read is started on.
<1>9. PICK c \in Connection :
        /\ c = IF sockets_by_id[m][q] = NoSocket THEN b ELSE sockets_by_id[m][q]
        /\ pending' = [pending EXCEPT ![c][m] = Append(@, start)]
        /\ \A d \in Connection : ends'[d] \subseteq ends[d]
  <2>1. CASE sockets_by_id[m][q] = NoSocket
    BY <1>3, <1>4, <2>1 DEF Accept, start_read, b, q
  <2>2. CASE sockets_by_id[m][q] # NoSocket
    <3>1. /\ ends' = [ends EXCEPT ![b] = @ \ {m}]
          /\ pending' = [pending EXCEPT ![sockets_by_id[m][q]][m] = Append(@, start)]
      BY <2>2 DEF Accept, start_read, b, q
    <3>2. sockets_by_id[m][q] \in Connection
      BY <1>2, <1>7, <2>2 DEF Shape, Socket
    <3>3. \A d \in Connection : ends'[d] \subseteq ends[d]
      BY <1>3, <1>4, <3>1
    <3> QED
      BY <2>2, <3>1, <3>2, <3>3
  <2> QED
    BY <2>1, <2>2
<1>10. joins(c, m) /\ peer_of(c, m) = q
  BY <1>2, <1>6, <1>7, <1>9 DEF TableInv, EntryInv
<1>11. \A d : d \in connections_of(n, p) <=> joins(d, n) /\ peer_of(d, n) = p
  BY ConnectionsOf
<1>12. connections_of(n, p)' = connections_of(n, p)
  BY <1>1 DEF connections_of
<1>13. \A d : waiting(d, n)' => waiting(d, n)
  <2>1. CASE n # m
    <3>1. backlog'[n] = backlog[n]
      BY <1>1, <1>3, <2>1
    <3> QED
      BY <3>1 DEF waiting
  <2>2. CASE n = m
    <3>1. backlog'[n] = Tail(backlog[n])
      BY <1>1, <1>3, <2>2
    <3>2. \A i \in 1 .. Len(Tail(backlog[n])) : i + 1 \in 1 .. Len(backlog[n])
      BY <1>4, <2>2
    <3> QED
      BY <1>4, <2>2, <3>1, <3>2 DEF waiting
  <2> QED
    BY <2>1, <2>2
<1>14. /\ read_from(n, p)' # {} => read_from(n, p) # {}
       /\ \A op : has_read(n, p, op)' => has_read(n, p, op)
       /\ one_read(n, p)'
  BY <1>1, HandlersStay
<1>15. \A d \in connections_of(n, p) : d \in Connection
  BY <1>2, <1>11 DEF joins, ConnectionsInv
<1>16. \A d \in Connection : pending'[d][n] = IF d = c /\ n = m THEN Append(pending[c][m], start)
                                              ELSE pending[d][n]
  BY <1>3, <1>9
<1>17. CASE ~(m = n /\ q = p)
  <2>1. \A d \in connections_of(n, p) : ~(d = c /\ n = m)
    BY <1>10, <1>11, <1>17
  <2>2. \A d \in connections_of(n, p) : /\ pending'[d][n] = pending[d][n]
                                        /\ n \in ends'[d] => n \in ends[d]
    BY <1>9, <1>15, <1>16, <2>1
  <2> QED
    BY <1>1, <1>12, <1>13, <1>14, <2>2, UnderstoodStays
<1>18. CASE m = n /\ q = p
  <2>1. b \in connections_of(n, p) /\ c \in connections_of(n, p) /\ b = c
    BY <1>6, <1>10, <1>11, <1>18 DEF one_connection
  <2>2. \A d \in connections_of(n, p) : d = c
    BY <2>1 DEF one_connection
  <2>3. StageInv(c, n, p) /\ FrameInv(c, n, p) /\ waiting(c, n)
    BY <1>8, <1>18, <2>1 DEF Understood
  <2>4. /\ pending[c][n] = <<>> /\ read_from(n, p) = {} /\ handled[n][p] = <<>>
        /\ UnreadInv(c, n, p)
    BY <2>3 DEF StageInv, FrameInv
  <2>5. pending'[c][n] = <<start>>
    BY <1>16, <1>18, <2>4
  <2>6. read_from(n, p)' = {} /\ \A op : ~has_read(n, p, op)'
    BY <1>14, <2>4 DEF has_read
  <2>7. ~waiting(c, n)'
    <3>1. backlog'[n] = Tail(backlog[n])
      BY <1>1, <1>3, <1>18
    <3>2. \A i \in 1 .. Len(Tail(backlog[n])) : i + 1 \in 1 .. Len(backlog[n]) /\ i + 1 # 1 /\ 1 \in 1 .. Len(backlog[n])
      BY <1>4, <1>18
    <3> QED
      BY <1>4, <1>5, <1>18, <2>1, <3>1, <3>2 DEF waiting, BacklogInv
  <2>8. connections[c].from # n
    <3>1. connections[c].from # connections[c].to
      BY <1>2, <1>6, <2>1 DEF ConnectionsInv
    <3> QED
      BY <1>6, <1>18, <2>1, <3>1
  <2>9. handled'[n][p] = <<>> /\ sent'[p][n] = sent[p][n]
    BY <1>1, <2>4
  <2>10. UnreadInv(c, n, p)'
    <3>1. n \in ends'[c] => n \in ends[c]
      BY <1>9
    <3>2. \A s \in Traffic : is_first(s, n, p)' = is_first(s, n, p)
      BY <1>1 DEF is_first
    <3> QED
      BY <1>1, <2>4, <3>1, <3>2 DEF UnreadInv
  <2>11. Len(<<start>>) = 1 /\ <<start>> # <<>> /\ <<start>>[1].op = "size"
    OBVIOUS
  <2> HIDE DEF start
  <2>12. StageInv(c, n, p)'
    BY <1>1, <2>5, <2>6, <2>7, <2>8, <2>9, <2>11 DEF StageInv
  <2>13. FrameInv(c, n, p)'
    BY <2>5, <2>6, <2>10, <2>11 DEF FrameInv, reads
  <2> QED
    BY <1>12, <1>14, <2>1, <2>2, <2>9, <2>12, <2>13 DEF Understood
<1> QED
  BY <1>17, <1>18

\* A read of n from another peer, or of another node.
LEMMA OtherReadIsUnderstood ==
  ASSUME SocketsInv, NEW n \in Node, NEW p \in Node, Understood(n, p),
         NEW c \in Connection, NEW m \in Node, Reads(c, m), ~(m = n /\ peer_of(c, m) = p)
  PROVE  Understood(n, p)'
<1> DEFINE q == peer_of(c, m)
<1>1. /\ pending[c][m] # <<>> /\ pending' = [pending EXCEPT ![c][m] = Tail(@)]
      /\ UNCHANGED <<handled, connections, ends, backlog, broken, unsent, sent>>
  BY DEF Reads, ReadCompletes, ReadFails
<1>2. joins(c, m) /\ Shape /\ ConnectionsInv
  BY <1>1 DEF SocketsInv, TableInv, ReadsInv
<1>3. q \in Node
  BY <1>2, PeerType
<1>4. /\ pending \in [Connection -> [Node -> Seq(Read)]]
      /\ arriving \in [Connection -> [Node -> Seq(Word)]]
      /\ length_buffers \in [Node -> [Node -> Word]]
      /\ incoming_message_buffers \in [Node -> [Node -> Seq(Word)]]
      /\ handlers \in [Node -> Seq(Completion)]
  BY <1>2 DEF Shape
<1>5. Head(pending[c][m]) \in Read
  <2>1. pending[c][m] \in Seq(Read)
    BY <1>4
  <2> QED
    BY <1>1, <2>1
<1>6. Head(pending[c][m]).op \in {"size", "body", "write"}
  BY <1>5 DEF Read
<1> PICK data, rest :
      \E error \in BOOLEAN :
        /\ Fill(c, m, data) /\ arriving' = [arriving EXCEPT ![c][m] = rest]
        /\ handlers' = [handlers EXCEPT ![m] =
             Append(@, completion(Head(pending[c][m]).op, q, error))]
  BY DEF Reads, ReadCompletes, ReadFails
<1>7. PICK error \in BOOLEAN :
        /\ Fill(c, m, data) /\ arriving' = [arriving EXCEPT ![c][m] = rest]
        /\ handlers' = [handlers EXCEPT ![m] =
             Append(@, completion(Head(pending[c][m]).op, q, error))]
  OBVIOUS
<1> DEFINE e == completion(Head(pending[c][m]).op, q, error)
<1>8. e \in Completion /\ e.peer = q
  BY <1>3, <1>6, CompletionType DEF completion
<1>9. ~(n = m /\ p = q)
  OBVIOUS
<1>10. /\ length_buffers'[n][p] = length_buffers[n][p]
       /\ incoming_message_buffers'[n][p] = incoming_message_buffers[n][p]
  <2>1. \/ UNCHANGED length_buffers
        \/ \E x : length_buffers' = [length_buffers EXCEPT ![m][q] = x]
    BY <1>7 DEF Fill
  <2>2. \/ UNCHANGED incoming_message_buffers
        \/ \E x : incoming_message_buffers' = [incoming_message_buffers EXCEPT ![m][q] = x]
    BY <1>7 DEF Fill
  <2> HIDE DEF q
  <2>3. ASSUME NEW x, length_buffers' = [length_buffers EXCEPT ![m][q] = x]
        PROVE  length_buffers'[n][p] = length_buffers[n][p]
    BY <1>3, <1>4, <1>9, <2>3
  <2>4. ASSUME NEW x, incoming_message_buffers' = [incoming_message_buffers EXCEPT ![m][q] = x]
        PROVE  incoming_message_buffers'[n][p] = incoming_message_buffers[n][p]
    BY <1>3, <1>4, <1>9, <2>4
  <2> QED
    BY <2>1, <2>2, <2>3, <2>4
<1> HIDE DEF q, e
<1>11. handlers'[n] = handlers[n] \/ (other(e, p) /\ handlers'[n] = Append(handlers[n], e))
  <2>1. handlers' = [handlers EXCEPT ![m] = Append(@, e)]
    BY <1>7 DEF e, q
  <2> QED
    BY <1>4, <1>8, <1>9, <2>1 DEF other
<1>12. /\ read_from(n, p)' # {} => read_from(n, p) # {}
       /\ \A op : has_read(n, p, op)' => has_read(n, p, op)
       /\ one_read(n, p)'
  BY <1>8, <1>11, HandlersStay
<1>13. connections_of(n, p)' = connections_of(n, p) /\ \A d : waiting(d, n)' = waiting(d, n)
  BY <1>1 DEF connections_of, waiting
<1>14. \A d \in connections_of(n, p) :
         pending'[d][n] = pending[d][n] /\ arriving'[d][n] = arriving[d][n]
  <2>1. \A d \in connections_of(n, p) : joins(d, n) /\ peer_of(d, n) = p /\ d \in Connection
    BY <1>2, ConnectionsOf DEF joins, ConnectionsInv
  <2>2. \A d \in connections_of(n, p) : ~(d = c /\ n = m)
    BY <1>9, <2>1 DEF q
  <2> QED
    BY <1>1, <1>4, <1>7, <2>1, <2>2
<1> QED
  BY <1>1, <1>10, <1>12, <1>13, <1>14, UnderstoodStays

LEMMA ReadIsUnderstood ==
  ASSUME SocketsInv, NEW n \in Node, NEW p \in Node, Understood(n, p), one_connection(n, p),
         NEW c \in Connection, Reads(c, n), peer_of(c, n) = p
  PROVE  Understood(n, p)'
<1>1. /\ pending[c][n] # <<>> /\ pending' = [pending EXCEPT ![c][n] = Tail(@)]
      /\ UNCHANGED <<handled, connections, ends, backlog, broken, unsent, sent>>
  BY DEF Reads, ReadCompletes, ReadFails
<1>2. joins(c, n) /\ Shape /\ ConnectionsInv /\ ReadsInv(c, n)
  BY <1>1 DEF SocketsInv, TableInv, ReadsInv
<1>3. c \in connections_of(n, p) /\ \A d \in connections_of(n, p) : d = c
  BY <1>2, ConnectionsOf DEF one_connection
<1>4. StageInv(c, n, p) /\ FrameInv(c, n, p)
  BY <1>3 DEF Understood
<1>5. /\ pending \in [Connection -> [Node -> Seq(Read)]]
      /\ arriving \in [Connection -> [Node -> Seq(Word)]]
      /\ length_buffers \in [Node -> [Node -> Word]]
      /\ incoming_message_buffers \in [Node -> [Node -> Seq(Word)]]
      /\ handlers \in [Node -> Seq(Completion)]
  BY <1>2 DEF Shape
<1> DEFINE read == pending[c][n][1]
           w == arriving[c][n]
<1>6. /\ Len(pending[c][n]) = 1 /\ Head(pending[c][n]) = read /\ read \in Read
      /\ Tail(pending[c][n]) = <<>>
  <2> DEFINE r == pending[c][n]
  <2>1. r \in Seq(Read) /\ Len(r) <= 1 /\ r # <<>>
    BY <1>1, <1>4, <1>5 DEF StageInv
  <2> HIDE DEF r
  <2>2. Len(r) = 1 /\ Head(r) = r[1] /\ r[1] \in Read
    BY <2>1
  <2>3. Tail(r) \in Seq(Read) /\ Len(Tail(r)) = 0
    BY <2>1, <2>2
  <2>4. Tail(r) = <<>>
    BY <2>3, EmptySeq
  <2> QED
    BY <2>2, <2>4 DEF r
<1>7. read.op \in {"size", "body"} /\ read.words \in Nat
  BY <1>6 DEF Read
<1>8. /\ read_from(n, p) = {} /\ ~waiting(c, n) /\ connections[c].from # n
      /\ handled[n][p] = <<>>
  BY <1>1, <1>4 DEF StageInv
<1>9. /\ pending'[c][n] = <<>> /\ handled'[n][p] = <<>> /\ connections'[c].from # n
      /\ ~waiting(c, n)' /\ connections_of(n, p)' = connections_of(n, p)
  BY <1>1, <1>5, <1>6, <1>8 DEF waiting, connections_of
<1>10. \A s \in Traffic : is_first(s, n, p)' = is_first(s, n, p)
  BY <1>1 DEF is_first
\* What is still to show when the read has succeeded.
<1>11. SUFFICES /\ one_read(n, p)'
                /\ has_read(n, p, "size")' =>
                     \E s \in Traffic : /\ is_first(s, n, p)
                                        /\ begins(arriving'[c][n], body(s))
                                        /\ length_buffers'[n][p] = size(Len(body(s)))
                /\ has_read(n, p, "body")' =>
                     \E s \in Traffic : /\ is_first(s, n, p)
                                        /\ incoming_message_buffers'[n][p] = body(s)
  <2> DEFINE S == has_read(n, p, "size")' =>
                     \E s \in Traffic : /\ is_first(s, n, p)'
                                        /\ begins(arriving'[c][n], body(s))
                                        /\ length_buffers'[n][p] = size(Len(body(s)))
             B == has_read(n, p, "body")' =>
                     \E s \in Traffic : /\ is_first(s, n, p)'
                                        /\ incoming_message_buffers'[n][p] = body(s)
  <2>1. one_read(n, p)' /\ S /\ B
    BY <1>10
  <2>2. Len(<<>>) = 0
    OBVIOUS
  <2>3. StageInv(c, n, p)'
    BY <1>9, <2>2 DEF StageInv
  <2>4. FrameInv(c, n, p)'
    BY <1>9, <2>1 DEF FrameInv, reads
  <2> QED
    BY <1>3, <1>9, <2>1, <2>3, <2>4 DEF Understood
<1>12. handlers[n] \in Seq(Completion)
  BY <1>5
<1>13. CASE ReadFails(c, n)
  <2> DEFINE e == completion(read.op, p, TRUE)
  <2>1. handlers' = [handlers EXCEPT ![n] = Append(@, e)]
    BY <1>6, <1>13 DEF ReadFails
  <2>2. e \in Completion /\ other(e, p)
    <3>1. other(e, p)
      BY DEF other, completion
    <3> QED
      BY <1>7, <3>1, CompletionType
  <2> HIDE DEF e
  <2>3. handlers'[n] = Append(handlers[n], e)
    BY <1>5, <2>1
  <2>4. read_from(n, p)' = {} /\ one_read(n, p)' /\ \A op : ~has_read(n, p, op)'
    <3>1. /\ read_from(n, p)' # {} => read_from(n, p) # {}
          /\ \A op : has_read(n, p, op)' => has_read(n, p, op)
          /\ one_read(n, p)'
      BY <2>2, <2>3, HandlersStay
    <3> QED
      BY <1>8, <3>1 DEF has_read
  <2> QED
    BY <2>4
<1>14. CASE ReadCompletes(c, n)
  <2> DEFINE e == completion(read.op, p, FALSE)
             data == SubSeq(w, 1, read.words)
  <2>1. /\ handlers' = [handlers EXCEPT ![n] = Append(@, e)]
        /\ Len(w) >= read.words /\ Fill(c, n, data)
        /\ arriving' = [arriving EXCEPT ![c][n] = SubSeq(w, read.words + 1, Len(w))]
    BY <1>6, <1>14 DEF ReadCompletes
  <2>2. e \in Completion /\ e.op = read.op
    BY <1>7, CompletionType DEF completion
  <2> HIDE DEF e
  <2>3. handlers'[n] = Append(handlers[n], e)
    BY <1>5, <2>1
  <2>4. one_read(n, p)' /\ \A op : has_read(n, p, op)' => read.op = op
    BY <1>8, <1>12, <2>2, <2>3, HandlerAdded
  <2>5. w \in Seq(Word) /\ p \in Node /\ Len(w) \in Nat
    BY <1>5
  <2>6. arriving'[c][n] = SubSeq(w, read.words + 1, Len(w))
    BY <1>5, <2>1
  <2>7. CASE read.op = "size"
    <3>1. UnreadInv(c, n, p)
      BY <1>1, <1>4, <2>7 DEF FrameInv, reads
    <3>2. read.words = 1
      BY <1>2, <1>6, <2>7 DEF ReadsInv
    <3>3. w # <<>>
      BY <2>1, <2>5, <3>2
    <3>4. PICK s \in Traffic : /\ is_first(s, n, p)
                               /\ begins(w, <<size(Len(body(s)))>> \o body(s))
      BY <3>1, <3>3 DEF UnreadInv
    <3> DEFINE x == size(Len(body(s)))
    <3>5. body(s) \in Seq(Word) /\ x \in Word
      <4>1. body(s) \in Seq(Word) /\ Len(body(s)) \in Nat
        BY BodyShape
      <4> QED
        BY <4>1 DEF size, Word
    <3> HIDE DEF x, w
    <3>6. SubSeq(w, 1, 1) = <<x>> /\ begins(SubSeq(w, 2, Len(w)), body(s))
      BY <2>5, <3>4, <3>5, BeginsTail DEF x
    <3>7. data = <<x>> /\ begins(arriving'[c][n], body(s))
      BY <2>6, <3>2, <3>6
    <3>8. length_buffers' = [length_buffers EXCEPT ![n][p] = x]
      <4> HIDE DEF data
      <4>1. data # <<>> /\ data[1] = x
        BY <3>7
      <4> QED
        BY <1>6, <2>1, <2>7, <4>1 DEF Fill
    <3>9. length_buffers'[n][p] = x
      BY <1>5, <3>8
    <3> QED
      BY <2>4, <2>7, <3>4, <3>7, <3>9 DEF x
  <2>8. CASE read.op = "body"
    <3>1. PICK s \in Traffic : /\ is_first(s, n, p)
                               /\ begins(w, body(s))
                               /\ read.words = Len(body(s))
                               /\ Len(incoming_message_buffers[n][p]) = Len(body(s))
      BY <1>1, <1>4, <2>8 DEF FrameInv, reads
    <3>2. body(s) \in Seq(Word) /\ incoming_message_buffers[n][p] \in Seq(Word)
      BY <1>5, <2>5, BodyShape
    <3>3. data = body(s)
      BY <2>5, <3>1, <3>2, BeginsPieces
    <3>4. ~ \E i \in 2 .. Len(pending[c][n]) : pending[c][n][i].op = "body"
      BY <1>6
    <3>5. incoming_message_buffers' = [incoming_message_buffers EXCEPT ![n][p] =
                                         stored(data, incoming_message_buffers[n][p])]
      <4> HIDE DEF data
      <4> QED
        BY <1>6, <2>1, <2>8, <3>4 DEF Fill
    <3>6. stored(data, incoming_message_buffers[n][p]) = body(s)
      BY <3>1, <3>2, <3>3, StoredBody
    <3>7. incoming_message_buffers'[n][p] = body(s)
      <4>1. incoming_message_buffers' = [incoming_message_buffers EXCEPT ![n][p] = body(s)]
        BY <3>5, <3>6
      <4> QED
        BY <1>5, <4>1
    <3> QED
      BY <2>4, <2>8, <3>1, <3>7
  <2> QED
    BY <1>7, <2>7, <2>8
<1> QED
  BY <1>13, <1>14 DEF Reads

\* The handler of a read from another peer, or at another node.
LEMMA OtherHandlerIsUnderstood ==
  ASSUME SocketsInv, NEW n \in Node, NEW p \in Node, Understood(n, p),
         NEW m \in Node, handle_size_read(m) \/ handle_body_read(m),
         ~(m = n /\ handler(m).peer = p)
  PROVE  Understood(n, p)'
<1> DEFINE q == handler(m).peer
           c == sockets_by_id[m][q]
<1>1. /\ handlers[m] # <<>> /\ HandlerDone(m)
      /\ UNCHANGED <<length_buffers, connections, ends, arriving, backlog, broken, unsent, sent>>
  BY DEF handle_size_read, handle_body_read, Completes, buffers
<1>2. q \in Node
  BY <1>1, HandlerType
<1>3. /\ incoming_message_buffers \in [Node -> [Node -> Seq(Word)]]
      /\ handled \in [Node -> [Node -> Seq(Sent \cup {Misread})]]
      /\ pending \in [Connection -> [Node -> Seq(Read)]]
      /\ handlers \in [Node -> Seq(Completion)]
      /\ sockets_by_id \in [Node -> [Node -> Socket]]
  BY DEF SocketsInv, Shape
<1>4. /\ \/ UNCHANGED incoming_message_buffers
         \/ \E x : incoming_message_buffers' = [incoming_message_buffers EXCEPT ![m][q] = x]
      /\ \/ UNCHANGED handled
         \/ \E x : handled' = [handled EXCEPT ![m][q] = x]
      /\ \/ UNCHANGED pending
         \/ c # NoSocket /\ \E x : pending' = [pending EXCEPT ![c][m] = x]
  BY DEF handle_size_read, handle_body_read, Handles, start_read, buffers
<1>5. c # NoSocket => c \in Connection /\ joins(c, m) /\ peer_of(c, m) = q
  <2>1. EntryInv(m, q)
    BY <1>2 DEF SocketsInv, TableInv
  <2>2. c \in Socket
    BY <1>2, <1>3
  <2> QED
    BY <2>1, <2>2 DEF EntryInv, Socket
<1>6. handlers'[n] = handlers[n] \/ (handlers[n] # <<>> /\ handlers'[n] = Tail(handlers[n]))
  BY <1>1, <1>3 DEF HandlerDone
<1>7. /\ read_from(n, p)' # {} => read_from(n, p) # {}
      /\ \A op : has_read(n, p, op)' => has_read(n, p, op)
      /\ one_read(n, p)'
  BY <1>6, HandlersStay
<1>8. \A d \in connections_of(n, p) : joins(d, n) /\ peer_of(d, n) = p /\ d \in Connection
  BY ConnectionsOf DEF joins, SocketsInv, ConnectionsInv
<1>9. ~(n = m /\ p = q)
  OBVIOUS
<1> HIDE DEF c, q
<1>10. ASSUME NEW x, incoming_message_buffers' = [incoming_message_buffers EXCEPT ![m][q] = x]
       PROVE  incoming_message_buffers'[n][p] = incoming_message_buffers[n][p]
  BY <1>2, <1>3, <1>9, <1>10
<1>11. ASSUME NEW x, handled' = [handled EXCEPT ![m][q] = x]
       PROVE  handled'[n][p] = handled[n][p]
  BY <1>2, <1>3, <1>9, <1>11
<1>12. ASSUME NEW x, c # NoSocket, pending' = [pending EXCEPT ![c][m] = x],
              NEW d \in connections_of(n, p)
       PROVE  pending'[d][n] = pending[d][n]
  <2>1. ~(d = c /\ n = m)
    BY <1>5, <1>8, <1>9, <1>12
  <2> QED
    BY <1>3, <1>5, <1>8, <1>12, <2>1
<1>13. connections_of(n, p)' = connections_of(n, p) /\ \A d : waiting(d, n)' = waiting(d, n)
  BY <1>1 DEF connections_of, waiting
<1>14. /\ incoming_message_buffers'[n][p] = incoming_message_buffers[n][p]
       /\ handled'[n][p] = handled[n][p]
       /\ \A d \in connections_of(n, p) : pending'[d][n] = pending[d][n]
  BY <1>4, <1>10, <1>11, <1>12
<1> QED
  BY <1>1, <1>7, <1>13, <1>14, UnderstoodStays

\* A read from p has succeeded: its handler is alone, and no read waits.
LEMMA HandlerIsAlone ==
  ASSUME SocketsInv, NEW n \in Node, NEW p \in Node, Understood(n, p), one_connection(n, p),
         handlers[n] # <<>>, HandlerDone(n), ~other(handler(n), p), connections' = connections,
         backlog' = backlog
  PROVE  /\ has_read(n, p, handler(n).op) /\ handled[n][p] = <<>>
         /\ read_from(n, p)' = {} /\ one_read(n, p)' /\ \A op : ~has_read(n, p, op)'
         /\ \E c \in Connection :
              /\ connections_of(n, p) = {c} /\ connections_of(n, p)' = {c}
              /\ pending[c][n] = <<>> /\ ~waiting(c, n)' /\ connections'[c].from # n
              /\ FrameInv(c, n, p)
<1>1. handlers \in [Node -> Seq(Completion)]
  BY DEF SocketsInv, Shape
<1>2. handlers[n] \in Seq(Completion) /\ handlers'[n] = Tail(handlers[n])
  BY <1>1 DEF HandlerDone
<1>3. /\ handler(n) = handlers[n][1] /\ 1 \in 1 .. Len(handlers[n])
      /\ Tail(handlers[n]) # handlers[n] /\ Tail(handlers[n]) \o <<>> = Tail(handlers[n])
  <2> DEFINE h == handlers[n]
  <2>1. h \in Seq(Completion) /\ h # <<>> /\ handler(n) = Head(h)
    BY <1>2 DEF handler
  <2> HIDE DEF h
  <2>2. Len(h) \in Nat /\ Len(h) > 0 /\ Head(h) = h[1]
    BY <2>1
  <2>3. Tail(h) \in Seq(Completion) /\ Len(Tail(h)) = Len(h) - 1
    BY <2>1
  <2>4. ASSUME Tail(h) = h
        PROVE  FALSE
    <3>1. Len(Tail(h)) = Len(h)
      BY <2>4, Zenon
    <3> QED
      BY <2>2, <2>3, <3>1
  <2>5. Tail(h) \o <<>> = Tail(h)
    BY <2>3, ConcatEmptySeq
  <2>6. 1 \in 1 .. Len(h)
    BY <2>2
  <2> QED
    BY <2>1, <2>2, <2>4, <2>5, <2>6 DEF h
<1>4. 1 \in read_from(n, p)
  BY <1>3 DEF read_from, other
<1>5. has_read(n, p, handler(n).op)
  BY <1>3, <1>4 DEF has_read
<1>6. read_from(n, p)' = {}
  <2>1. <<>> \in Seq(Completion) /\ \A i \in 1 .. Len(<<>>) : other(<<>>[i], p)
    OBVIOUS
  <2>2. one_read(n, p)
    BY DEF Understood
  <2> QED
    BY <1>2, <1>3, <2>1, <2>2, HandlersKept
<1>7. PICK c \in connections_of(n, p) : TRUE
  BY <1>4 DEF Understood
<1>8. connections_of(n, p) = {c} /\ connections_of(n, p)' = {c}
  BY DEF one_connection, connections_of
<1>9. c \in Connection
  BY <1>7, ConnectionsOf DEF joins, SocketsInv, ConnectionsInv
<1>10. StageInv(c, n, p) /\ FrameInv(c, n, p)
  BY <1>7 DEF Understood
<1>11. /\ pending[c][n] = <<>> /\ ~waiting(c, n) /\ handled[n][p] = <<>>
       /\ connections[c].from # n
  BY <1>4, <1>10 DEF StageInv
<1>12. ~waiting(c, n)'
  BY <1>11 DEF waiting
<1> QED
  BY <1>5, <1>6, <1>8, <1>9, <1>10, <1>11, <1>12 DEF one_read, has_read

LEMMA SizeReadIsUnderstood ==
  ASSUME SocketsInv, NEW n \in Node, NEW p \in Node, Understood(n, p), one_connection(n, p),
         handle_size_read(n), handler(n).peer = p
  PROVE  Understood(n, p)'
<1>1. /\ handlers[n] # <<>> /\ HandlerDone(n) /\ handler(n).op = "size" /\ ~handler(n).error
      /\ UNCHANGED <<sockets_by_id, length_buffers, connections, ends, arriving, backlog,
                     broken, unsent, sent>>
  BY DEF handle_size_read, Completes, handler
<1>2. ~other(handler(n), p)
  BY <1>1 DEF other
<1>3. /\ has_read(n, p, "size") /\ handled[n][p] = <<>>
      /\ read_from(n, p)' = {} /\ one_read(n, p)' /\ \A op : ~has_read(n, p, op)'
  BY <1>1, <1>2, HandlerIsAlone
<1>4. PICK c \in Connection :
        /\ connections_of(n, p) = {c} /\ connections_of(n, p)' = {c}
        /\ pending[c][n] = <<>> /\ ~waiting(c, n)' /\ connections'[c].from # n
        /\ FrameInv(c, n, p)
  BY <1>1, <1>2, HandlerIsAlone
<1>5. PICK s \in Traffic : /\ is_first(s, n, p)
                           /\ begins(arriving[c][n], body(s))
                           /\ length_buffers[n][p] = size(Len(body(s)))
  BY <1>3, <1>4 DEF FrameInv
<1>6. is_first(s, n, p)'
  BY <1>1, <1>5 DEF is_first
<1>7. /\ incoming_message_buffers \in [Node -> [Node -> Seq(Word)]]
      /\ pending \in [Connection -> [Node -> Seq(Read)]]
  BY DEF SocketsInv, Shape
<1>8. Len(body(s)) \in Nat
  <2>1. body(s) \in Seq(Word)
    BY BodyShape
  <2> QED
    BY <2>1
<1>9. Len(<<>>) = 0
  OBVIOUS
<1>10. length_buffers[n][p].is = "size" /\ length_buffers[n][p].value = Len(body(s))
  BY <1>5 DEF size
<1>11. CASE UNCHANGED <<pending, handled>>
  <2>1. StageInv(c, n, p)' /\ FrameInv(c, n, p)'
    BY <1>3, <1>4, <1>9, <1>11 DEF StageInv, FrameInv, reads
  <2> QED
    BY <1>3, <1>4, <1>11, <2>1 DEF Understood
<1>12. CASE /\ sockets_by_id[n][p] # NoSocket
            /\ incoming_message_buffers' = [incoming_message_buffers EXCEPT ![n][p] =
                                              resize(@, length_buffers[n][p].value)]
            /\ start_read(sockets_by_id[n][p], n, "body", length_buffers[n][p].value)
            /\ UNCHANGED <<stopped, handled>>
  <2>1. sockets_by_id[n][p] \in connections_of(n, p)
    <3>1. joins(sockets_by_id[n][p], n) /\ peer_of(sockets_by_id[n][p], n) = p
      BY <1>12 DEF SocketsInv, TableInv, EntryInv
    <3> QED
      BY <3>1, ConnectionsOf
  <2>2. sockets_by_id[n][p] = c
    BY <1>4, <2>1
  <2> DEFINE start == [op |-> "body", words |-> Len(body(s))]
  <2>3. pending'[c][n] = <<start>>
    <3>1. pending' = [pending EXCEPT ![c][n] = Append(@, start)]
      BY <1>10, <1>12, <2>2 DEF start_read
    <3> HIDE DEF start
    <3>2. pending'[c][n] = Append(<<>>, start)
      BY <1>4, <1>7, <3>1
    <3> QED
      BY <3>2
  <2>4. Len(incoming_message_buffers'[n][p]) = Len(body(s))
    <3> DEFINE new == resize(incoming_message_buffers[n][p], Len(body(s)))
    <3>1. Len(new) = Len(body(s))
      BY <1>7, <1>8, ResizeType
    <3>2. incoming_message_buffers' = [incoming_message_buffers EXCEPT ![n][p] = new]
      BY <1>10, <1>12
    <3> HIDE DEF new
    <3>3. incoming_message_buffers'[n][p] = new
      BY <1>7, <3>2
    <3> QED
      BY <3>1, <3>3
  <2>5. /\ Len(<<start>>) = 1 /\ <<start>> # <<>> /\ <<start>>[1].op = "body"
        /\ <<start>>[1].words = Len(body(s))
    OBVIOUS
  <2> HIDE DEF start
  <2>6. StageInv(c, n, p)'
    BY <1>3, <1>4, <1>12, <2>3, <2>5 DEF StageInv
  <2>7. begins(arriving'[c][n], body(s))
    BY <1>1, <1>5
  <2>8. FrameInv(c, n, p)'
    BY <1>3, <1>4, <1>6, <2>3, <2>4, <2>5, <2>7 DEF FrameInv, reads
  <2> QED
    BY <1>3, <1>4, <1>12, <2>6, <2>8 DEF Understood
<1> QED
  BY <1>10, <1>11, <1>12 DEF handle_size_read

LEMMA BodyReadIsUnderstood ==
  ASSUME SocketsInv, NEW n \in Node, NEW p \in Node, Understood(n, p), one_connection(n, p),
         handle_body_read(n), handler(n).peer = p
  PROVE  Understood(n, p)'
<1>1. /\ handlers[n] # <<>> /\ HandlerDone(n) /\ handler(n).op = "body" /\ ~handler(n).error
      /\ Handles(n, receive_message(incoming_message_buffers[n][p]))
      /\ UNCHANGED <<pending, connections, ends, arriving, backlog, broken, unsent, sent>>
  BY DEF handle_body_read, Completes, handler
<1>2. ~other(handler(n), p)
  BY <1>1 DEF other
<1>3. /\ has_read(n, p, "body") /\ handled[n][p] = <<>>
      /\ read_from(n, p)' = {} /\ one_read(n, p)' /\ \A op : ~has_read(n, p, op)'
  BY <1>1, <1>2, HandlerIsAlone
<1>4. PICK c \in Connection :
        /\ connections_of(n, p) = {c} /\ connections_of(n, p)' = {c}
        /\ pending[c][n] = <<>> /\ ~waiting(c, n)' /\ connections'[c].from # n
        /\ FrameInv(c, n, p)
  BY <1>1, <1>2, HandlerIsAlone
<1>5. PICK s \in Traffic : is_first(s, n, p) /\ incoming_message_buffers[n][p] = body(s)
  BY <1>3, <1>4 DEF FrameInv
<1>6. is_first(s, n, p)'
  BY <1>1, <1>5 DEF is_first
<1>7. handled'[n][p] = s.messages
  <2>1. handled \in [Node -> [Node -> Seq(Sent \cup {Misread})]] /\ s.messages \in Seq(Sent)
    BY SendType DEF SocketsInv, Shape
  <2>2. handled' = [handled EXCEPT ![n][p] = @ \o s.messages]
    BY <1>1, <1>5, BodyIsUnderstood DEF Handles
  <2>3. handled'[n][p] = <<>> \o s.messages
    BY <1>3, <2>1, <2>2
  <2> QED
    BY <2>1, <2>3, ConcatKeeps
<1>8. Len(<<>>) = 0
  OBVIOUS
<1>9. StageInv(c, n, p)' /\ FrameInv(c, n, p)'
  BY <1>1, <1>3, <1>4, <1>8 DEF StageInv, FrameInv, reads
<1> QED
  BY <1>3, <1>4, <1>6, <1>7, <1>9 DEF Understood

-----------------------------------------------------------------------------
(* Two nodes with one connection understand each other *)

LEMMA NextIsUnderstood ==
  ASSUME SocketsInv, [Next]_vars, NEW n \in Node \ {UTILITY_NODE_ID}, NEW p \in Node,
         Understood(n, p), one_connection(n, p), one_connection(n, p)', ~pinged(n, p)'
  PROVE  Understood(n, p)'
<1>1. ASSUME NEW s \in Traffic, Send(s) \/ SendFails(s) \/ PingFails(s)
      PROVE  Understood(n, p)'
  BY <1>1, SendIsUnderstood, SendFailsIsUnderstood, PingFailsIsUnderstood
<1>2. ASSUME /\ UNCHANGED <<length_buffers, incoming_message_buffers, handled, pending,
                            connections, ends, arriving, backlog, unsent, sent>>
             /\ broken \subseteq broken'
             /\ \/ handlers'[n] = handlers[n]
                \/ handlers[n] # <<>> /\ handlers'[n] = Tail(handlers[n])
      PROVE  Understood(n, p)'
  <2>1. /\ read_from(n, p)' # {} => read_from(n, p) # {}
        /\ \A op : has_read(n, p, op)' => has_read(n, p, op)
        /\ one_read(n, p)'
    BY <1>2, HandlersStay
  <2>2. connections_of(n, p)' = connections_of(n, p) /\ \A d : waiting(d, n)' = waiting(d, n)
    BY <1>2 DEF connections_of, waiting
  <2> QED
    BY <1>2, <2>1, <2>2, UnderstoodStays
<1>3. ASSUME NEW m \in Node, Run(m) PROVE Understood(n, p)'
  <2>1. CASE Accept(m)
    BY <2>1, AcceptIsUnderstood
  <2>2. CASE handle_size_read(m) \/ handle_body_read(m)
    BY <2>2, OtherHandlerIsUnderstood, SizeReadIsUnderstood, BodyReadIsUnderstood
  <2>3. CASE handle_size_read_error(m)
    <3>1. /\ handlers[m] # <<>> /\ HandlerDone(m)
          /\ UNCHANGED <<length_buffers, incoming_message_buffers, handled, pending,
                         connections, ends, arriving, backlog, unsent, sent, broken>>
      BY <2>3 DEF handle_size_read_error, Completes, buffers
    <3>2. handlers \in [Node -> Seq(Completion)]
      BY DEF SocketsInv, Shape
    <3>3. handlers'[n] = handlers[n] \/ (handlers[n] # <<>> /\ handlers'[n] = Tail(handlers[n]))
      BY <3>1, <3>2 DEF HandlerDone
    <3> QED
      BY <1>2, <3>1, <3>3
  <2>4. CASE handle_body_read_error(m) \/ handle_write_complete(m)
    <3>1. /\ handlers[m] # <<>> /\ erase(m, handler(m).peer, Tail(handlers[m]))
          /\ UNCHANGED <<length_buffers, incoming_message_buffers, connections, arriving,
                         backlog, broken, handled, unsent, sent>>
      BY <2>4 DEF handle_body_read_error, handle_write_complete, Completes, buffers
    <3>2. handler(m).peer \in Node
      BY <3>1, HandlerType
    <3> QED
      BY <3>1, <3>2, EraseIsUnderstood
  <2> QED
    BY <1>3, <2>1, <2>2, <2>3, <2>4 DEF Run
<1>4. ASSUME NEW m \in Node, shutdown(m) PROVE Understood(n, p)'
  BY <1>2, <1>4 DEF shutdown, transport, buffers
<1>5. ASSUME NEW c \in Connection, Break(c) PROVE Understood(n, p)'
  BY <1>2, <1>5 DEF Break, node, buffers
<1>6. ASSUME NEW c \in Connection, NEW m \in Node, Reads(c, m) PROVE Understood(n, p)'
  BY <1>6, OtherReadIsUnderstood, ReadIsUnderstood
<1>7. CASE UNCHANGED vars
  BY <1>2, <1>7 DEF vars, node, transport, buffers
<1> QED
  BY <1>1, <1>3, <1>4, <1>5, <1>6, <1>7 DEF Next

\* Connections are not forgotten, and neither are pings.
LEMMA NextOnlyAdds ==
  ASSUME SocketsInv, [Next]_vars
  PROVE  /\ unsent' \subseteq unsent
         /\ \A n, p : connections_of(n, p) \subseteq connections_of(n, p)'
<1>1. unsent' \subseteq unsent
  <2>1. ASSUME NEW s \in Traffic, Send(s) \/ SendFails(s) \/ PingFails(s)
        PROVE  unsent' \subseteq unsent
    BY <2>1 DEF Send, SendFails, PingFails, SendBegins
  <2>2. ASSUME NEW n \in Node, Run(n) \/ shutdown(n) PROVE unsent' = unsent
    BY <2>2 DEF Run, shutdown, Accept, handle_size_read, handle_size_read_error,
         handle_body_read, handle_body_read_error, handle_write_complete, Completes
  <2>3. ASSUME NEW c \in Connection, NEW n \in Node, Break(c) \/ Reads(c, n)
        PROVE  unsent' = unsent
    BY <2>3 DEF Break, Reads, ReadCompletes, ReadFails
  <2>4. ASSUME NEW c \in Connection, Break(c) PROVE unsent' = unsent
    BY <2>4 DEF Break
  <2>5. CASE UNCHANGED vars
    BY <2>5 DEF vars
  <2> QED
    BY <2>1, <2>2, <2>3, <2>4, <2>5 DEF Next
<1>2. connections' = connections \/ \E k \in Peers : connections' = Append(connections, k)
  <2>1. ASSUME NEW s \in Traffic, Send(s) \/ SendFails(s) \/ PingFails(s)
        PROVE  connections' = connections
                 \/ connections' = Append(connections, [from |-> s.from, to |-> s.to])
    BY <2>1 DEF Send, SendFails, PingFails, initialize_socket
  <2>2. \A s \in Traffic : [from |-> s.from, to |-> s.to] \in Peers
    BY SendType DEF Peers
  <2>3. ASSUME NEW n \in Node, Run(n) \/ shutdown(n) PROVE connections' = connections
    BY <2>3 DEF Run, shutdown, Accept, handle_size_read, handle_size_read_error,
         handle_body_read, handle_body_read_error, handle_write_complete, Completes, transport
  <2>4. ASSUME NEW c \in Connection, NEW n \in Node, Reads(c, n) PROVE connections' = connections
    BY <2>4 DEF Reads, ReadCompletes, ReadFails
  <2>5. ASSUME NEW c \in Connection, Break(c) PROVE connections' = connections
    BY <2>5 DEF Break
  <2>6. CASE UNCHANGED vars
    BY <2>6 DEF vars, transport
  <2> QED
    BY <2>1, <2>2, <2>3, <2>4, <2>5, <2>6 DEF Next
<1>3. connections \in Seq(Peers)
  BY DEF SocketsInv, Shape
<1>4. \A c \in DOMAIN connections : c \in DOMAIN connections' /\ connections'[c] = connections[c]
  BY <1>2, <1>3
<1> QED
  BY <1>1, <1>4 DEF connections_of

LEMMA NextKeepsOneConnection ==
  ASSUME SocketsInv, OneConnectionInv, [Next]_vars PROVE OneConnectionInv'
<1> SUFFICES ASSUME NEW n \in Node \ {UTILITY_NODE_ID}, NEW p \in Node,
                    one_connection(n, p)', ~pinged(n, p)'
             PROVE  Understood(n, p)'
  BY DEF OneConnectionInv
<1>1. one_connection(n, p)
  BY NextOnlyAdds DEF one_connection
<1>2. ~pinged(n, p)
  BY NextOnlyAdds DEF pinged
<1> QED
  BY <1>1, <1>2, NextIsUnderstood DEF OneConnectionInv

LEMMA InitOneConnection == Init => OneConnectionInv
<1> SUFFICES ASSUME Init, NEW n \in Node, NEW p \in Node PROVE Understood(n, p)
  BY DEF OneConnectionInv
<1>1. connections_of(n, p) = {}
  BY DEF Init, connections_of
<1>2. read_from(n, p) = {} /\ one_read(n, p)
  BY DEF Init, read_from, one_read
<1> QED
  BY <1>1, <1>2 DEF Init, Understood

\* While two nodes have made one connection and the peer has not pinged, a meter
\* handles from the peer nothing, or what the peer sent it first: whatever
\* breaks, whichever entries are erased, and however many sends follow the first.
THEOREM FirstSendIsHandled == Spec => []FirstSendOrNothing
<1>1. Init => SocketsInv /\ OneConnectionInv
  BY InitSockets, InitOneConnection
<1>2. SocketsInv /\ OneConnectionInv /\ [Next]_vars => (SocketsInv /\ OneConnectionInv)'
  BY NextKeepsSockets, NextKeepsOneConnection
<1>3. OneConnectionInv => FirstSendOrNothing
  <2> SUFFICES ASSUME OneConnectionInv, NEW n \in Node \ {UTILITY_NODE_ID}, NEW p \in Node,
                      one_connection(n, p), ~pinged(n, p)
               PROVE  \/ handled[n][p] = <<>>
                      \/ \E s \in Traffic \ unsent : /\ s.from = p /\ s.to = n
                                                     /\ handled[n][p] = s.messages
                                                     /\ IsPrefix(s.messages, sent[p][n])
    BY DEF FirstSendOrNothing
  <2>1. Understood(n, p)
    BY DEF OneConnectionInv
  <2> QED
    BY <2>1 DEF Understood, is_first
<1> QED
  BY <1>1, <1>2, <1>3, PTL DEF Spec
=============================================================================
