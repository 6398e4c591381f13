--------------------------- MODULE NetworkManager ---------------------------
(***************************************************************************)
(* NetworkManager: the sockets of the meters and of the utility.  Each     *)
(* node keeps at most one socket per peer in sockets_by_id, made by the    *)
(* first message sent to the peer or by accepting the peer's connection,   *)
(* and the thread in run() executes one completion handler after another.  *)
(* The other threads of the program may send between any two of them.      *)
(*                                                                         *)
(* The socket library and TCP are external.  A socket made by              *)
(* initialize_socket is taken to be connected, and handle_accept to know   *)
(* its peer, as the code assumes.  What travels is counted in words of     *)
(* sizeof(size_t) bytes, a message being one word; a write puts the whole  *)
(* of its buffer into the connection at once, and a read puts its words    *)
(* into the node's buffer for the peer when it ends.                       *)
(***************************************************************************)
EXTENDS Integers, Sequences, FiniteSets, SequencesExt

CONSTANTS
  Node,             \* the meters and the utility
  UTILITY_NODE_ID,
  Traffic,          \* bound: the sends of the run, each called once
  MaxConnections,   \* bound: the connections made
  MaxBreaks,        \* bound: the connections the network breaks
  MayStop,          \* bound: the nodes whose shutdown() is called
  NoSocket, Misread \* no entry; what a handler makes of words it misreads

Overload == {"OverlayTransportMessage", "AggregationMessage", "PingMessage",
             "SignatureRequest", "QueryRequest", "SignatureResponse"}

Connection == 1 .. MaxConnections

\* The messages there are.
Sent == UNION {Range(s.messages) : s \in Traffic}

\* A send: the overload called, by whom, recipient_id and the messages.
ASSUME TrafficAssumption ==
  \A s \in Traffic : /\ s.overload \in Overload
                     /\ {s.from, s.to} \subseteq Node /\ s.from # s.to
                     /\ s.overload = "SignatureRequest" => s.to = UTILITY_NODE_ID
                     /\ s.messages \in Seq(Range(s.messages)) /\ s.messages # <<>>
ASSUME NodeAssumption == UTILITY_NODE_ID \in Node /\ MayStop \subseteq Node
ASSUME BoundsAssumption == MaxConnections \in Nat /\ MaxBreaks \in Nat
ASSUME ValuesAssumption == NoSocket \notin Connection /\ Misread \notin Sent

VARIABLES
  sockets_by_id,  \* for each node and peer, the connection of the entry
  length_buffers, incoming_message_buffers, \* and what is in its buffers
  stopped,        \* the nodes whose run() has returned or thrown
  handlers,       \* for each node the completion handlers to run, in order
  pending,        \* for each connection and end the reads waiting, in order
  connections,    \* the connections in the order they were made
  ends,           \* for each connection the nodes that hold a socket of it
  arriving,       \* for each connection and end the words to be read there
  backlog,        \* for each node the connections it has not accepted
  broken,         \* the connections broken by the network
  unsent,         \* the sends that have not been called
  sent,           \* for each node and peer the messages sent, in order
  handled         \* for each node and peer what was given to handle_message

buffers == <<length_buffers, incoming_message_buffers>>
node == <<sockets_by_id, buffers, stopped, handlers, handled>>
transport == <<pending, connections, ends, arriving, backlog, broken>>
vars == <<node, transport, unsent, sent>>

\* What a buffer holds before anything has been read.
zero == [is |-> "zero", value |-> 0]

Init ==
  /\ sockets_by_id = [n \in Node |-> [p \in Node |-> NoSocket]]
  /\ length_buffers = [n \in Node |-> [p \in Node |-> zero]]
  /\ incoming_message_buffers = [n \in Node |-> [p \in Node |-> <<>>]]
  /\ stopped = {}
  /\ handlers = [n \in Node |-> <<>>]
  /\ pending = [c \in Connection |-> [n \in Node |-> <<>>]]
  /\ connections = <<>>
  /\ ends = [c \in Connection |-> {}]
  /\ arriving = [c \in Connection |-> [n \in Node |-> <<>>]]
  /\ backlog = [n \in Node |-> <<>>]
  /\ broken = {}
  /\ unsent = Traffic
  /\ sent = [n \in Node |-> [p \in Node |-> <<>>]]
  /\ handled = [n \in Node |-> [p \in Node |-> <<>>]]

-----------------------------------------------------------------------------
(* Framing                                                                 *)

size(k) == [is |-> "size", value |-> k]
num_messages(k) == [is |-> "num_messages", value |-> k]
message(m) == [is |-> "message", value |-> m]
words(messages) == [i \in DOMAIN messages |-> message(messages[i])]

\* To the utility an AggregationMessage and a SignatureRequest have no
\* num_messages.
has_header(s) ==
  s.overload # "SignatureRequest"
    /\ ~ (s.overload = "AggregationMessage" /\ s.to = UTILITY_NODE_ID)

\* Mutated form of send_buffer: send_size leaves num_messages out.
send_buffer_short_size(s) ==
  LET all == words(s.messages)
  IN  <<size(Len(all)), num_messages(Len(all))>> \o all

\* What each overload of send writes.  That of PingMessage sets both
\* buffer_size and send_size to sizeof(send_size), so it writes that word only.
send_buffer(s) ==
  IF s.overload = "PingMessage" THEN <<size(1)>>
  ELSE LET body == (IF has_header(s) THEN <<num_messages(Len(s.messages))>> ELSE <<>>)
                     \o words(s.messages)
       IN  <<size(Len(body))>> \o body

\* Mutated forms of receive_message: buffer is not advanced past a message, or
\* starts at the number of messages.
receive_message_in_place(body) == [i \in 1 .. Len(body) - 1 |-> body[2].value]
receive_message_with_header(body) == [i \in 1 .. Len(body) - 1 |-> body[i].value]

\* A body is read as the number of messages, then each of them.  Anything else
\* in that place is taken for a number or for messages all the same.
receive_message(body) ==
  IF /\ body # <<>> /\ Head(body).is = "num_messages"
     /\ Len(body) = Head(body).value + 1
     /\ \A i \in 2 .. Len(body) : body[i].is = "message"
    THEN [i \in 1 .. Len(body) - 1 |-> body[i + 1].value]
    ELSE <<Misread>>

-----------------------------------------------------------------------------
(* Sockets                                                                 *)

peer_of(c, n) == LET k == connections[c] IN IF k.to = n THEN k.from ELSE k.to

completion(op, p, error) == [op |-> op, peer |-> p, error |-> error]

\* Destroying the socket n has of c cancels the reads waiting on it: their
\* handlers run with an error.
cancelled(c, n) ==
  [i \in DOMAIN pending[c][n] |->
     completion(pending[c][n][i].op, peer_of(c, n), TRUE)]

\* Mutated form of erase: the socket is closed and the entry stays.
erase_only_closes(n, p, done) ==
  LET c == sockets_by_id[n][p]
  IN  IF c = NoSocket
        THEN /\ handlers' = [handlers EXCEPT ![n] = done]
             /\ UNCHANGED <<sockets_by_id, ends, pending>>
        ELSE /\ ends' = [ends EXCEPT ![c] = @ \ {n}]
             /\ pending' = [pending EXCEPT ![c][n] = <<>>]
             /\ handlers' = [handlers EXCEPT ![n] = done \o cancelled(c, n)]
             /\ UNCHANGED sockets_by_id

\* sockets_by_id.erase, with `done` the handlers n has left to run by then.
erase(n, p, done) ==
  LET c == sockets_by_id[n][p]
  IN  IF c = NoSocket
        THEN /\ handlers' = [handlers EXCEPT ![n] = done]
             /\ UNCHANGED <<sockets_by_id, ends, pending>>
        ELSE /\ sockets_by_id' = [sockets_by_id EXCEPT ![n][p] = NoSocket]
             /\ ends' = [ends EXCEPT ![c] = @ \ {n}]
             /\ pending' = [pending EXCEPT ![c][n] = <<>>]
             /\ handlers' = [handlers EXCEPT ![n] = done \o cancelled(c, n)]

\* Start an asynchronous read of k words at n from the socket c.
start_read(c, n, op, k) ==
  pending' = [pending EXCEPT ![c][n] = Append(@, [op |-> op, words |-> k])]

\* The socket a send by n to p uses: the entry, or by initialize_socket that of
\* a new connection.
socket(n, p) == IF sockets_by_id[n][p] # NoSocket THEN sockets_by_id[n][p]
                ELSE Len(connections) + 1

\* A write succeeds while the other end is there; after that it may still
\* succeed, its words going nowhere, or fail.
may_fail(c, p) == c \in broken \/ (c <= Len(connections) /\ p \notin ends[c])

SendBegins(s, c) ==
  /\ s \in unsent /\ s.from \notin stopped
  /\ c \in Connection /\ c = socket(s.from, s.to)
  /\ unsent' = unsent \ {s}
  /\ sent' = [sent EXCEPT ![s.from][s.to] =
                IF s.overload = "PingMessage" THEN @ ELSE @ \o s.messages]
  /\ UNCHANGED <<buffers, stopped, broken, handled>>

initialize_socket(s, c) ==
  IF c > Len(connections)
    THEN /\ connections' = Append(connections, [from |-> s.from, to |-> s.to])
         /\ sockets_by_id' = [sockets_by_id EXCEPT ![s.from][s.to] = c]
         /\ ends' = [ends EXCEPT ![c] = {s.from, s.to}]
         /\ backlog' = [backlog EXCEPT ![s.to] = Append(@, c)]
    ELSE UNCHANGED <<connections, sockets_by_id, ends, backlog>>

\* send(...) whose write succeeds; handle_write_complete only logs it.
Send(s) == \E c \in Connection :
  /\ SendBegins(s, c)
  /\ initialize_socket(s, c)
  /\ arriving' = IF may_fail(c, s.to) THEN arriving
                 ELSE [arriving EXCEPT ![c][s.to] = @ \o send_buffer(s)]
  /\ UNCHANGED <<handlers, pending>>

\* send(...) whose asynchronous write fails: the handler has yet to run.
SendFails(s) == \E c \in Connection :
  /\ s.overload # "PingMessage"
  /\ may_fail(c, s.to)
  /\ SendBegins(s, c)
  /\ handlers' = [handlers EXCEPT ![s.from] =
                    Append(@, completion("write", s.to, TRUE))]
  /\ UNCHANGED <<sockets_by_id, ends, pending, connections, arriving, backlog>>

\* The write of a ping is synchronous, and so is the erase when it fails.
PingFails(s) == \E c \in Connection :
  /\ s.overload = "PingMessage"
  /\ may_fail(c, s.to)
  /\ SendBegins(s, c)
  /\ erase(s.from, s.to, handlers[s.from])
  /\ UNCHANGED <<connections, arriving, backlog>>

\* handle_accept, with do_accept for the next connection.  If there is an entry
\* for the peer, emplace leaves it as it is and the new socket is destroyed;
\* the read is started on the entry in either case.
Accept(n) ==
  /\ n \notin stopped /\ backlog[n] # <<>>
  /\ backlog' = [backlog EXCEPT ![n] = Tail(@)]
  /\ LET new_socket == Head(backlog[n])
         p == connections[new_socket].from
     IN  IF sockets_by_id[n][p] = NoSocket
           THEN /\ sockets_by_id' = [sockets_by_id EXCEPT ![n][p] = new_socket]
                /\ start_read(new_socket, n, "size", 1)
                /\ UNCHANGED ends
           ELSE /\ ends' = [ends EXCEPT ![new_socket] = @ \ {n}]
                /\ start_read(sockets_by_id[n][p], n, "size", 1)
                /\ UNCHANGED sockets_by_id
  /\ UNCHANGED <<buffers, stopped, handlers, connections, arriving, broken, unsent,
                 sent, handled>>

\* A vector resized to k words, and data put into its place.
resize(buffer, k) == [i \in 1 .. k |-> IF i <= Len(buffer) THEN buffer[i] ELSE zero]
stored(data, buffer) ==
  [i \in DOMAIN buffer |-> IF i <= Len(data) THEN data[i] ELSE buffer[i]]

\* A node has one buffer of each kind for a peer, whatever reads it has started.
\* If the next body is being waited for too, the buffer has been resized since
\* the read was started, and may have moved from where the read puts its words.
Fill(c, n, data) ==
  LET p == peer_of(c, n)
      body == incoming_message_buffers[n][p]
  IN  IF Head(pending[c][n]).op = "size"
        THEN /\ length_buffers' = IF data = <<>> THEN length_buffers
                                  ELSE [length_buffers EXCEPT ![n][p] = data[1]]
             /\ UNCHANGED incoming_message_buffers
        ELSE /\ \/ incoming_message_buffers' =
                     [incoming_message_buffers EXCEPT ![n][p] = stored(data, body)]
                \/ /\ \E i \in 2 .. Len(pending[c][n]) : pending[c][n][i].op = "body"
                   /\ UNCHANGED incoming_message_buffers
             /\ UNCHANGED length_buffers

\* The first read waiting at an end gets all its words,
ReadCompletes(c, n) ==
  /\ pending[c][n] # <<>>
  /\ LET read == Head(pending[c][n])
     IN  /\ Len(arriving[c][n]) >= read.words
         /\ Fill(c, n, SubSeq(arriving[c][n], 1, read.words))
         /\ arriving' = [arriving EXCEPT ![c][n] =
                           SubSeq(@, read.words + 1, Len(@))]
         /\ handlers' = [handlers EXCEPT ![n] =
                           Append(@, completion(read.op, peer_of(c, n), FALSE))]
  /\ pending' = [pending EXCEPT ![c][n] = Tail(@)]
  /\ UNCHANGED <<sockets_by_id, stopped, handled, connections, ends, backlog,
                 broken, unsent, sent>>

\* or the end of the connection comes first.
ReadFails(c, n) ==
  /\ pending[c][n] # <<>>
  /\ c \in broken \/ peer_of(c, n) \notin ends[c]
  /\ Len(arriving[c][n]) < Head(pending[c][n]).words
  /\ Fill(c, n, arriving[c][n])
  /\ arriving' = [arriving EXCEPT ![c][n] = <<>>]
  /\ handlers' = [handlers EXCEPT ![n] =
       Append(@, completion(Head(pending[c][n]).op, peer_of(c, n), TRUE))]
  /\ pending' = [pending EXCEPT ![c][n] = Tail(@)]
  /\ UNCHANGED <<sockets_by_id, stopped, handled, connections, ends, backlog,
                 broken, unsent, sent>>

-----------------------------------------------------------------------------
(* Completion handlers                                                     *)

Completes(n, op, error) ==
  /\ n \notin stopped /\ handlers[n] # <<>>
  /\ Head(handlers[n]).op = op /\ Head(handlers[n]).error = error
  /\ UNCHANGED <<connections, arriving, backlog, broken, unsent, sent>>

handler(n) == Head(handlers[n])
HandlerDone(n) == handlers' = [handlers EXCEPT ![n] = Tail(@)]
Handles(n, what) ==
  handled' = [handled EXCEPT ![n][handler(n).peer] = @ \o what]

\* Mutated form of handle_size_read: the body is never asked for.
handle_size_read_only(n) ==
  /\ Completes(n, "size", FALSE)
  /\ HandlerDone(n)
  /\ UNCHANGED <<sockets_by_id, buffers, ends, pending, stopped, handled>>

\* start_body_read sees to the buffer and looks the socket up again by the
\* peer's identifier; at() throws if the entry has gone, and nothing in run()
\* catches it.  A word that is not a size is taken for one: what is read then is
\* left out.
handle_size_read(n) ==
  /\ Completes(n, "size", FALSE)
  /\ HandlerDone(n)
  /\ LET p == handler(n).peer
         word == length_buffers[n][p]
         c == sockets_by_id[n][p]
     IN  \/ /\ c = NoSocket
            /\ stopped' = stopped \cup {n}
            /\ UNCHANGED <<incoming_message_buffers, pending, handled>>
         \/ /\ c # NoSocket /\ word.is = "size"
            /\ incoming_message_buffers' =
                 [incoming_message_buffers EXCEPT ![n][p] = resize(@, word.value)]
            /\ start_read(c, n, "body", word.value)
            /\ UNCHANGED <<stopped, handled>>
         \/ /\ c # NoSocket /\ word.is # "size"
            /\ Handles(n, <<Misread>>)
            /\ UNCHANGED <<incoming_message_buffers, stopped, pending>>
  /\ UNCHANGED <<sockets_by_id, length_buffers, ends>>

\* The error is logged and the entry stays.
handle_size_read_error(n) ==
  /\ Completes(n, "size", TRUE)
  /\ HandlerDone(n)
  /\ UNCHANGED <<sockets_by_id, buffers, ends, pending, stopped, handled>>

\* No read is started for a next message.
handle_body_read(n) ==
  /\ Completes(n, "body", FALSE)
  /\ HandlerDone(n)
  /\ Handles(n, receive_message(incoming_message_buffers[n][handler(n).peer]))
  /\ UNCHANGED <<sockets_by_id, buffers, ends, pending, stopped>>

\* Both erase whatever entry the peer has by now.
handle_body_read_error(n) ==
  /\ Completes(n, "body", TRUE)
  /\ erase(n, handler(n).peer, Tail(handlers[n]))
  /\ UNCHANGED <<buffers, stopped, handled>>

handle_write_complete(n) ==
  /\ Completes(n, "write", TRUE)
  /\ erase(n, handler(n).peer, Tail(handlers[n]))
  /\ UNCHANGED <<buffers, stopped, handled>>

shutdown(n) ==
  /\ n \in MayStop \ stopped
  /\ stopped' = stopped \cup {n}
  /\ UNCHANGED <<sockets_by_id, buffers, handlers, handled, transport, unsent, sent>>

-----------------------------------------------------------------------------

Break(c) ==
  /\ c \in 1 .. Len(connections) /\ c \notin broken
  /\ Cardinality(broken) < MaxBreaks
  /\ broken' = broken \cup {c}
  /\ UNCHANGED <<node, pending, connections, ends, arriving, backlog, unsent, sent>>

Run(n) ==
  \/ Accept(n)
  \/ handle_size_read(n) \/ handle_size_read_error(n)
  \/ handle_body_read(n) \/ handle_body_read_error(n)
  \/ handle_write_complete(n)

Reads(c, n) == ReadCompletes(c, n) \/ ReadFails(c, n)

Next ==
  \/ \E s \in Traffic : Send(s) \/ SendFails(s) \/ PingFails(s)
  \/ \E n \in Node : Run(n) \/ shutdown(n)
  \/ \E c \in Connection : Break(c) \/ \E n \in Node : Reads(c, n)

\* run() executes the handlers there are, and the operating system delivers
\* what has arrived.  Nothing makes a thread send.
Spec ==
  /\ Init /\ [][Next]_vars
  /\ \A n \in Node : WF_vars(Run(n))
  /\ WF_vars(\E c \in Connection, n \in Node : Reads(c, n))

-----------------------------------------------------------------------------
(* Properties                                                              *)

Word == [is : {"size", "num_messages", "zero"}, value : Nat]
          \cup [is : {"message"}, value : Sent]
Read == [op : {"size", "body"}, words : Nat]
Completion == [op : {"size", "body", "write"}, peer : Node, error : BOOLEAN]

\* Types of the variables; an entry of sockets_by_id is a socket that is open
\* here, of a connection with that peer.
TypeOK ==
  /\ stopped \subseteq Node /\ broken \subseteq Connection /\ unsent \subseteq Traffic
  /\ connections \in Seq([from : Node, to : Node])
  /\ ends \in [Connection -> SUBSET Node]
  /\ \A n \in Node :
       /\ handlers[n] \in Seq(Completion)
       /\ backlog[n] \in Seq(1 .. Len(connections))
       /\ \A c \in Connection : /\ arriving[c][n] \in Seq(Word)
                               /\ pending[c][n] \in Seq(Read)
                               /\ pending[c][n] # <<>> => n \in ends[c]
       /\ \A p \in Node :
            /\ length_buffers[n][p] \in Word
            /\ incoming_message_buffers[n][p] \in Seq(Word)
            /\ sent[n][p] \in Seq(Sent) /\ handled[n][p] \in Seq(Sent \cup {Misread})
            /\ sockets_by_id[n][p] # NoSocket =>
                 /\ sockets_by_id[n][p] \in 1 .. Len(connections)
                 /\ n \in ends[sockets_by_id[n][p]]
                 /\ peer_of(sockets_by_id[n][p], n) = p

\* What a node handles from a peer are messages the peer has sent to it, and to
\* nobody else, whichever connections the bytes in its buffers came by.
OnlyHandlesWhatWasSent ==
  \A n, p \in Node : Range(handled[n][p]) \subseteq Range(sent[p][n]) \cup {Misread}

connections_of(n, p) ==
  {c \in DOMAIN connections : {connections[c].from, connections[c].to} = {n, p}}
one_connection(n, p) == \A b, c \in connections_of(n, p) : b = c
pinged(n, p) ==
  \E s \in Traffic \ unsent : s.overload = "PingMessage" /\ s.from = p /\ s.to = n

\* Two nodes understand each other as long as they have made one connection and
\* no ping, whose frame is one word, has been sent by it: what a meter handles,
\* if anything, is what its peer sent it first, whole, in order and once, and it
\* misreads nothing.  A second connection, which crosses the first or replaces
\* it, starts a second read of a size; the two may be waiting on one socket.
FirstSendOrNothing ==
  \A n \in Node \ {UTILITY_NODE_ID}, p \in Node :
    one_connection(n, p) /\ ~pinged(n, p) =>
      \/ handled[n][p] = <<>>
      \/ \E s \in Traffic \ unsent : /\ s.from = p /\ s.to = n
                                     /\ handled[n][p] = s.messages
                                     /\ IsPrefix(s.messages, sent[p][n])

\* The first frame on a connection that has been accepted is handled, unless
\* one of the two ends is given up or stopped first, or there has been another
\* connection between the two: the body of the frame may then be looked for on
\* that one, or its first word be taken for a size.
FirstFrameIsHandled ==
  \A s \in Traffic, c \in Connection :
    s.overload # "PingMessage" /\ has_header(s) =>
      (/\ sockets_by_id[s.to][s.from] = c
       /\ arriving[c][s.to] # <<>>
       /\ pending[c][s.to] = <<[op |-> "size", words |-> 1]>>
       /\ IsPrefix(send_buffer(s), arriving[c][s.to]))
        ~> \/ Range(s.messages) \subseteq Range(handled[s.to][s.from])
           \/ s.to \in stopped
           \/ {s.from, s.to} # ends[c]
           \/ ~one_connection(s.from, s.to)

\* The order of the messages of a peer is that in which it sent them, and each
\* comes once.  This is what the handlers of the protocol are written for, but
\* see FirstSendOrNothing.
HandledInOrder ==
  \A n, p \in Node :
    LET got == SelectSeq(handled[n][p], LAMBDA m : m # Misread)
    IN  \E at \in [DOMAIN got -> DOMAIN sent[p][n]] :
          /\ \A i \in DOMAIN got : got[i] = sent[p][n][at[i]]
          /\ \A i, j \in DOMAIN got : i < j => at[i] < at[j]

\* What send says of the messages it returns true for: they have been sent, so
\* that the recipient gets them while nobody stops and no connection is broken.
EverySendIsHandled ==
  \A s \in Traffic :
    s \notin unsent ~> Range(s.messages) \subseteq Range(handled[s.to][s.from])
=============================================================================
