-------------------------- MODULE Connections_proofs --------------------------
(***************************************************************************)
(* What is proved of Connections for any clients, descriptors and threads, *)
(* any limits and any requests.                                            *)
(***************************************************************************)
EXTENDS Connections, FiniteSetTheorems, SequenceTheorems, TLAPS

-----------------------------------------------------------------------------
(***************************************************************************)
(* The inductive invariant, part by part.                                  *)
(***************************************************************************)
\* The types of what the proofs look at.
Typed ==
  /\ last_thread \in Threads
  /\ new_conn_queue \in [Threads -> Seq(Fds)]
  /\ conns \in [Fds -> Connection]
  /\ active \in [Threads -> SUBSET (Fds \cup {Pipe})]
  /\ loop \in [Threads -> Call \cup {None}]
  /\ refs \in [Fds -> Int]
  /\ owner \in [Fds -> Clients \cup {None}]
  /\ client \in [Clients -> ClientRecord]

\* What waits in a queue is an open socket without a connection, once.
Queues ==
  /\ \A t \in Threads : \A n \in DOMAIN new_conn_queue[t] :
       owner[new_conn_queue[t][n]] # None /\ ~Live(new_conn_queue[t][n])
  /\ \A t, u \in Threads : \A n \in DOMAIN new_conn_queue[t], m \in DOMAIN new_conn_queue[u] :
       new_conn_queue[t][n] = new_conn_queue[u][m] => t = u /\ n = m

Queued(f) == \E t \in Threads : \E n \in DOMAIN new_conn_queue[t] : new_conn_queue[t][n] = f
Closes(t, f) == loop[t] # None /\ loop[t].at = "cleaned" /\ loop[t].fd = f
BeingClosed(f) == \E t \in Threads : Closes(t, f)

\* A call of drive_machine is on a live connection of the thread, not to be called for again.
DriveCalls ==
  \A t \in Threads : loop[t] # None /\ loop[t].at = "drive" =>
    Live(loop[t].fd) /\ conns[loop[t].fd].thread = t /\ loop[t].fd \notin active[t]

\* One thread closes what has no connection any longer.
CloseCalls ==
  \A t \in Threads, f \in Fds : Closes(t, f) =>
    /\ owner[f] # None /\ ~Live(f) /\ ~Queued(f)
    /\ \A u \in Threads : Closes(u, f) => u = t

\* Live connections have a socket, and a socket is somewhere.
Sockets ==
  \A f \in Fds :
    /\ Live(f) => owner[f] # None
    /\ owner[f] # None => Live(f) \/ Queued(f) \/ BeingClosed(f)

\* A thread is to be called for its own connections, and for its pipe when there is a socket.
Events ==
  \A t \in Threads :
    /\ Pipe \in active[t] => new_conn_queue[t] # <<>>
    /\ \A f \in active[t] \ {Pipe} : Live(f) /\ conns[f].thread = t

Accounting == Queues /\ DriveCalls /\ CloseCalls /\ Sockets /\ Events

\* Where a connection may hold items.
Consistent(c) ==
  /\ c.item # None => c.state \in {"nread", "closing"}
  /\ c.ileft # 0 => c.state \in {"mwrite", "closing"}
  /\ c.state = "nread" => c.item # None
  /\ c.state \in {"write", "mwrite"} => c.out \in Nat

\* refs says what a connection holds; a closed one asks for no events.
Holding ==
  \A f \in Fds :
    /\ refs[f] = Held(conns[f]) /\ Consistent(conns[f])
    /\ conns[f].state = "closed" => conns[f].ev_flags = "none"

IInv == Typed /\ Accounting /\ Holding

-----------------------------------------------------------------------------
(***************************************************************************)
(* Types.  What an action makes of a connection is a connection.           *)
(***************************************************************************)
LEMMA ClosedIsConnection == Closed \in Connection
BY DEF Closed, Connection, States

LEMMA OutString ==
  ASSUME NEW c \in Connection, NEW reply \in Nat
  PROVE  /\ out_string(c, reply) \in Connection
         /\ out_string(c, reply).state \in {"new_cmd", "write"}
         /\ out_string(c, reply).thread = c.thread
         /\ out_string(c, reply).item = c.item
         /\ out_string(c, reply).ileft = c.ileft
         /\ out_string(c, reply).state = "write" => out_string(c, reply).out = reply
<1>1. CASE c.noreply
  BY <1>1 DEF out_string, Connection, States
<1>2. CASE ~c.noreply
  BY <1>2 DEF out_string, Connection, States
<1>. QED
  BY <1>1, <1>2

\* A command starts from a connection that holds nothing, leaves its thread, and holds
\* what it has taken where it is to be given back.
LEMMA ProcessCommand ==
  ASSUME NEW c \in Connection, c.item = None, c.ileft = 0, NEW line \in Piece, NEW kind,
         NEW r \in process_command(c, line, kind)
  PROVE  /\ r.conn \in Connection
         /\ r.conn.state \in {"write", "new_cmd", "mwrite", "nread", "closing"}
         /\ r.conn.thread = c.thread
         /\ r.taken \in {0, 1} /\ r.taken = Held(r.conn)
         /\ Consistent(r.conn)
<1>. DEFINE upload == [c EXCEPT !.noreply = kind = "set noreply"]
            refused == out_string(upload, line.of)
            failed == out_string(c, Error)
<1>1. line.of \in Nat /\ Error \in Nat /\ line.of # None
  BY ConnectionsAssumption DEF Piece, Error
<1>2. /\ upload \in Connection /\ upload.thread = c.thread /\ upload.item = None /\ upload.ileft = 0
  BY DEF Connection
<1>3. CASE r = [conn |-> failed, taken |-> 0]
  <2>1. /\ failed \in Connection /\ failed.state \in {"new_cmd", "write"}
        /\ failed.thread = c.thread /\ failed.item = None /\ failed.ileft = 0
        /\ failed.state = "write" => failed.out \in Nat
    BY <1>1, OutString
  <2>. HIDE DEF failed
  <2>. QED
    BY <1>3, <2>1 DEF Held, Consistent
<1>4. CASE \E hits \in {0, 1} :
             r = [conn |-> [c EXCEPT !.ileft = hits, !.out = line.of, !.state = "mwrite"], taken |-> hits]
  <2>1. PICK hits \in {0, 1} :
          r = [conn |-> [c EXCEPT !.ileft = hits, !.out = line.of, !.state = "mwrite"], taken |-> hits]
    BY <1>4
  <2>. DEFINE d == [c EXCEPT !.ileft = hits, !.out = line.of, !.state = "mwrite"]
  <2>2. d \in Connection /\ d.thread = c.thread /\ d.item = None /\ d.ileft = hits /\ d.state = "mwrite"
        /\ d.out \in Nat
    BY <1>1 DEF Connection, States
  <2>3. r.conn = d /\ r.taken = hits
    BY <2>1
  <2>. HIDE DEF d
  <2>. QED
    BY <2>2, <2>3 DEF Held, Consistent
<1>5. CASE r = [conn |-> [c EXCEPT !.state = "closing"], taken |-> 0]
  BY <1>5 DEF Held, Consistent, Connection, States
<1>6. CASE r = [conn |-> [upload EXCEPT !.item = line.of, !.rlbytes = 1, !.state = "nread"], taken |-> 1]
  <2>. DEFINE d == [upload EXCEPT !.item = line.of, !.rlbytes = 1, !.state = "nread"]
  <2>. HIDE DEF upload
  <2>1. d \in Connection /\ d.thread = c.thread /\ d.item = line.of /\ d.ileft = 0 /\ d.state = "nread"
    BY <1>1, <1>2 DEF Connection, States
  <2>2. r.conn = d /\ r.taken = 1
    BY <1>6
  <2>. HIDE DEF d
  <2>. QED
    BY <1>1, <2>1, <2>2 DEF Held, Consistent
<1>7. CASE r = [conn |-> [refused EXCEPT !.write_and_go = "swallow", !.sbytes = 1], taken |-> 0]
  <2>. DEFINE d == [refused EXCEPT !.write_and_go = "swallow", !.sbytes = 1]
  <2>1. /\ refused \in Connection /\ refused.state \in {"new_cmd", "write"}
        /\ refused.thread = c.thread /\ refused.item = None /\ refused.ileft = 0
        /\ refused.state = "write" => refused.out \in Nat
    BY <1>1, <1>2, OutString
  <2>. HIDE DEF refused
  <2>2. d \in Connection /\ d.thread = refused.thread /\ d.item = None /\ d.ileft = 0 /\ d.state = refused.state
        /\ d.out = refused.out
    BY <2>1 DEF Connection
  <2>3. r.conn = d /\ r.taken = 0
    BY <1>7
  <2>. HIDE DEF d
  <2>. QED
    BY <2>1, <2>2, <2>3 DEF Held, Consistent
<1>. QED
  BY <1>3, <1>4, <1>5, <1>6, <1>7 DEF process_command

LEMMA AtIsClient ==
  ASSUME NEW where \in {"new", "backlog", "open", "left", "over"}
  PROVE  At(where) \in ClientRecord
BY DEF At, ClientRecord

LEMMA PiecesTyped ==
  ASSUME NEW kind, NEW n \in Nat
  PROVE  Pieces(kind, n) \in Seq(Piece) /\ Pieces(kind, n) # <<>>
<1>. DEFINE half == [of |-> n, part |-> "half"]
            end == [of |-> n, part |-> "end"]
            data == [of |-> n, part |-> "data"]
<1>1. half \in Piece /\ end \in Piece /\ data \in Piece
  BY DEF Piece
<1>2. Pieces(kind, n) = <<half, end>> \o (IF kind \in {"set", "set noreply"} THEN <<data>> ELSE <<>>)
  BY DEF Pieces
<1>. HIDE DEF half, end, data
<1>3. <<half, end>> \in Seq(Piece) /\ Len(<<half, end>>) = 2 /\ <<data>> \in Seq(Piece) /\ <<>> \in Seq(Piece)
  BY <1>1
<1>4. \A s \in Seq(Piece) : <<half, end>> \o s \in Seq(Piece) /\ <<half, end>> \o s # <<>>
  BY <1>3
<1>. QED
  BY <1>2, <1>3, <1>4

-----------------------------------------------------------------------------
(***************************************************************************)
(* Clients change nothing of the server.                                   *)
(***************************************************************************)
LEMMA ClientStep ==
  ASSUME IInv, NEW i \in Clients, Client(i)
  PROVE  IInv'
<1>. DEFINE c == client[i]
<1>1. c \in ClientRecord
  BY DEF IInv, Typed
<1>2. UNCHANGED server
  BY DEF Client
<1>3. client' \in [Clients -> ClientRecord]
  <2>1. CASE Connect(i)
    BY <2>1, <1>1 DEF Connect, ClientRecord, IInv, Typed
  <2>2. CASE Send(i)
    <3>. DEFINE sending(pieces) == [c EXCEPT !.net = Append(@, Head(pieces)), !.rest = Tail(pieces)]
    <3>1. ASSUME NEW pieces \in Seq(Piece), pieces # <<>>
          PROVE  sending(pieces) \in ClientRecord
      <4>1. Head(pieces) \in Piece /\ Tail(pieces) \in Seq(Piece)
        BY <3>1
      <4>2. Append(c.net, Head(pieces)) \in Seq(Piece)
        BY <1>1, <4>1 DEF ClientRecord
      <4>. QED
        BY <1>1, <4>1, <4>2 DEF ClientRecord
    <3>2. CASE c.rest # <<>> /\ client' = [client EXCEPT ![i] = sending(c.rest)]
      <4>1. sending(c.rest) \in ClientRecord
        BY <1>1, <3>1, <3>2 DEF ClientRecord
      <4>. QED
        BY <3>2, <4>1 DEF IInv, Typed
    <3>3. ASSUME NEW kind \in Kinds,
                 client' = [client EXCEPT ![i] = [sending(Pieces(kind, Len(c.sent) + 1)) EXCEPT !.sent = Append(@, kind)]]
          PROVE  client' \in [Clients -> ClientRecord]
      <4>. DEFINE d == sending(Pieces(kind, Len(c.sent) + 1))
      <4>1. Len(c.sent) + 1 \in Nat /\ kind \in AllKinds
        BY <1>1, ConnectionsAssumption DEF ClientRecord
      <4>2. d \in ClientRecord
        BY <3>1, <4>1, PiecesTyped
      <4>. HIDE DEF d
      <4>3. [d EXCEPT !.sent = Append(@, kind)] \in ClientRecord
        <5>1. d.sent \in Seq(AllKinds)
          BY <4>2 DEF ClientRecord
        <5>2. Append(d.sent, kind) \in Seq(AllKinds)
          BY <4>1, <5>1
        <5>. QED
          BY <4>2, <5>2 DEF ClientRecord
      <4>4. client' = [client EXCEPT ![i] = [d EXCEPT !.sent = Append(@, kind)]]
        BY <3>3 DEF d
      <4>. QED
        BY <4>3, <4>4 DEF IInv, Typed
    <3>. QED
      BY <2>2, <3>2, <3>3 DEF Send
  <2>3. CASE Receive(i)
    <3>1. c.sock # <<>> /\ client' = [client EXCEPT ![i].got = Append(@, Head(client[i].sock)), ![i].sock = Tail(@)]
      BY <2>3 DEF Receive
    <3>2. Head(c.sock) \in Nat /\ Tail(c.sock) \in Seq(Nat)
      BY <1>1, <3>1 DEF ClientRecord
    <3>3. Append(c.got, Head(c.sock)) \in Seq(Nat)
      BY <1>1, <3>2 DEF ClientRecord
    <3>. QED
      BY <1>1, <3>1, <3>2, <3>3 DEF ClientRecord, IInv, Typed
  <2>4. CASE Leave(i)
    <3>1. \/ client' = [client EXCEPT ![i] = [c EXCEPT !.at = "left", !.rest = <<>>]]
          \/ client' = [client EXCEPT ![i] = At("over")]
      BY <2>4 DEF Leave, IInv, Typed
    <3>2. At("over") \in ClientRecord
      BY AtIsClient
    <3>3. [c EXCEPT !.at = "left", !.rest = <<>>] \in ClientRecord
      <4>1. <<>> \in Seq(Piece)
        OBVIOUS
      <4>. QED
        BY <1>1, <4>1 DEF ClientRecord
    <3>. QED
      BY <3>1, <3>2, <3>3 DEF IInv, Typed
  <2>. QED
    BY <2>1, <2>2, <2>3, <2>4 DEF Client
<1>4. Typed'
  BY <1>2, <1>3 DEF IInv, Typed, server
<1>5. Accounting' /\ Holding'
  BY <1>2 DEF IInv, server, Accounting, Queues, DriveCalls, CloseCalls, Closes, Sockets, Queued, BeingClosed, Events, Live, Holding
<1>. QED
  BY <1>4, <1>5 DEF IInv

-----------------------------------------------------------------------------
(***************************************************************************)
(* A turn of drive_machine: it makes another connection of the one at      *)
(* hand, which stays open and with its thread and holds what refs says.    *)
(***************************************************************************)
Turn(t) ==
  LET f == loop[t].fd IN
  /\ loop[t] # None /\ loop[t].at = "drive"
  /\ \E d \in Connection :
       /\ d.state # "closed" /\ d.thread = conns[f].thread /\ Consistent(d)
       /\ conns' = [conns EXCEPT ![f] = d]
       /\ refs' = [refs EXCEPT ![f] = Held(d)]
  /\ \E call \in Call \cup {None} :
       /\ loop' = [loop EXCEPT ![t] = call]
       /\ call # None => call.fd = f /\ call.at = "drive"
  /\ client' \in [Clients -> ClientRecord]
  /\ UNCHANGED <<last_thread, new_conn_queue, active, owner>>

\* What is known of the connection at hand.
LEMMA AtHand ==
  ASSUME IInv, NEW t \in Threads, NEW state, Driving(t, state)
  PROVE  LET f == loop[t].fd
             c == conns[f]
         IN
         /\ loop[t] # None /\ loop[t] \in Call /\ loop[t].at = "drive"
         /\ f \in Fds /\ c \in Connection /\ c.state = state /\ Consistent(c)
         /\ refs[f] = Held(c) /\ Held(c) \in Int /\ refs \in [Fds -> Int]
         /\ owner[f] \in Clients /\ Peer(f) \in ClientRecord
<1>1. loop[t] # None /\ loop[t] \in Call /\ loop[t].at = "drive" /\ conns[loop[t].fd].state = state
  BY DEF Driving, IInv, Typed
<1>2. loop[t].fd \in Fds
  BY <1>1 DEF Call
<1>3. conns[loop[t].fd] \in Connection /\ refs \in [Fds -> Int]
  BY <1>2 DEF IInv, Typed
<1>4. Live(loop[t].fd)
  BY <1>1 DEF IInv, Accounting, DriveCalls
<1>5. owner[loop[t].fd] \in Clients
  BY <1>2, <1>4 DEF IInv, Typed, Accounting, Sockets
<1>6. Peer(loop[t].fd) \in ClientRecord
  BY <1>5 DEF Peer, IInv, Typed
<1>7. refs[loop[t].fd] = Held(conns[loop[t].fd]) /\ Consistent(conns[loop[t].fd])
  BY <1>2 DEF IInv, Holding
<1>8. Held(conns[loop[t].fd]) \in Int
  BY <1>3 DEF Held, Connection
<1>. QED
  BY <1>1, <1>2, <1>3, <1>5, <1>6, <1>7, <1>8

\* A turn that goes on with the connection d, or stops.
LEMMA TurnTo ==
  ASSUME IInv, NEW t \in Threads, NEW state, Driving(t, state),
         NEW d \in Connection, d.state # "closed", d.thread = conns[loop[t].fd].thread, Consistent(d),
         Becomes(t, d),
         refs' = [refs EXCEPT ![loop[t].fd] = Held(d)],
         Continue \/ Stop(t) \/ (loop[t].nreqs # 0 /\ loop' = [loop EXCEPT ![t].nreqs = @ - 1]),
         client' \in [Clients -> ClientRecord],
         Elsewhere, UNCHANGED owner
  PROVE  Turn(t)
<1>. DEFINE f == loop[t].fd
            fewer == [loop[t] EXCEPT !.nreqs = @ - 1]
            Goes(call) == /\ loop' = [loop EXCEPT ![t] = call]
                          /\ call # None => call.fd = f /\ call.at = "drive"
<1>1. loop[t] # None /\ loop[t] \in Call /\ loop[t].at = "drive" /\ f \in Fds
  BY AtHand
<1>2. loop \in [Threads -> Call \cup {None}]
  BY DEF IInv, Typed
<1>3. \E call \in Call \cup {None} : Goes(call)
  <2>1. CASE Continue
    <3>1. Goes(loop[t])
      BY <1>1, <1>2, <2>1 DEF Continue
    <3>. QED
      BY <1>1, <3>1
  <2>2. CASE Stop(t)
    BY <2>2 DEF Stop
  <2>3. CASE loop[t].nreqs # 0 /\ loop' = [loop EXCEPT ![t].nreqs = @ - 1]
    <3>1. fewer \in Call /\ fewer.fd = f /\ fewer.at = "drive"
      BY <1>1, <2>3, ConnectionsAssumption DEF Call
    <3>2. loop' = [loop EXCEPT ![t] = fewer]
      BY <1>2, <2>3
    <3>3. Goes(fewer)
      BY <3>1, <3>2
    <3>. QED
      BY <3>1, <3>3
  <2>. QED
    BY <2>1, <2>2, <2>3
<1>4. conns' = [conns EXCEPT ![f] = d]
  BY DEF Becomes
<1>. QED
  BY <1>1, <1>3, <1>4 DEF Turn, Elsewhere, accepting

\* When nothing is taken or given back refs is what it was.
LEMMA SameRefs ==
  ASSUME IInv, NEW t \in Threads, NEW state, Driving(t, state), NEW d, Held(d) = Held(conns[loop[t].fd]),
         UNCHANGED refs
  PROVE  refs' = [refs EXCEPT ![loop[t].fd] = Held(d)]
BY AtHand

\* Between commands a connection holds nothing.
LEMMA HoldsNothing ==
  ASSUME NEW c \in Connection, Consistent(c), c.state \notin {"nread", "mwrite", "closing"}
  PROVE  c.item = None /\ c.ileft = 0 /\ Held(c) = 0
BY DEF Consistent, Held

\* ... and may be in any state that needs nothing.
LEMMA NeedsNothing ==
  ASSUME NEW d, d.item = None, d.ileft = 0, d.state \notin {"nread", "write", "mwrite"}
  PROVE  Held(d) = 0 /\ Consistent(d)
BY DEF Held, Consistent

LEMMA WaitTurn ==
  ASSUME IInv, NEW t \in Threads, NEW state \in {"read", "parse_cmd", "new_cmd"}, Driving(t, state),
         Wait(t, conns[loop[t].fd]), Elsewhere, UNCHANGED refs, UNCHANGED kernel
  PROVE  Turn(t)
<1>. DEFINE c == conns[loop[t].fd]
            d == [c EXCEPT !.ev_flags = "read", !.state = "read"]
<1>1. c \in Connection /\ c.state = state /\ Consistent(c)
  BY AtHand
<1>2. c.item = None /\ c.ileft = 0 /\ Held(c) = 0
  BY <1>1, HoldsNothing
<1>3. d \in Connection /\ d.state = "read" /\ d.thread = c.thread /\ d.item = None /\ d.ileft = 0
  BY <1>1, <1>2 DEF Connection, States
<1>6. Becomes(t, d) /\ Stop(t)
  BY DEF Wait
<1>. HIDE DEF d
<1>4. Held(d) = 0 /\ Consistent(d)
  BY <1>3, NeedsNothing
<1>7. refs' = [refs EXCEPT ![loop[t].fd] = Held(d)]
  BY <1>2, <1>4, SameRefs
<1>8. client' \in [Clients -> ClientRecord] /\ UNCHANGED owner
  BY DEF IInv, Typed, kernel
<1>. QED
  BY <1>3, <1>4, <1>6, <1>7, <1>8, TurnTo

LEMMA ReadTurn ==
  ASSUME IInv, NEW t \in Threads, conn_read(t)
  PROVE  Turn(t)
<1>. DEFINE f == loop[t].fd
            c == conns[f]
            peer == Peer(f)
<1>1. Driving(t, "read") /\ Elsewhere /\ UNCHANGED <<refs, owner>>
  BY DEF conn_read
<1>2. /\ f \in Fds /\ c \in Connection /\ c.state = "read" /\ Consistent(c)
      /\ owner[f] \in Clients /\ peer \in ClientRecord
  BY <1>1, AtHand
<1>3. c.item = None /\ c.ileft = 0 /\ Held(c) = 0
  BY <1>2, HoldsNothing
<1>4. client \in [Clients -> ClientRecord]
  BY DEF IInv, Typed
<1>5. CASE peer.net # <<>>
  <2>. DEFINE d == [c EXCEPT !.rbuf = @ \o peer.net, !.state = "parse_cmd"]
  <2>1. c.rbuf \o peer.net \in Seq(Piece)
    BY <1>2 DEF Connection, ClientRecord
  <2>2. d \in Connection /\ d.state = "parse_cmd" /\ d.thread = c.thread /\ d.item = None /\ d.ileft = 0
    BY <1>2, <1>3, <2>1 DEF Connection, States
  <2>4. Becomes(t, d) /\ Continue /\ client' = [client EXCEPT ![owner[f]].net = <<>>]
    BY <1>5 DEF conn_read
  <2>5. [peer EXCEPT !.net = <<>>] \in ClientRecord
    <3>1. <<>> \in Seq(Piece)
      OBVIOUS
    <3>. QED
      BY <1>2, <3>1 DEF ClientRecord
  <2>6. client' \in [Clients -> ClientRecord]
    BY <1>2, <1>4, <2>4, <2>5 DEF Peer
  <2>. HIDE DEF d
  <2>3. Held(d) = 0 /\ Consistent(d)
    BY <2>2, NeedsNothing
  <2>7. refs' = [refs EXCEPT ![f] = Held(d)]
    BY <1>1, <1>3, <2>3, SameRefs
  <2>. QED
    BY <1>1, <2>2, <2>3, <2>4, <2>6, <2>7, TurnTo
<1>6. CASE peer.net = <<>> /\ peer.at = "left"
  <2>. DEFINE d == [c EXCEPT !.state = "closing"]
  <2>2. d \in Connection /\ d.state = "closing" /\ d.thread = c.thread /\ d.item = None /\ d.ileft = 0
    BY <1>2, <1>3 DEF Connection, States
  <2>4. Becomes(t, d) /\ Continue /\ UNCHANGED client
    BY <1>6 DEF conn_read
  <2>. HIDE DEF d
  <2>3. Held(d) = 0 /\ Consistent(d)
    BY <2>2, NeedsNothing
  <2>5. refs' = [refs EXCEPT ![f] = Held(d)]
    BY <1>1, <1>3, <2>3, SameRefs
  <2>. QED
    BY <1>1, <1>4, <2>2, <2>3, <2>4, <2>5, TurnTo
<1>7. CASE peer.net = <<>> /\ peer.at # "left"
  <2>1. Wait(t, c) /\ UNCHANGED kernel
    BY <1>1, <1>7 DEF conn_read, kernel
  <2>. QED
    BY <1>1, <2>1, WaitTurn
<1>. QED
  BY <1>5, <1>6, <1>7

\* A turn between connections that hold nothing.
LEMMA FreeTurn ==
  ASSUME IInv, NEW t \in Threads, NEW state \in States \ {"nread", "mwrite", "closing"}, Driving(t, state),
         NEW d \in Connection, d.state \notin {"closed", "nread", "write", "mwrite"},
         d.thread = conns[loop[t].fd].thread, d.item = None, d.ileft = 0,
         Becomes(t, d), UNCHANGED refs,
         Continue \/ Stop(t) \/ (loop[t].nreqs # 0 /\ loop' = [loop EXCEPT ![t].nreqs = @ - 1]),
         client' \in [Clients -> ClientRecord],
         Elsewhere, UNCHANGED owner
  PROVE  Turn(t)
<1>1. Held(conns[loop[t].fd]) = 0
  BY AtHand, HoldsNothing
<1>2. Held(d) = 0 /\ Consistent(d)
  BY NeedsNothing
<1>3. refs' = [refs EXCEPT ![loop[t].fd] = Held(d)]
  BY <1>1, <1>2, SameRefs
<1>. QED
  BY <1>2, <1>3, TurnTo

\* A turn that leaves what the connection holds, and its state unless it closes.
LEMMA KeepTurn ==
  ASSUME IInv, NEW t \in Threads, NEW state \in States \ {"closed"}, Driving(t, state),
         NEW d \in Connection, d.state \in {state, "closing"},
         d.thread = conns[loop[t].fd].thread, d.item = conns[loop[t].fd].item,
         d.ileft = conns[loop[t].fd].ileft, d.out = conns[loop[t].fd].out,
         Becomes(t, d), UNCHANGED refs,
         Continue \/ Stop(t),
         client' \in [Clients -> ClientRecord],
         Elsewhere, UNCHANGED owner
  PROVE  Turn(t)
<1>1. Consistent(conns[loop[t].fd]) /\ conns[loop[t].fd].state = state
  BY AtHand
<1>2. Held(d) = Held(conns[loop[t].fd]) /\ Consistent(d)
  BY <1>1 DEF Held, Consistent
<1>3. refs' = [refs EXCEPT ![loop[t].fd] = Held(d)]
  BY <1>2, SameRefs
<1>. QED
  BY <1>2, <1>3, TurnTo, ZenonT(40)

LEMMA ParseTurn ==
  ASSUME IInv, NEW t \in Threads, conn_parse_cmd(t)
  PROVE  Turn(t)
<1>. DEFINE f == loop[t].fd
            c == conns[f]
<1>1. Driving(t, "parse_cmd") /\ Elsewhere /\ UNCHANGED kernel
  BY DEF conn_parse_cmd
<1>2. /\ f \in Fds /\ c \in Connection /\ c.state = "parse_cmd" /\ Consistent(c)
      /\ refs[f] = Held(c) /\ refs \in [Fds -> Int]
  BY <1>1, AtHand
<1>3. c.item = None /\ c.ileft = 0 /\ Held(c) = 0
  BY <1>2, HoldsNothing
<1>4. CASE Wait(t, c) /\ UNCHANGED refs
  BY <1>1, <1>4, WaitTurn
<1>5. ASSUME NEW n \in Ends(c.rbuf), NEW kind,
             NEW r \in process_command([c EXCEPT !.rbuf = SubSeq(@, n + 1, Len(@))], c.rbuf[n], kind),
             Becomes(t, r.conn), refs' = [refs EXCEPT ![f] = @ + r.taken], Continue
      PROVE  Turn(t)
  <2>. DEFINE b == [c EXCEPT !.rbuf = SubSeq(@, n + 1, Len(@))]
  <2>1. n \in 1..Len(c.rbuf) /\ c.rbuf \in Seq(Piece)
    BY <1>2 DEF Ends, Connection
  <2>2. c.rbuf[n] \in Piece /\ SubSeq(c.rbuf, n + 1, Len(c.rbuf)) \in Seq(Piece)
    BY <2>1, SubSeqProperties
  <2>3. b \in Connection /\ b.thread = c.thread /\ b.item = None /\ b.ileft = 0
    BY <1>2, <1>3, <2>2 DEF Connection
  <2>. HIDE DEF b
  <2>4. r \in process_command(b, c.rbuf[n], kind)
    BY DEF b
  <2>5. /\ r.conn \in Connection /\ r.conn.state # "closed"
        /\ r.conn.thread = c.thread /\ r.taken = Held(r.conn) /\ r.taken \in {0, 1} /\ Consistent(r.conn)
    BY <2>2, <2>3, <2>4, ProcessCommand, SMTT(30)
  <2>6. refs' = [refs EXCEPT ![f] = Held(r.conn)]
    <3>1. refs[f] + r.taken = r.taken
      BY <1>2, <1>3, <2>5
    <3>2. refs' = [refs EXCEPT ![f] = refs[f] + r.taken]
      BY <1>5
    <3>. QED
      BY <2>5, <3>1, <3>2
  <2>7. client' \in [Clients -> ClientRecord] /\ UNCHANGED owner
    BY <1>1 DEF kernel, IInv, Typed
  <2>. QED
    BY <1>1, <1>5, <2>5, <2>6, <2>7, TurnTo
<1>. QED
  BY <1>4, <1>5, ZenonT(40) DEF conn_parse_cmd

LEMMA NewCmdTurn ==
  ASSUME IInv, NEW t \in Threads, conn_new_cmd(t)
  PROVE  Turn(t)
<1>. DEFINE f == loop[t].fd
            c == conns[f]
            more == c.rbuf # <<>>
<1>1. Driving(t, "new_cmd") /\ Elsewhere /\ UNCHANGED refs /\ UNCHANGED kernel
  BY DEF conn_new_cmd
<1>2. f \in Fds /\ c \in Connection /\ c.state = "new_cmd" /\ Consistent(c)
  BY <1>1, AtHand
<1>3. c.item = None /\ c.ileft = 0
  BY <1>2, HoldsNothing
<1>4. client' \in [Clients -> ClientRecord] /\ UNCHANGED owner /\ "new_cmd" \in States
  BY <1>1 DEF kernel, IInv, Typed, States
<1>5. CASE loop[t].nreqs = 0
  <2>. DEFINE d == [c EXCEPT !.ev_flags = IF more THEN "write" ELSE @]
  <2>1. d \in Connection /\ d.state = "new_cmd" /\ d.thread = c.thread /\ d.item = None /\ d.ileft = 0
    BY <1>2, <1>3 DEF Connection
  <2>2. Becomes(t, d) /\ Stop(t)
    BY <1>5 DEF conn_new_cmd
  <2>. HIDE DEF d
  <2>. QED
    BY <1>1, <1>4, <2>1, <2>2, FreeTurn
<1>6. CASE loop[t].nreqs # 0 /\ more
  <2>. DEFINE d == [c EXCEPT !.state = "parse_cmd"]
  <2>1. d \in Connection /\ d.state = "parse_cmd" /\ d.thread = c.thread /\ d.item = None /\ d.ileft = 0
    BY <1>2, <1>3 DEF Connection, States
  <2>2. Becomes(t, d) /\ loop' = [loop EXCEPT ![t].nreqs = @ - 1]
    BY <1>6 DEF conn_new_cmd
  <2>. HIDE DEF d
  <2>. QED
    BY <1>1, <1>4, <1>6, <2>1, <2>2, FreeTurn
<1>7. CASE loop[t].nreqs # 0 /\ ~more
  <2>1. Wait(t, c)
    BY <1>7 DEF conn_new_cmd
  <2>. QED
    BY <1>1, <2>1, WaitTurn
<1>. QED
  BY <1>5, <1>6, <1>7

LEMMA FetchTurn ==
  ASSUME IInv, NEW t \in Threads, NEW state \in {"nread", "swallow"}, Driving(t, state),
         NEW taken \in Connection, taken.state = state,
         taken.thread = conns[loop[t].fd].thread, taken.item = conns[loop[t].fd].item,
         taken.ileft = conns[loop[t].fd].ileft, taken.out = conns[loop[t].fd].out,
         taken.rbuf = conns[loop[t].fd].rbuf,
         Fetch(t, taken), Elsewhere
  PROVE  Turn(t)
<1>. DEFINE f == loop[t].fd
            c == conns[f]
            peer == Peer(f)
<1>1. f \in Fds /\ c \in Connection /\ c.state = state /\ owner[f] \in Clients /\ peer \in ClientRecord
  BY AtHand
<1>2. UNCHANGED <<refs, owner>> /\ state \in States \ {"closed"}
  BY SMTT(30) DEF Fetch, States
<1>3. client' \in [Clients -> ClientRecord]
  <2>1. client \in [Clients -> ClientRecord]
    BY DEF IInv, Typed
  <2>2. CASE peer.net # <<>> /\ client' = [client EXCEPT ![owner[f]].net = Tail(@)]
    <3>1. Tail(peer.net) \in Seq(Piece)
      BY <1>1, <2>2 DEF ClientRecord
    <3>2. [peer EXCEPT !.net = Tail(@)] \in ClientRecord
      BY <1>1, <3>1 DEF ClientRecord
    <3>. QED
      BY <1>1, <2>1, <2>2, <3>2 DEF Peer
  <2>3. CASE UNCHANGED client
    BY <2>1, <2>3
  <2>. QED
    BY <2>2, <2>3 DEF Fetch
<1>4. CASE c.rbuf # <<>>
  <2>. DEFINE d == [taken EXCEPT !.rbuf = Tail(@)]
  <2>1. taken.rbuf \in Seq(Piece) /\ taken.rbuf # <<>>
    BY <1>4 DEF Connection
  <2>2. Tail(taken.rbuf) \in Seq(Piece)
    BY <2>1
  <2>3. /\ d \in Connection /\ d.state = state /\ d.thread = c.thread
        /\ d.item = c.item /\ d.ileft = c.ileft /\ d.out = c.out
    BY <2>2 DEF Connection
  <2>4. Becomes(t, d) /\ Continue
    BY <1>4 DEF Fetch
  <2>. HIDE DEF d
  <2>. QED
    BY <1>2, <1>3, <2>3, <2>4, KeepTurn
<1>5. CASE c.rbuf = <<>> /\ peer.net # <<>>
  <2>1. Becomes(t, taken) /\ Continue
    BY <1>5 DEF Fetch
  <2>. QED
    BY <1>2, <1>3, <2>1, KeepTurn
<1>6. CASE c.rbuf = <<>> /\ peer.net = <<>> /\ peer.at = "left"
  <2>. DEFINE d == [c EXCEPT !.state = "closing"]
  <2>1. /\ d \in Connection /\ d.state = "closing" /\ d.thread = c.thread
        /\ d.item = c.item /\ d.ileft = c.ileft /\ d.out = c.out
    BY <1>1 DEF Connection, States
  <2>2. Becomes(t, d) /\ Continue
    BY <1>6 DEF Fetch
  <2>. HIDE DEF d
  <2>. QED
    BY <1>2, <1>3, <2>1, <2>2, KeepTurn
<1>7. CASE c.rbuf = <<>> /\ peer.net = <<>> /\ peer.at # "left"
  <2>. DEFINE d == [c EXCEPT !.ev_flags = "read"]
  <2>1. /\ d \in Connection /\ d.state = state /\ d.thread = c.thread
        /\ d.item = c.item /\ d.ileft = c.ileft /\ d.out = c.out
    BY <1>1 DEF Connection
  <2>2. Becomes(t, d) /\ Stop(t)
    BY <1>7 DEF Fetch
  <2>. HIDE DEF d
  <2>. QED
    BY <1>2, <1>3, <2>1, <2>2, KeepTurn
<1>. QED
  BY <1>4, <1>5, <1>6, <1>7

\* The upload is answered and its reference given back.
LEMMA NreadTurn ==
  ASSUME IInv, NEW t \in Threads, conn_nread(t)
  PROVE  Turn(t)
<1>. DEFINE f == loop[t].fd
            c == conns[f]
<1>1. Driving(t, "nread") /\ Elsewhere
  BY DEF conn_nread
<1>2. /\ f \in Fds /\ c \in Connection /\ c.state = "nread" /\ Consistent(c)
      /\ refs[f] = Held(c) /\ refs \in [Fds -> Int]
  BY <1>1, AtHand
<1>3. c.item \in Nat /\ c.ileft = 0 /\ Held(c) = 1
  BY <1>2 DEF Consistent, Connection, Held
<1>4. CASE c.rlbytes = 0
  <2>. DEFINE answered == out_string(c, c.item)
              d == [answered EXCEPT !.item = None]
  <2>1. /\ answered \in Connection /\ answered.state \in {"new_cmd", "write"} /\ answered.thread = c.thread
        /\ answered.ileft = 0
        /\ answered.state = "write" => answered.out \in Nat
    BY <1>2, <1>3, OutString
  <2>2. Becomes(t, d) /\ refs' = [refs EXCEPT ![f] = @ - 1] /\ Continue /\ UNCHANGED kernel
    BY <1>4 DEF conn_nread
  <2>. HIDE DEF answered
  <2>3. /\ d \in Connection /\ d.state \in {"new_cmd", "write"} /\ d.thread = c.thread /\ d.item = None
        /\ d.ileft = 0
        /\ d.state = "write" => d.out \in Nat
    BY <2>1 DEF Connection
  <2>. HIDE DEF d
  <2>4. Held(d) = 0 /\ Consistent(d)
    BY <2>3 DEF Held, Consistent
  <2>5. refs[f] - 1 = Held(d)
    BY <1>2, <1>3, <2>4
  <2>6. client' \in [Clients -> ClientRecord] /\ UNCHANGED owner
    BY <2>2 DEF kernel, IInv, Typed
  <2>7. refs' = [refs EXCEPT ![f] = refs[f] - 1] /\ d.state # "closed"
    BY <2>2, <2>3
  <2>8. refs' = [refs EXCEPT ![f] = Held(d)]
    BY <2>5, <2>7
  <2>. QED
    BY <1>1, <2>2, <2>3, <2>4, <2>6, <2>7, <2>8, TurnTo
<1>5. CASE c.rlbytes # 0
  <2>. DEFINE taken == [c EXCEPT !.rlbytes = 0]
  <2>1. /\ taken \in Connection /\ taken.state = "nread" /\ taken.thread = c.thread
        /\ taken.item = c.item /\ taken.ileft = c.ileft /\ taken.out = c.out /\ taken.rbuf = c.rbuf
    BY <1>2 DEF Connection
  <2>2. Fetch(t, taken)
    BY <1>5 DEF conn_nread
  <2>. HIDE DEF taken
  <2>. QED
    BY <1>1, <2>1, <2>2, FetchTurn
<1>. QED
  BY <1>4, <1>5

LEMMA SwallowTurn ==
  ASSUME IInv, NEW t \in Threads, conn_swallow(t)
  PROVE  Turn(t)
<1>. DEFINE c == conns[loop[t].fd]
<1>1. Driving(t, "swallow") /\ Elsewhere /\ "swallow" \in States
  BY DEF conn_swallow, States
<1>2. c \in Connection /\ c.state = "swallow" /\ Consistent(c)
  BY <1>1, AtHand
<1>3. c.item = None /\ c.ileft = 0
  BY <1>2, HoldsNothing
<1>4. CASE c.sbytes = 0
  <2>. DEFINE d == [c EXCEPT !.state = "new_cmd"]
  <2>1. d \in Connection /\ d.state = "new_cmd" /\ d.thread = c.thread /\ d.item = None /\ d.ileft = 0
    BY <1>2, <1>3 DEF Connection, States
  <2>2. Becomes(t, d) /\ Continue /\ UNCHANGED refs /\ UNCHANGED kernel
    BY <1>4 DEF conn_swallow
  <2>3. client' \in [Clients -> ClientRecord] /\ UNCHANGED owner
    BY <2>2 DEF kernel, IInv, Typed
  <2>. HIDE DEF d
  <2>. QED
    BY <1>1, <2>1, <2>2, <2>3, FreeTurn
<1>5. CASE c.sbytes # 0
  <2>. DEFINE taken == [c EXCEPT !.sbytes = 0]
  <2>1. /\ taken \in Connection /\ taken.state = "swallow" /\ taken.thread = c.thread
        /\ taken.item = c.item /\ taken.ileft = c.ileft /\ taken.out = c.out /\ taken.rbuf = c.rbuf
    BY <1>2 DEF Connection
  <2>2. Fetch(t, taken)
    BY <1>5 DEF conn_swallow
  <2>. HIDE DEF taken
  <2>. QED
    BY <1>1, <2>1, <2>2, FetchTurn
<1>. QED
  BY <1>4, <1>5

\* Sending: "sent" is what becomes of the connection once the reply is gone.
LEMMA TransmitTurn ==
  ASSUME IInv, NEW t \in Threads, NEW state \in {"write", "mwrite"}, Driving(t, state),
         NEW sent \in Connection, sent.state \in {"new_cmd", "swallow"},
         sent.thread = conns[loop[t].fd].thread, sent.item = None, sent.ileft = 0,
         transmit(t, sent, Held(conns[loop[t].fd])), Elsewhere
  PROVE  Turn(t)
<1>. DEFINE f == loop[t].fd
            c == conns[f]
            peer == Peer(f)
            room == Len(peer.sock) < SocketRoom
<1>1. /\ f \in Fds /\ c \in Connection /\ c.state = state /\ Consistent(c)
      /\ owner[f] \in Clients /\ peer \in ClientRecord
      /\ refs[f] = Held(c) /\ Held(c) \in Int /\ refs \in [Fds -> Int]
  BY AtHand
<1>2. UNCHANGED owner /\ state \in States \ {"closed"}
  BY SMTT(30) DEF transmit, States
<1>3. client' \in [Clients -> ClientRecord]
  <2>1. client \in [Clients -> ClientRecord]
    BY DEF IInv, Typed
  <2>2. CASE client' = [client EXCEPT ![owner[f]].sock = Append(@, c.out)]
    <3>1. Append(peer.sock, c.out) \in Seq(Nat)
      <4>1. c.out \in Nat /\ peer.sock \in Seq(Nat)
        BY <1>1 DEF Consistent, ClientRecord
      <4>. QED
        BY <4>1
    <3>2. [peer EXCEPT !.sock = Append(@, c.out)] \in ClientRecord
      BY <1>1, <3>1 DEF ClientRecord
    <3>. QED
      BY <1>1, <2>1, <2>2, <3>2 DEF Peer
  <2>3. CASE UNCHANGED client
    BY <2>1, <2>3
  <2>. QED
    BY <2>2, <2>3 DEF transmit
<1>4. CASE /\ Becomes(t, [sent EXCEPT !.out = None])
           /\ refs' = [refs EXCEPT ![f] = @ - Held(c)]
           /\ Continue
  <2>. DEFINE d == [sent EXCEPT !.out = None]
  <2>1. /\ d \in Connection /\ d.state \in {"new_cmd", "swallow"} /\ d.thread = c.thread
        /\ d.item = None /\ d.ileft = 0
    BY DEF Connection
  <2>2. Becomes(t, d) /\ Continue
    BY <1>4
  <2>. HIDE DEF d
  <2>3. Held(d) = 0 /\ Consistent(d) /\ d.state # "closed"
    BY <2>1, NeedsNothing
  <2>4. refs[f] - Held(c) = Held(d)
    BY <1>1, <2>3
  <2>5. refs' = [refs EXCEPT ![f] = refs[f] - Held(c)]
    BY <1>4
  <2>6. refs' = [refs EXCEPT ![f] = Held(d)]
    BY <2>4, <2>5
  <2>. QED
    BY <1>2, <1>3, <2>1, <2>2, <2>3, <2>6, TurnTo
<1>5. CASE Becomes(t, [c EXCEPT !.state = "closing"]) /\ Continue /\ UNCHANGED refs
  <2>. DEFINE d == [c EXCEPT !.state = "closing"]
  <2>1. /\ d \in Connection /\ d.state = "closing" /\ d.thread = c.thread
        /\ d.item = c.item /\ d.ileft = c.ileft /\ d.out = c.out
    BY <1>1, ZenonT(40) DEF Connection, States
  <2>2. Becomes(t, d) /\ Continue /\ UNCHANGED refs
    BY <1>5
  <2>. HIDE DEF d
  <2>. QED
    BY <1>2, <1>3, <2>1, <2>2, KeepTurn
<1>6. CASE Becomes(t, [c EXCEPT !.ev_flags = "write"]) /\ Stop(t) /\ UNCHANGED refs
  <2>. DEFINE d == [c EXCEPT !.ev_flags = "write"]
  <2>1. /\ d \in Connection /\ d.state = state /\ d.thread = c.thread
        /\ d.item = c.item /\ d.ileft = c.ileft /\ d.out = c.out
    BY <1>1, ZenonT(40) DEF Connection
  <2>2. Becomes(t, d) /\ Stop(t) /\ UNCHANGED refs
    BY <1>6
  <2>. HIDE DEF d
  <2>. QED
    BY <1>2, <1>3, <2>1, <2>2, KeepTurn
<1>. QED
  BY <1>4, <1>5, <1>6 DEF transmit

LEMMA WriteTurn ==
  ASSUME IInv, NEW t \in Threads, conn_write(t)
  PROVE  Turn(t)
<1>. DEFINE c == conns[loop[t].fd]
            sent == [c EXCEPT !.state = c.write_and_go]
<1>1. Driving(t, "write") /\ Elsewhere
  BY DEF conn_write
<1>2. c \in Connection /\ c.state = "write" /\ Consistent(c)
  BY <1>1, AtHand
<1>3. c.item = None /\ c.ileft = 0 /\ Held(c) = 0
  BY <1>2, HoldsNothing
<1>4. /\ sent \in Connection /\ sent.state \in {"new_cmd", "swallow"} /\ sent.thread = c.thread
      /\ sent.item = None /\ sent.ileft = 0
  BY <1>2, <1>3 DEF Connection, States
<1>5. transmit(t, sent, Held(c))
  BY <1>3 DEF conn_write
<1>. HIDE DEF sent
<1>. QED
  BY <1>1, <1>4, <1>5, TransmitTurn

LEMMA MwriteTurn ==
  ASSUME IInv, NEW t \in Threads, conn_mwrite(t)
  PROVE  Turn(t)
<1>. DEFINE c == conns[loop[t].fd]
            sent == [conn_release_items(c) EXCEPT !.state = "new_cmd"]
<1>1. Driving(t, "mwrite") /\ Elsewhere
  BY DEF conn_mwrite
<1>2. c \in Connection
  BY <1>1, AtHand
<1>3. /\ sent \in Connection /\ sent.state \in {"new_cmd", "swallow"} /\ sent.thread = c.thread
      /\ sent.item = None /\ sent.ileft = 0
  BY <1>2 DEF Connection, States, conn_release_items
<1>4. transmit(t, sent, Held(c))
  BY DEF conn_mwrite
<1>. HIDE DEF sent
<1>. QED
  BY <1>1, <1>3, <1>4, TransmitTurn

-----------------------------------------------------------------------------
(***************************************************************************)
(* Every step preserves the invariant.                                     *)
(***************************************************************************)
LEMMA TurnKeeps ==
  ASSUME IInv, NEW t \in Threads, Turn(t)
  PROVE  IInv'
<1>. DEFINE f == loop[t].fd
<1>1. PICK d \in Connection :
        /\ d.state # "closed" /\ d.thread = conns[f].thread /\ Consistent(d)
        /\ conns' = [conns EXCEPT ![f] = d]
        /\ refs' = [refs EXCEPT ![f] = Held(d)]
  BY DEF Turn
<1>2. PICK call \in Call \cup {None} :
        /\ loop' = [loop EXCEPT ![t] = call]
        /\ call # None => call.fd = f /\ call.at = "drive"
  BY DEF Turn
<1>3. UNCHANGED <<last_thread, new_conn_queue, active, owner>> /\ client' \in [Clients -> ClientRecord]
  BY DEF Turn
<1>4. /\ loop[t] # None /\ loop[t].at = "drive" /\ f \in Fds
      /\ loop \in [Threads -> Call \cup {None}] /\ conns \in [Fds -> Connection] /\ refs \in [Fds -> Int]
  BY DEF Turn, IInv, Typed, Call
<1>5. Live(f) /\ conns[f].thread = t /\ f \notin active[t]
  BY <1>4 DEF IInv, Accounting, DriveCalls
<1>6. \A g \in Fds : (Live(g)' <=> Live(g)) /\ conns'[g].thread = conns[g].thread
  BY <1>1, <1>4, <1>5 DEF Live
<1>7. \A u \in Threads : u # t => loop'[u] = loop[u]
  BY <1>2, <1>4
<1>8. loop'[t] # None => loop'[t].fd = f /\ loop'[t].at = "drive"
  BY <1>2, <1>4
<1>9. \A u \in Threads :
        /\ \A n \in DOMAIN new_conn_queue[u] : new_conn_queue[u][n] \in Fds
        /\ active[u] \subseteq Fds \cup {Pipe}
        /\ loop[u] # None => loop[u].fd \in Fds
  BY DEF IInv, Typed, Call
<1>10. Typed'
  <2>1. Held(d) \in Int
    BY DEF Held, Connection
  <2>. QED
    BY <1>1, <1>2, <1>3, <2>1 DEF IInv, Typed
<1>11. Queues'
  BY <1>3, <1>6, <1>9 DEF IInv, Accounting, Queues
<1>12. DriveCalls'
  <2>. SUFFICES ASSUME NEW u \in Threads, loop'[u] # None, loop'[u].at = "drive"
                PROVE  Live(loop[u].fd)' /\ conns'[loop'[u].fd].thread = u /\ loop'[u].fd \notin active[u]
    BY <1>3 DEF DriveCalls
  <2>1. loop'[u].fd = loop[u].fd /\ loop[u] # None /\ loop[u].at = "drive"
    BY <1>4, <1>7, <1>8
  <2>2. Live(loop[u].fd) /\ conns[loop[u].fd].thread = u /\ loop[u].fd \notin active[u]
    BY <2>1 DEF IInv, Accounting, DriveCalls
  <2>. QED
    BY <1>6, <1>9, <2>1, <2>2 DEF Live
<1>16. \A u \in Threads, g \in Fds : Closes(u, g)' <=> Closes(u, g)
  BY <1>4, <1>7, <1>8 DEF Closes
<1>17. \A g \in Fds : Queued(g)' <=> Queued(g)
  BY <1>3 DEF Queued
<1>18. CloseCalls'
  BY <1>3, <1>6, <1>16, <1>17 DEF IInv, Accounting, CloseCalls
<1>13. Sockets'
  BY <1>3, <1>6, <1>16, <1>17 DEF IInv, Accounting, Sockets, BeingClosed
<1>14. Events'
  BY <1>3, <1>6, <1>9 DEF IInv, Accounting, Events
<1>15. Holding'
  BY <1>1, <1>4 DEF IInv, Holding
<1>. QED
  BY <1>10, <1>11, <1>12, <1>13, <1>14, <1>15, <1>18 DEF IInv, Accounting

\* Steps that leave sockets, queues, connections and calls alone.
LEMMA ListenerKeeps ==
  ASSUME IInv, UNCHANGED <<last_thread, new_conn_queue>>, UNCHANGED workers, UNCHANGED owner,
         client' \in [Clients -> ClientRecord]
  PROVE  IInv'
<1>1. Typed'
  BY DEF IInv, Typed, workers
<1>2. Accounting' /\ Holding'
  BY DEF IInv, workers, Accounting, Queues, DriveCalls, CloseCalls, Closes, Sockets, Queued, BeingClosed,
         Events, Live, Holding
<1>. QED
  BY <1>1, <1>2 DEF IInv

\* Whoever is accepted gets a descriptor that is nowhere, and a place at the end of a queue.
LEMMA AcceptKeeps ==
  ASSUME IInv, NEW i \in Clients, accept(i)
  PROVE  IInv'
<1>. DEFINE tid == (last_thread + 1) % NumThreads
<1>1. PICK f \in Fds :
        /\ owner[f] = None
        /\ IF TurnedAway
           THEN /\ client' = [client EXCEPT ![i] = At("over")]
                /\ UNCHANGED <<owner, last_thread, new_conn_queue>>
           ELSE /\ client' = [client EXCEPT ![i].at = "open"]
                /\ owner' = [owner EXCEPT ![f] = i]
                /\ last_thread' = tid
                /\ new_conn_queue' = [new_conn_queue EXCEPT ![tid] = Append(@, f)]
  BY DEF accept
<1>2. UNCHANGED workers
  BY DEF accept
<1>3. /\ client \in [Clients -> ClientRecord] /\ owner \in [Fds -> Clients \cup {None}]
      /\ new_conn_queue \in [Threads -> Seq(Fds)] /\ last_thread \in Threads
  BY DEF IInv, Typed
<1>4. CASE TurnedAway
  <2>1. client' \in [Clients -> ClientRecord]
    BY <1>1, <1>3, <1>4, AtIsClient
  <2>. QED
    BY <1>1, <1>2, <1>4, <2>1, ListenerKeeps
<1>5. CASE ~TurnedAway
  <2>. DEFINE q == new_conn_queue[tid]
  <2>1. tid \in Threads
    BY <1>3, ConnectionsAssumption DEF Threads
  <2>. HIDE DEF tid
  <2>2. [client[i] EXCEPT !.at = "open"] \in ClientRecord
    BY <1>3 DEF ClientRecord
  <2>3. /\ client' \in [Clients -> ClientRecord] /\ owner' \in [Fds -> Clients \cup {None}]
        /\ last_thread' \in Threads
    BY <1>1, <1>3, <1>5, <2>1, <2>2
  <2>4. /\ q \in Seq(Fds) /\ Append(q, f) \in Seq(Fds) /\ Len(q) \in Nat
        /\ DOMAIN Append(q, f) = 1..(Len(q) + 1) /\ DOMAIN q = 1..Len(q)
        /\ \A n \in 1..Len(q) : Append(q, f)[n] = q[n]
        /\ Append(q, f)[Len(q) + 1] = f
    BY <1>3, <2>1
  <2>5. /\ new_conn_queue' = [new_conn_queue EXCEPT ![tid] = Append(q, f)]
        /\ new_conn_queue' \in [Threads -> Seq(Fds)]
    BY <1>1, <1>3, <1>5, <2>1, <2>4
  <2>6. Typed'
    BY <1>2, <2>3, <2>5 DEF IInv, Typed, workers
  <2>7. ~Live(f) /\ ~Queued(f) /\ ~BeingClosed(f)
    BY <1>1 DEF IInv, Accounting, Sockets, Queues, Queued, CloseCalls, BeingClosed
  <2>8. /\ owner'[f] # None /\ \A g \in Fds : g # f => owner'[g] = owner[g]
        /\ \A g \in Fds : owner[g] # None => owner'[g] # None
    BY <1>1, <1>3, <1>5, ConnectionsAssumption
  <2>9. \A t \in Threads : t # tid => new_conn_queue'[t] = new_conn_queue[t]
    BY <1>3, <2>5
  <2>10. new_conn_queue'[tid] = Append(q, f)
    BY <1>3, <2>1, <2>5
  <2>11. \A g \in Fds : (Live(g)' <=> Live(g)) /\ (\A t \in Threads : Closes(t, g)' <=> Closes(t, g))
    BY <1>2 DEF workers, Live, Closes
  <2>12. Queues'
    <3>1. \A t \in Threads : \A n \in DOMAIN new_conn_queue'[t] :
            \/ t = tid /\ n = Len(q) + 1 /\ new_conn_queue'[t][n] = f
            \/ n \in DOMAIN new_conn_queue[t] /\ new_conn_queue'[t][n] = new_conn_queue[t][n]
      BY <2>4, <2>9, <2>10
    <3>2. \A t \in Threads : \A n \in DOMAIN new_conn_queue[t] :
            new_conn_queue[t][n] \in Fds /\ new_conn_queue[t][n] # f
      BY <1>3, <2>7 DEF Queued
    <3>3. ASSUME NEW t \in Threads, NEW n \in DOMAIN new_conn_queue'[t]
          PROVE  owner'[new_conn_queue'[t][n]] # None /\ conns[new_conn_queue'[t][n]].state = "closed"
      <4>1. CASE new_conn_queue'[t][n] = f
        BY <2>7, <2>8, <4>1 DEF Live
      <4>2. CASE n \in DOMAIN new_conn_queue[t] /\ new_conn_queue'[t][n] = new_conn_queue[t][n]
        BY <2>8, <3>2, <4>2 DEF IInv, Accounting, Queues, Live
      <4>. QED
        BY <3>1, <4>1, <4>2
    <3>4. ASSUME NEW t \in Threads, NEW u \in Threads,
                 NEW n \in DOMAIN new_conn_queue'[t], NEW m \in DOMAIN new_conn_queue'[u],
                 new_conn_queue'[t][n] = new_conn_queue'[u][m]
          PROVE  t = u /\ n = m
      BY <3>1, <3>2, <3>4 DEF IInv, Accounting, Queues
    <3>. QED
      BY <1>2, <3>3, <3>4 DEF Queues, Live, workers
  <2>13. \A g \in Fds : Queued(g)' <=> (Queued(g) \/ g = f)
    <3>1. ASSUME NEW g \in Fds, Queued(g)
          PROVE  Queued(g)'
      <4>1. PICK t \in Threads : \E n \in DOMAIN new_conn_queue[t] : new_conn_queue[t][n] = g
        BY <3>1 DEF Queued
      <4>3. PICK n \in DOMAIN new_conn_queue[t] : new_conn_queue[t][n] = g
        BY <4>1
      <4>2. n \in DOMAIN new_conn_queue'[t] /\ new_conn_queue'[t][n] = g
        BY <2>4, <2>9, <2>10, <4>3
      <4>. QED
        BY <4>2 DEF Queued
    <3>2. Queued(f)'
      BY <2>1, <2>4, <2>10 DEF Queued
    <3>3. ASSUME NEW g \in Fds, Queued(g)', g # f
          PROVE  Queued(g)
      <4>1. PICK t \in Threads : \E n \in DOMAIN new_conn_queue'[t] : new_conn_queue'[t][n] = g
        BY <3>3 DEF Queued
      <4>2. PICK n \in DOMAIN new_conn_queue'[t] : new_conn_queue'[t][n] = g
        BY <4>1
      <4>3. n \in DOMAIN new_conn_queue[t] /\ new_conn_queue[t][n] = g
        BY <2>4, <2>9, <2>10, <3>3, <4>2, SMTT(30)
      <4>. QED
        BY <4>3 DEF Queued
    <3>. QED
      BY <3>1, <3>2, <3>3
  <2>14. CloseCalls'
    BY <2>7, <2>8, <2>11, <2>13 DEF IInv, Accounting, CloseCalls, BeingClosed
  <2>15. DriveCalls'
    BY <1>2 DEF IInv, Accounting, DriveCalls, Live, workers
  <2>16. Sockets'
    BY <2>8, <2>11, <2>13 DEF IInv, Accounting, Sockets, BeingClosed
  <2>17. Events'
    <3>1. \A t \in Threads : new_conn_queue[t] # <<>> => new_conn_queue'[t] # <<>>
      BY <2>4, <2>9, <2>10
    <3>. QED
      BY <1>2, <3>1 DEF IInv, Accounting, Events, Live, workers
  <2>18. Holding'
    BY <1>2 DEF IInv, Holding, workers
  <2>. QED
    BY <2>6, <2>12, <2>14, <2>15, <2>16, <2>17, <2>18 DEF IInv, Accounting
<1>. QED
  BY <1>4, <1>5

LEMMA LoopKeeps ==
  ASSUME IInv, NEW t \in Threads, event_base_loop(t)
  PROVE  IInv'
<1>1. /\ loop[t] = None /\ active' = [active EXCEPT ![t] = Ready(t)]
      /\ UNCHANGED <<new_conn_queue, conns, loop, refs, owner, client, last_thread>>
  BY DEF event_base_loop, kernel, accepting
<1>2. Ready(t) \subseteq Fds \cup {Pipe} /\ active \in [Threads -> SUBSET (Fds \cup {Pipe})]
  BY DEF Ready, IInv, Typed
<1>3. Typed'
  BY <1>1, <1>2 DEF IInv, Typed
<1>4. \A u \in Threads : u # t => active'[u] = active[u]
  BY <1>1, <1>2
<1>5. Queues' /\ CloseCalls' /\ Sockets' /\ Holding'
  BY <1>1 DEF IInv, Accounting, Queues, CloseCalls, Closes, Sockets, Queued, BeingClosed, Live, Holding
<1>6. DriveCalls'
  BY <1>1, <1>4 DEF IInv, Accounting, DriveCalls, Live
<1>7. Events'
  <2>1. active'[t] = Ready(t)
    BY <1>1, <1>2
  <2>2. Pipe \notin Fds
    BY ConnectionsAssumption DEF Pipe
  <2>3. Pipe \in Ready(t) => new_conn_queue[t] # <<>>
    BY <2>2 DEF Ready
  <2>4. \A f \in Ready(t) \ {Pipe} : Live(f) /\ conns[f].thread = t
    <3>1. \A f \in Ready(t) \ {Pipe} : f \in Fds /\ conns[f].thread = t
      BY DEF Ready
    <3>2. \A f \in Ready(t) \ {Pipe} : Triggered(f)
      BY DEF Ready
    <3>3. ASSUME NEW f \in Fds, Triggered(f), conns[f].thread = t
          PROVE  Live(f)
      BY <3>3 DEF Triggered, IInv, Holding, Live
    <3>. QED
      BY <3>1, <3>2, <3>3
  <2>. QED
    BY <1>1, <1>4, <2>1, <2>3, <2>4 DEF IInv, Accounting, Events, Live
<1>. QED
  BY <1>3, <1>5, <1>6, <1>7 DEF IInv, Accounting

LEMMA HandlerKeeps ==
  ASSUME IInv, NEW t \in Threads, NEW f \in Fds, event_handler(t, f)
  PROVE  IInv'
<1>. DEFINE call == [fd |-> f, nreqs |-> ReqsPerEvent, at |-> "drive"]
<1>1. /\ loop[t] = None /\ f \in active[t]
      /\ active' = [active EXCEPT ![t] = @ \ {f}] /\ loop' = [loop EXCEPT ![t] = call]
      /\ UNCHANGED <<new_conn_queue, conns, refs, owner, client, last_thread>>
  BY DEF event_handler, kernel, accepting
<1>2. /\ active \in [Threads -> SUBSET (Fds \cup {Pipe})] /\ loop \in [Threads -> Call \cup {None}]
      /\ call \in Call
  BY ConnectionsAssumption DEF IInv, Typed, Call
<1>3. Typed'
  BY <1>1, <1>2 DEF IInv, Typed
<1>4. /\ \A u \in Threads : active'[u] \subseteq active[u]
      /\ \A u \in Threads : u # t => loop'[u] = loop[u]
      /\ loop'[t] = call /\ f \notin active'[t]
  BY <1>1, <1>2
<1>5. call.at = "drive" /\ call.fd = f
  OBVIOUS
<1>. HIDE DEF call
<1>6. \A u \in Threads, g \in Fds : Closes(u, g)' <=> Closes(u, g)
  BY <1>1, <1>4, <1>5 DEF Closes
<1>7. Queues' /\ CloseCalls' /\ Sockets' /\ Holding'
  BY <1>1, <1>6 DEF IInv, Accounting, Queues, CloseCalls, Sockets, Queued, BeingClosed, Live, Holding
<1>8. f # Pipe
  BY ConnectionsAssumption DEF Pipe
<1>9. DriveCalls'
  BY <1>1, <1>4, <1>5, <1>8 DEF IInv, Accounting, DriveCalls, Events, Live
<1>10. Events'
  BY <1>1, <1>4 DEF IInv, Accounting, Events, Live
<1>. QED
  BY <1>3, <1>7, <1>9, <1>10 DEF IInv, Accounting

\* event_del, conn_cleanup: from live to being closed.
LEMMA CleanupKeeps ==
  ASSUME IInv, NEW t \in Threads, conn_cleanup(t)
  PROVE  IInv'
<1>. DEFINE f == loop[t].fd
            c == conns[f]
            call == [loop[t] EXCEPT !.at = "cleaned"]
            d == [Closed EXCEPT !.item = conn_release_items(c).item, !.ileft = conn_release_items(c).ileft]
<1>1. /\ Driving(t, "closing") /\ conns' = [conns EXCEPT ![f] = d] /\ refs' = [refs EXCEPT ![f] = @ - Held(c)]
      /\ loop' = [loop EXCEPT ![t] = call]
      /\ UNCHANGED <<new_conn_queue, active, owner, client, last_thread>>
  BY DEF conn_cleanup, Becomes, Proceed, Elsewhere, kernel, accepting
<1>2. /\ loop[t] # None /\ loop[t] \in Call /\ loop[t].at = "drive"
      /\ f \in Fds /\ c \in Connection /\ refs[f] = Held(c) /\ Held(c) \in Int /\ refs \in [Fds -> Int]
      /\ owner[f] \in Clients
  BY <1>1, AtHand
<1>3. /\ conns \in [Fds -> Connection] /\ loop \in [Threads -> Call \cup {None}]
      /\ call \in Call /\ call.at = "cleaned" /\ call.fd = f
  BY <1>2 DEF IInv, Typed, Call
<1>4. conn_release_items(c).item = None /\ conn_release_items(c).ileft = 0
  BY <1>2 DEF conn_release_items, Connection
<1>5. d \in Connection /\ d.state = "closed" /\ d.ev_flags = "none" /\ d.item = None /\ d.ileft = 0
  <2>1. /\ Closed \in Connection /\ Closed.state = "closed" /\ Closed.ev_flags = "none"
        /\ conn_release_items(c).item \in Nat \cup {None} /\ conn_release_items(c).ileft \in {0, 1}
    BY <1>4, ClosedIsConnection DEF Closed
  <2>. QED
    BY <1>4, <2>1 DEF Connection
<1>. HIDE DEF d, call
<1>6. Held(d) = 0 /\ Consistent(d)
  BY <1>5, NeedsNothing
<1>7. refs'[f] = Held(d)
  BY <1>1, <1>2, <1>6
<1>8. Typed'
  BY <1>1, <1>2, <1>3, <1>5 DEF IInv, Typed
<1>9. Holding'
  BY <1>1, <1>2, <1>3, <1>5, <1>6, <1>7 DEF IInv, Holding
<1>10. /\ Live(f) /\ c.thread = t /\ ~Queued(f) /\ ~BeingClosed(f)
  <2>1. Live(f) /\ c.thread = t
    BY <1>2 DEF IInv, Accounting, DriveCalls
  <2>. QED
    BY <1>2, <2>1 DEF IInv, Accounting, Queues, Queued, CloseCalls, BeingClosed
<1>11. /\ \A g \in Fds : g # f => conns'[g] = conns[g]
       /\ conns'[f].state = "closed"
       /\ \A u \in Threads : u # t => loop'[u] = loop[u]
       /\ loop'[t] = call /\ call # None
  BY <1>1, <1>2, <1>3, <1>5, NoneIsNoCall
<1>12. \A u \in Threads, g \in Fds : Closes(u, g)' <=> (Closes(u, g) \/ (u = t /\ g = f))
  BY <1>2, <1>3, <1>11 DEF Closes
<1>13. /\ \A u \in Threads : \A n \in DOMAIN new_conn_queue[u] :
            new_conn_queue[u][n] \in Fds /\ new_conn_queue[u][n] # f
       /\ \A g \in Fds : Queued(g)' <=> Queued(g)
  BY <1>1, <1>10 DEF Queued, IInv, Typed
<1>14. Queues'
  BY <1>1, <1>11, <1>13 DEF IInv, Accounting, Queues, Live
<1>15. CloseCalls'
  BY <1>1, <1>2, <1>10, <1>11, <1>12, <1>13, ConnectionsAssumption
     DEF IInv, Accounting, CloseCalls, BeingClosed, Live
<1>16. Sockets'
  BY <1>1, <1>11, <1>12, <1>13 DEF IInv, Accounting, Sockets, BeingClosed, Live
\* No other thread is at this connection or is to be called for it: it is this one's.
<1>17. \A u \in Threads : u # t /\ loop[u] # None /\ loop[u].at = "drive" => loop[u].fd \in Fds /\ loop[u].fd # f
  BY <1>10 DEF IInv, Accounting, DriveCalls, Typed, Call
<1>18. \A u \in Threads : f \notin active[u] \ {Pipe}
  <2>1. f \notin active[t]
    BY <1>2 DEF IInv, Accounting, DriveCalls
  <2>. QED
    BY <1>10, <2>1 DEF IInv, Accounting, Events
<1>19. DriveCalls'
  BY <1>1, <1>3, <1>11, <1>17 DEF IInv, Accounting, DriveCalls, Live
<1>20. Events'
  BY <1>1, <1>11, <1>18 DEF IInv, Accounting, Events, Live, Typed
<1>. QED
  BY <1>8, <1>9, <1>14, <1>15, <1>16, <1>19, <1>20 DEF IInv, Accounting

\* Once its descriptor is closed nothing of a connection is left.
LEMMA CloseKeeps ==
  ASSUME IInv, NEW t \in Threads, conn_close(t)
  PROVE  IInv'
<1>. DEFINE f == loop[t].fd
            call == [loop[t] EXCEPT !.at = "closed"]
<1>1. /\ loop[t] # None /\ loop[t].at = "cleaned"
      /\ owner' = [owner EXCEPT ![f] = None] /\ client' = [client EXCEPT ![owner[f]] = At("over")]
      /\ loop' = [loop EXCEPT ![t] = call]
      /\ UNCHANGED <<new_conn_queue, conns, active, refs, last_thread>>
  BY DEF conn_close, Closing, close, Proceed, Elsewhere, accepting
<1>2. /\ loop \in [Threads -> Call \cup {None}] /\ owner \in [Fds -> Clients \cup {None}]
      /\ client \in [Clients -> ClientRecord]
  BY DEF IInv, Typed
<1>3. loop[t] \in Call /\ f \in Fds /\ call \in Call /\ call.at = "closed"
  BY <1>1, <1>2 DEF Call
<1>4. Closes(t, f)
  BY <1>1 DEF Closes
<1>5. owner[f] # None /\ ~Live(f) /\ ~Queued(f) /\ \A u \in Threads : Closes(u, f) => u = t
  BY <1>3, <1>4 DEF IInv, Accounting, CloseCalls
<1>. HIDE DEF call
<1>6. Typed'
  <2>1. client' \in [Clients -> ClientRecord]
    BY <1>1, <1>2, AtIsClient
  <2>. QED
    BY <1>1, <1>2, <1>3, <2>1 DEF IInv, Typed
<1>7. /\ \A u \in Threads : u # t => loop'[u] = loop[u]
      /\ loop'[t].at = "closed"
      /\ owner'[f] = None /\ \A g \in Fds : g # f => owner'[g] = owner[g]
  BY <1>1, <1>2, <1>3
<1>8. \A u \in Threads, g \in Fds : Closes(u, g)' <=> (Closes(u, g) /\ u # t)
  BY <1>7 DEF Closes
<1>9. \A g \in Fds : (Live(g)' <=> Live(g)) /\ (Queued(g)' <=> Queued(g))
  BY <1>1 DEF Live, Queued
<1>10. Queues'
  <2>1. \A u \in Threads : \A n \in DOMAIN new_conn_queue[u] :
          new_conn_queue[u][n] \in Fds /\ new_conn_queue[u][n] # f
    BY <1>5 DEF Queued, IInv, Typed
  <2>. QED
    BY <1>1, <1>7, <2>1 DEF IInv, Accounting, Queues, Live
<1>11. DriveCalls'
  BY <1>1, <1>7 DEF IInv, Accounting, DriveCalls, Live
<1>12. CloseCalls'
  BY <1>5, <1>7, <1>8, <1>9 DEF IInv, Accounting, CloseCalls
<1>13. Sockets'
  <2>1. \A g \in Fds : g # f => (BeingClosed(g)' <=> BeingClosed(g))
    BY <1>1, <1>8 DEF BeingClosed, Closes
  <2>. QED
    BY <1>5, <1>7, <1>9, <2>1 DEF IInv, Accounting, Sockets
<1>14. Events' /\ Holding'
  BY <1>1 DEF IInv, Accounting, Events, Live, Holding
<1>. QED
  BY <1>6, <1>10, <1>11, <1>12, <1>13, <1>14 DEF IInv, Accounting

\* What is left of conn_close moves only the call of the thread.
LEMMA CloseEndKeeps ==
  ASSUME IInv, NEW t \in Threads, Closing(t, "closed") \/ Closing(t, "allowed"),
         Proceed(t, "allowed") \/ Stop(t),
         UNCHANGED <<new_conn_queue, conns, active, refs, last_thread>>, UNCHANGED kernel
  PROVE  IInv'
<1>. DEFINE call == [loop[t] EXCEPT !.at = "allowed"]
<1>1. loop[t] # None /\ loop[t].at \in {"closed", "allowed"} /\ UNCHANGED <<owner, client>>
  BY DEF Closing, kernel
<1>2. loop \in [Threads -> Call \cup {None}]
  BY DEF IInv, Typed
<1>3. loop[t] \in Call /\ call \in Call /\ call.at = "allowed"
  BY <1>1, <1>2 DEF Call
<1>. HIDE DEF call
<1>4. loop' = [loop EXCEPT ![t] = call] \/ loop' = [loop EXCEPT ![t] = None]
  BY DEF Proceed, Stop, call
<1>5. /\ \A u \in Threads : u # t => loop'[u] = loop[u]
      /\ loop'[t] = None \/ loop'[t].at = "allowed"
  BY <1>2, <1>3, <1>4
<1>6. Typed'
  BY <1>1, <1>2, <1>3, <1>4 DEF IInv, Typed
<1>7. \A u \in Threads, g \in Fds : Closes(u, g)' <=> Closes(u, g)
  BY <1>1, <1>5 DEF Closes
<1>8. Queues' /\ CloseCalls' /\ Sockets' /\ Events' /\ Holding'
  BY <1>1, <1>7 DEF IInv, Accounting, Queues, CloseCalls, Sockets, Queued, BeingClosed, Events, Live, Holding
<1>9. DriveCalls'
  BY <1>1, <1>5 DEF IInv, Accounting, DriveCalls, Live
<1>. QED
  BY <1>6, <1>8, <1>9 DEF IInv, Accounting


\* The connection made is of a socket that waited, which only this thread can then reach.
LEMMA ProcessKeeps ==
  ASSUME IInv, NEW t \in Threads, thread_libevent_process(t)
  PROVE  IInv'
<1>. DEFINE q == new_conn_queue[t]
            f == Head(q)
            d == [Closed EXCEPT !.state = "new_cmd", !.ev_flags = "read", !.thread = t]
<1>1. /\ loop[t] = None /\ Pipe \in active[t]
      /\ active' = [active EXCEPT ![t] = @ \ {Pipe}]
      /\ conns' = [conns EXCEPT ![f] = d]
      /\ new_conn_queue' = [new_conn_queue EXCEPT ![t] = Tail(q)]
      /\ UNCHANGED <<loop, refs, owner, client, last_thread>>
  BY DEF thread_libevent_process, kernel, accepting, IInv, Typed
<1>2. /\ new_conn_queue \in [Threads -> Seq(Fds)] /\ conns \in [Fds -> Connection]
      /\ active \in [Threads -> SUBSET (Fds \cup {Pipe})]
  BY DEF IInv, Typed
<1>3. q \in Seq(Fds) /\ q # <<>>
  BY <1>1, <1>2 DEF IInv, Accounting, Events
<1>4. /\ f \in Fds /\ f = q[1] /\ 1 \in DOMAIN q
      /\ Tail(q) \in Seq(Fds) /\ DOMAIN Tail(q) = 1..(Len(q) - 1)
      /\ DOMAIN q = 1..Len(q) /\ Len(q) \in Nat /\ Len(q) > 0
      /\ \A n \in 1..(Len(q) - 1) : Tail(q)[n] = q[n + 1]
  BY <1>3
<1>5. d \in Connection /\ d.state = "new_cmd" /\ d.thread = t /\ d.item = None /\ d.ileft = 0
  <2>1. Closed \in Connection /\ Closed.item = None /\ Closed.ileft = 0
    BY ClosedIsConnection DEF Closed
  <2>. QED
    BY <2>1 DEF Connection, States
<1>. HIDE DEF d
<1>6. Held(d) = 0 /\ Consistent(d)
  BY <1>5, NeedsNothing
<1>7. owner[f] # None /\ ~Live(f) /\ ~BeingClosed(f)
  <2>1. owner[f] # None /\ ~Live(f)
    BY <1>4 DEF IInv, Accounting, Queues
  <2>2. Queued(f)
    BY <1>4 DEF Queued
  <2>. QED
    BY <1>4, <2>1, <2>2 DEF IInv, Accounting, CloseCalls, BeingClosed
<1>8. Held(conns[f]) = 0 /\ refs[f] = 0
  <2>1. conns[f] \in Connection /\ conns[f].state = "closed" /\ Consistent(conns[f])
    BY <1>2, <1>4, <1>7 DEF IInv, Holding, Live
  <2>2. Held(conns[f]) = 0
    BY <2>1, HoldsNothing
  <2>. QED
    BY <1>4, <2>2 DEF IInv, Holding
<1>9. Typed'
  BY <1>1, <1>2, <1>4, <1>5 DEF IInv, Typed
<1>10. Holding'
  <2>1. conns'[f] = d /\ \A g \in Fds : g # f => conns'[g] = conns[g]
    BY <1>1, <1>2, <1>4
  <2>. QED
    BY <1>1, <1>4, <1>5, <1>6, <1>8, <2>1 DEF IInv, Holding
<1>11. /\ conns'[f].state # "closed" /\ conns'[f].thread = t
       /\ \A g \in Fds : g # f => conns'[g] = conns[g]
       /\ \A u \in Threads : active'[u] \subseteq active[u]
       /\ Pipe \notin active'[t]
       /\ \A u \in Threads : u # t => active'[u] = active[u] /\ new_conn_queue'[u] = new_conn_queue[u]
       /\ new_conn_queue'[t] = Tail(q)
  BY <1>1, <1>2, <1>4, <1>5
\* What is in a queue was there before, one place further back in this thread's.
<1>12. \A u \in Threads : \A n \in DOMAIN new_conn_queue'[u] :
         \/ u # t /\ n \in DOMAIN new_conn_queue[u] /\ new_conn_queue'[u][n] = new_conn_queue[u][n]
         \/ u = t /\ n \in Nat /\ n + 1 \in DOMAIN q /\ n + 1 # 1 /\ new_conn_queue'[u][n] = q[n + 1]
  <2>1. \A n \in 1..(Len(q) - 1) : n \in Nat /\ n + 1 \in 1..Len(q) /\ n + 1 # 1
    BY <1>4
  <2>2. ASSUME NEW n \in DOMAIN new_conn_queue'[t]
        PROVE  n \in Nat /\ n + 1 \in DOMAIN q /\ n + 1 # 1 /\ new_conn_queue'[t][n] = q[n + 1]
    <3>1. n \in 1..(Len(q) - 1)
      BY <1>4, <1>11
    <3>. QED
      BY <1>4, <1>11, <2>1, <3>1
  <2>. QED
    BY <1>11, <2>2
<1>13. \A u \in Threads : \A n \in DOMAIN new_conn_queue[u] :
         new_conn_queue[u][n] = f => u = t /\ n = 1
  BY <1>4 DEF IInv, Accounting, Queues
<1>14. \A u \in Threads : \A n \in DOMAIN new_conn_queue'[u] :
         new_conn_queue'[u][n] \in Fds /\ new_conn_queue'[u][n] # f
  <2>1. \A u \in Threads : \A n \in DOMAIN new_conn_queue[u] : new_conn_queue[u][n] \in Fds
    BY <1>2
  <2>. SUFFICES ASSUME NEW u \in Threads, NEW n \in DOMAIN new_conn_queue'[u]
                PROVE  new_conn_queue'[u][n] \in Fds /\ new_conn_queue'[u][n] # f
    OBVIOUS
  <2>2. CASE u # t
    BY <1>12, <1>13, <2>1, <2>2
  <2>3. CASE u = t
    <3>1. n + 1 \in DOMAIN q /\ n + 1 # 1 /\ new_conn_queue'[u][n] = q[n + 1]
      BY <1>12, <2>3
    <3>. QED
      BY <1>13, <2>1, <3>1
  <2>. QED
    BY <2>2, <2>3
<1>15. Queues'
  <2>1. ASSUME NEW u \in Threads, NEW n \in DOMAIN new_conn_queue'[u]
        PROVE  owner'[new_conn_queue'[u][n]] # None /\ conns'[new_conn_queue'[u][n]].state = "closed"
    <3>1. owner[new_conn_queue'[u][n]] # None /\ conns[new_conn_queue'[u][n]].state = "closed"
      BY <1>12 DEF IInv, Accounting, Queues, Live
    <3>. QED
      BY <1>1, <1>11, <1>14, <3>1
  <2>2. ASSUME NEW u \in Threads, NEW v \in Threads,
               NEW n \in DOMAIN new_conn_queue'[u], NEW m \in DOMAIN new_conn_queue'[v],
               new_conn_queue'[u][n] = new_conn_queue'[v][m]
        PROVE  u = v /\ n = m
    <3>1. CASE u = t /\ v = t
      BY <1>12, <2>2, <3>1 DEF IInv, Accounting, Queues
    <3>2. CASE u # t /\ v # t
      BY <1>12, <2>2, <3>2 DEF IInv, Accounting, Queues
    <3>3. CASE u = t /\ v # t
      BY <1>12, <2>2, <3>3 DEF IInv, Accounting, Queues
    <3>4. CASE u # t /\ v = t
      BY <1>12, <2>2, <3>4 DEF IInv, Accounting, Queues
    <3>. QED
      BY <3>1, <3>2, <3>3, <3>4
  <2>. QED
    BY <2>1, <2>2 DEF Queues, Live
<1>16. \A g \in Fds : Queued(g)' => Queued(g)
  <2>. SUFFICES ASSUME NEW g \in Fds, NEW u \in Threads, NEW n \in DOMAIN new_conn_queue'[u],
                       new_conn_queue'[u][n] = g
                PROVE  Queued(g)
    BY DEF Queued
  <2>. QED
    BY <1>12 DEF Queued
<1>17. \A g \in Fds : g # f /\ Queued(g) => Queued(g)'
  <2>. SUFFICES ASSUME NEW g \in Fds, g # f, NEW u \in Threads, NEW n \in DOMAIN new_conn_queue[u],
                       new_conn_queue[u][n] = g
                PROVE  Queued(g)'
    BY DEF Queued
  <2>1. CASE u # t
    BY <1>11, <2>1 DEF Queued
  <2>2. CASE u = t
    <3>1. n # 1 /\ n - 1 \in 1..(Len(q) - 1) /\ Tail(q)[n - 1] = q[n]
      BY <1>4, <2>2
    <3>2. n - 1 \in DOMAIN new_conn_queue'[t] /\ new_conn_queue'[t][n - 1] = g
      BY <1>4, <1>11, <2>2, <3>1
    <3>. QED
      BY <3>2 DEF Queued
  <2>. QED
    BY <2>1, <2>2
<1>18. \A u \in Threads, g \in Fds : Closes(u, g)' <=> Closes(u, g)
  BY <1>1 DEF Closes
<1>19. CloseCalls'
  BY <1>1, <1>7, <1>11, <1>16, <1>18 DEF IInv, Accounting, CloseCalls, BeingClosed, Live
<1>20. Sockets'
  BY <1>1, <1>7, <1>11, <1>17, <1>18 DEF IInv, Accounting, Sockets, BeingClosed, Live
\* The connection was closed, so nobody was at it or to be called for it.
<1>21. DriveCalls'
  <2>. SUFFICES ASSUME NEW u \in Threads, loop[u] # None, loop[u].at = "drive"
                PROVE  /\ conns'[loop[u].fd].state # "closed" /\ conns'[loop[u].fd].thread = u
                       /\ loop[u].fd \notin active'[u]
    BY <1>1 DEF DriveCalls, Live
  <2>1. loop[u].fd \in Fds /\ Live(loop[u].fd) /\ conns[loop[u].fd].thread = u /\ loop[u].fd \notin active[u]
    BY DEF IInv, Accounting, DriveCalls, Typed, Call
  <2>. QED
    BY <1>7, <1>11, <2>1 DEF Live
<1>22. Events'
  <2>1. \A u \in Threads : \A g \in active'[u] \ {Pipe} : g \in Fds /\ Live(g) /\ conns[g].thread = u
    BY <1>2, <1>11 DEF IInv, Accounting, Events
  <2>2. \A u \in Threads : \A g \in active'[u] \ {Pipe} : conns'[g].state # "closed" /\ conns'[g].thread = u
    BY <1>7, <1>11, <2>1 DEF Live
  <2>3. \A u \in Threads : Pipe \in active'[u] => new_conn_queue'[u] # <<>>
    BY <1>11 DEF IInv, Accounting, Events
  <2>. QED
    BY <2>2, <2>3 DEF Events, Live
<1>. QED
  BY <1>9, <1>10, <1>15, <1>19, <1>20, <1>21, <1>22 DEF IInv, Accounting

-----------------------------------------------------------------------------
(***************************************************************************)
(* The invariant holds.                                                    *)
(***************************************************************************)
LEMMA InitIInv == Init => IInv
<1>. SUFFICES ASSUME Init
              PROVE  IInv
  OBVIOUS
<1>1. Typed
  <2>1. NumThreads - 1 \in Threads
    BY ConnectionsAssumption DEF Threads
  <2>2. At("new") \in ClientRecord /\ Closed \in Connection
    BY AtIsClient, ClosedIsConnection
  <2>. QED
    BY <2>1, <2>2 DEF Init, Typed
<1>2. \A f \in Fds : conns[f] = Closed /\ ~Live(f)
  BY DEF Init, Live, Closed
<1>3. Accounting
  BY <1>2 DEF Init, Accounting, Queues, DriveCalls, CloseCalls, Closes, Sockets, Events
<1>4. Closed.ev_flags = "none" /\ Closed.item = None /\ Closed.ileft = 0 /\ Closed.state = "closed"
  BY DEF Closed
<1>5. Held(Closed) = 0 /\ Consistent(Closed)
  BY <1>4, NeedsNothing
<1>6. Holding
  BY <1>2, <1>4, <1>5 DEF Init, Holding
<1>. QED
  BY <1>1, <1>3, <1>6 DEF IInv

LEMMA StepIInv == IInv /\ [Next]_vars => IInv'
<1>. SUFFICES ASSUME IInv, [Next]_vars
              PROVE  IInv'
  OBVIOUS
<1>1. CASE Listener
  <2>1. CASE \E i \in Clients : accept(i)
    BY <2>1, AcceptKeeps
  <2>2. CASE OutOfDescriptors \/ stop_accepting \/ maxconns_handler
    <3>1. UNCHANGED <<last_thread, new_conn_queue>> /\ UNCHANGED workers /\ UNCHANGED kernel
      BY <2>2 DEF OutOfDescriptors, stop_accepting, maxconns_handler
    <3>2. client' \in [Clients -> ClientRecord] /\ UNCHANGED owner
      BY <3>1 DEF kernel, IInv, Typed
    <3>. QED
      BY <3>1, <3>2, ListenerKeeps
  <2>. QED
    BY <1>1, <2>1, <2>2 DEF Listener
<1>2. ASSUME NEW t \in Threads, Worker(t)
      PROVE  IInv'
  <2>1. CASE event_base_loop(t)
    BY <2>1, LoopKeeps
  <2>2. CASE thread_libevent_process(t)
    BY <2>2, ProcessKeeps
  <2>3. CASE \E f \in Fds : event_handler(t, f)
    BY <2>3, HandlerKeeps
  <2>4. CASE \/ conn_read(t) \/ conn_parse_cmd(t) \/ conn_new_cmd(t)
             \/ conn_nread(t) \/ conn_swallow(t) \/ conn_write(t) \/ conn_mwrite(t)
    <3>1. Turn(t)
      BY <2>4, ReadTurn, ParseTurn, NewCmdTurn, NreadTurn, SwallowTurn, WriteTurn, MwriteTurn
    <3>. QED
      BY <3>1, TurnKeeps
  <2>5. CASE conn_cleanup(t)
    BY <2>5, CleanupKeeps
  <2>6. CASE conn_close(t)
    BY <2>6, CloseKeeps
  <2>7. CASE conn_close_allow(t) \/ conn_close_count(t)
    <3>1. /\ Closing(t, "closed") \/ Closing(t, "allowed")
          /\ Proceed(t, "allowed") \/ Stop(t)
          /\ UNCHANGED <<new_conn_queue, conns, active, refs, last_thread>> /\ UNCHANGED kernel
      BY <2>7 DEF conn_close_allow, conn_close_count, accepting
    <3>. QED
      BY <3>1, CloseEndKeeps
  <2>. QED
    BY <1>2, <2>1, <2>2, <2>3, <2>4, <2>5, <2>6, <2>7 DEF Worker, drive_machine
<1>3. ASSUME NEW i \in Clients, Client(i)
      PROVE  IInv'
  BY <1>3, ClientStep
<1>4. CASE UNCHANGED vars
  <2>1. UNCHANGED <<last_thread, new_conn_queue>> /\ UNCHANGED workers /\ UNCHANGED owner /\ UNCHANGED client
    BY <1>4 DEF vars, workers
  <2>2. client' \in [Clients -> ClientRecord]
    BY <2>1 DEF IInv, Typed
  <2>. QED
    BY <2>1, <2>2, ListenerKeeps
<1>. QED
  BY <1>1, <1>2, <1>3, <1>4 DEF Next

\* The invariant the theorems rest on holds of every behaviour.
THEOREM InvariantHolds == Spec => []IInv
BY InitIInv, StepIInv, PTL DEF Spec

\* The sets of DescriptorsAccounted say what the parts of the invariant say.
LEMMA IInvAccounts == IInv => DescriptorsAccounted
<1>. SUFFICES ASSUME IInv
              PROVE  DescriptorsAccounted
  OBVIOUS
<1>2. \A f \in Fds : \A p \in Places(f) : \E t \in Threads : \E n \in DOMAIN new_conn_queue[t] :
        p = <<t, n>> /\ new_conn_queue[t][n] = f
  BY DEF Places
<1>1. \A f \in Fds : Places(f) # {} <=> Queued(f)
  <2>1. ASSUME NEW f \in Fds, Queued(f)
        PROVE  Places(f) # {}
    <3>1. PICK t \in Threads : \E n \in DOMAIN new_conn_queue[t] : new_conn_queue[t][n] = f
      BY <2>1 DEF Queued
    <3>2. PICK n \in DOMAIN new_conn_queue[t] : new_conn_queue[t][n] = f
      BY <3>1
    <3>3. <<t, n>> \in Places(f)
      BY <3>2 DEF Places
    <3>. QED
      BY <3>3
  <2>. QED
    BY <1>2, <2>1 DEF Queued
<1>3. \A f \in Fds, t \in Threads : t \in Cleaners(f) <=> Closes(t, f)
  BY DEF Cleaners, Closes
<1>4. \A f \in Fds : Cleaners(f) # {} <=> BeingClosed(f)
  BY DEF Cleaners, BeingClosed, Closes
<1>5. ASSUME NEW f \in Fds
      PROVE  \A p, q \in Places(f) : p = q
  <2>. SUFFICES ASSUME NEW p \in Places(f), NEW q \in Places(f)
                PROVE  p = q
    OBVIOUS
  <2>1. PICK t \in Threads : \E n \in DOMAIN new_conn_queue[t] : p = <<t, n>> /\ new_conn_queue[t][n] = f
    BY <1>2
  <2>2. PICK n \in DOMAIN new_conn_queue[t] : p = <<t, n>> /\ new_conn_queue[t][n] = f
    BY <2>1
  <2>3. PICK u \in Threads : \E m \in DOMAIN new_conn_queue[u] : q = <<u, m>> /\ new_conn_queue[u][m] = f
    BY <1>2
  <2>4. PICK m \in DOMAIN new_conn_queue[u] : q = <<u, m>> /\ new_conn_queue[u][m] = f
    BY <2>3
  <2>5. t = u /\ n = m
    BY <2>2, <2>4 DEF IInv, Accounting, Queues
  <2>. QED
    BY <2>2, <2>4, <2>5
<1>6. ASSUME NEW f \in Fds
      PROVE  /\ owner[f] # None <=> Places(f) # {} \/ Live(f) \/ Cleaners(f) # {}
             /\ Places(f) # {} => ~Live(f) /\ Cleaners(f) = {}
             /\ Live(f) => Cleaners(f) = {}
             /\ \A t, u \in Cleaners(f) : t = u
  <2>1. Queued(f) => owner[f] # None /\ ~Live(f)
    BY DEF IInv, Accounting, Queues, Queued
  <2>2. BeingClosed(f) => owner[f] # None /\ ~Live(f) /\ ~Queued(f)
    BY DEF IInv, Accounting, CloseCalls, BeingClosed
  <2>3. \A t, u \in Cleaners(f) : t = u
    <3>1. \A t \in Cleaners(f) : t \in Threads /\ Closes(t, f)
      BY DEF Cleaners, Closes
    <3>. QED
      BY <3>1 DEF IInv, Accounting, CloseCalls
  <2>4. (Live(f) => owner[f] # None) /\ (owner[f] # None => Live(f) \/ Queued(f) \/ BeingClosed(f))
    BY DEF IInv, Accounting, Sockets
  <2>. QED
    BY <1>1, <1>4, <2>1, <2>2, <2>3, <2>4
<1>7. \A t \in Threads : loop[t] # None /\ loop[t].at = "drive" =>
        Live(loop[t].fd) /\ conns[loop[t].fd].thread = t
  BY DEF IInv, Accounting, DriveCalls
<1>8. \A t \in Threads : \A f \in active[t] \ {Pipe} : Live(f) /\ conns[f].thread = t
  BY DEF IInv, Accounting, Events
<1>. QED
  BY <1>5, <1>6, <1>7, <1>8 DEF DescriptorsAccounted

\* No accepted socket is forgotten, kept twice, driven by two threads or after its end,
\* whatever arrives in the middle of closing it (conn_close, conn_new, event_handler).
THEOREM DescriptorsAccountedHolds == Spec => []DescriptorsAccounted
BY InvariantHolds, IInvAccounts, PTL

\* The references a connection's commands have taken are those it is going to return
\* (conn_release_items, complete_nread_ascii, conn_cleanup).
THEOREM ItemsHeldHolds == Spec => []ItemsHeld
<1>1. IInv => ItemsHeld
  BY DEF IInv, Holding, ItemsHeld
<1>. QED
  BY <1>1, InvariantHolds, PTL

-----------------------------------------------------------------------------
(***************************************************************************)
(* No connection sleeps through its input.  The part to add: also while it *)
(* is driven a connection asks for events, and it is about to read only    *)
(* when no command is left in its buffer.                                  *)
(***************************************************************************)
Resting(c) == c.ev_flags # "none" /\ (c.state = "read" => Ends(c.rbuf) = {})

Waits(c) ==
  \/ c.ev_flags = "write" /\ c.state \in {"new_cmd", "write", "mwrite"}
  \/ /\ c.ev_flags = "read" /\ c.state \in {"new_cmd", "read", "nread", "swallow"}
     /\ Ends(c.rbuf) = {}

Awake == \A f \in Fds : Live(f) => Resting(conns[f]) /\ (~Driven(f) => Waits(conns[f]))

\* A turn leaves a connection that rests, and waits if it is the last one.
Rests(t) == \E d : Becomes(t, d) /\ Resting(d) /\ (loop'[t] = None => Waits(d))

LEMMA GoesOn ==
  ASSUME IInv, NEW t \in Threads, NEW state, Driving(t, state),
         NEW d, d.ev_flags # "none", d.state # "read", Becomes(t, d),
         Continue \/ (loop[t].nreqs # 0 /\ loop' = [loop EXCEPT ![t].nreqs = @ - 1])
  PROVE  Rests(t)
<1>. DEFINE fewer == [loop[t] EXCEPT !.nreqs = @ - 1]
<1>1. loop[t] # None /\ loop[t] \in Call /\ loop \in [Threads -> Call \cup {None}]
  BY AtHand DEF IInv, Typed
<1>2. loop'[t] # None
  <2>1. CASE Continue
    BY <1>1, <2>1 DEF Continue
  <2>2. CASE loop[t].nreqs # 0 /\ loop' = [loop EXCEPT ![t].nreqs = @ - 1]
    <3>1. fewer \in Call
      BY <1>1, <2>2, ConnectionsAssumption DEF Call
    <3>2. loop'[t] = fewer
      BY <1>1, <2>2
    <3>. QED
      BY <3>1, <3>2, NoneIsNoCall
  <2>. QED
    BY <2>1, <2>2
<1>. QED
  BY <1>2 DEF Rests, Resting

LEMMA Sleeps ==
  ASSUME NEW t \in Threads, NEW d, Waits(d), Becomes(t, d)
  PROVE  Rests(t)
BY DEF Rests, Resting, Waits

LEMMA WaitRests ==
  ASSUME IInv, NEW t \in Threads, NEW state, Driving(t, state),
         Ends(conns[loop[t].fd].rbuf) = {}, Wait(t, conns[loop[t].fd])
  PROVE  Rests(t)
<1>. DEFINE c == conns[loop[t].fd]
            d == [c EXCEPT !.ev_flags = "read", !.state = "read"]
<1>1. c \in Connection
  BY AtHand
<1>2. d.ev_flags = "read" /\ d.state = "read" /\ d.rbuf = c.rbuf /\ Becomes(t, d)
  BY <1>1 DEF Connection, Wait
<1>. HIDE DEF d
<1>3. Waits(d)
  BY <1>2 DEF Waits
<1>. QED
  BY <1>2, <1>3, Sleeps

\* out_string and the commands leave the events a connection asks for.
LEMMA CommandRests ==
  ASSUME NEW c \in Connection, NEW line \in Piece, NEW kind, NEW r \in process_command(c, line, kind)
  PROVE  r.conn.ev_flags = c.ev_flags /\ r.conn.state # "read"
<1>. DEFINE upload == [c EXCEPT !.noreply = kind = "set noreply"]
            refused == out_string(upload, line.of)
<1>1. \A b \in Connection, n \in Nat :
        /\ out_string(b, n) \in Connection /\ out_string(b, n).ev_flags = b.ev_flags
        /\ out_string(b, n).state # "read"
  <2>. SUFFICES ASSUME NEW b \in Connection, NEW n \in Nat
                PROVE  /\ out_string(b, n) \in Connection /\ out_string(b, n).ev_flags = b.ev_flags
                       /\ out_string(b, n).state # "read"
    OBVIOUS
  <2>1. out_string(b, n) \in Connection /\ out_string(b, n).state \in {"new_cmd", "write"}
    BY OutString
  <2>2. out_string(b, n).ev_flags = b.ev_flags
    BY DEF out_string, Connection
  <2>. QED
    BY <2>1, <2>2
<1>2. line.of \in Nat /\ Error \in Nat
  BY DEF Piece, Error
<1>3. upload \in Connection /\ upload.ev_flags = c.ev_flags
  BY DEF Connection
<1>4. CASE r = [conn |-> out_string(c, Error), taken |-> 0]
  BY <1>1, <1>2, <1>4
<1>5. CASE \E hits \in {0, 1} :
             r = [conn |-> [c EXCEPT !.ileft = hits, !.out = line.of, !.state = "mwrite"], taken |-> hits]
  <2>1. PICK hits \in {0, 1} :
          r = [conn |-> [c EXCEPT !.ileft = hits, !.out = line.of, !.state = "mwrite"], taken |-> hits]
    BY <1>5
  <2>. QED
    BY <2>1 DEF Connection
<1>6. CASE r = [conn |-> [c EXCEPT !.state = "closing"], taken |-> 0]
  BY <1>6 DEF Connection
<1>7. CASE r = [conn |-> [upload EXCEPT !.item = line.of, !.rlbytes = 1, !.state = "nread"], taken |-> 1]
  <2>. HIDE DEF upload
  <2>. QED
    BY <1>3, <1>7 DEF Connection
<1>8. CASE r = [conn |-> [refused EXCEPT !.write_and_go = "swallow", !.sbytes = 1], taken |-> 0]
  <2>1. refused \in Connection /\ refused.ev_flags = c.ev_flags /\ refused.state # "read"
    BY <1>1, <1>2, <1>3
  <2>. HIDE DEF refused
  <2>. QED
    BY <1>8, <2>1 DEF Connection
<1>. QED
  BY <1>4, <1>5, <1>6, <1>7, <1>8 DEF process_command

LEMMA FetchRests ==
  ASSUME IInv, NEW t \in Threads, NEW state \in {"nread", "swallow"}, Driving(t, state),
         Resting(conns[loop[t].fd]),
         NEW taken \in Connection, taken.state = state, taken.ev_flags = conns[loop[t].fd].ev_flags,
         Fetch(t, taken)
  PROVE  Rests(t)
<1>. DEFINE f == loop[t].fd
            c == conns[f]
<1>1. c \in Connection /\ c.state = state /\ c.ev_flags # "none"
  BY AtHand DEF Resting
<1>2. CASE Becomes(t, [taken EXCEPT !.rbuf = Tail(@)]) /\ Continue
  <2>. DEFINE d == [taken EXCEPT !.rbuf = Tail(@)]
  <2>1. d.ev_flags # "none" /\ d.state # "read" /\ Becomes(t, d)
    BY <1>1, <1>2 DEF Connection
  <2>. HIDE DEF d
  <2>. QED
    BY <1>2, <2>1, GoesOn
<1>3. CASE Becomes(t, taken) /\ Continue
  BY <1>1, <1>3, GoesOn
<1>4. CASE Becomes(t, [c EXCEPT !.state = "closing"]) /\ Continue
  <2>. DEFINE d == [c EXCEPT !.state = "closing"]
  <2>1. d.ev_flags # "none" /\ d.state # "read" /\ Becomes(t, d)
    BY <1>1, <1>4 DEF Connection
  <2>. HIDE DEF d
  <2>. QED
    BY <1>4, <2>1, GoesOn
<1>5. CASE c.rbuf = <<>> /\ Becomes(t, [c EXCEPT !.ev_flags = "read"])
  <2>. DEFINE d == [c EXCEPT !.ev_flags = "read"]
  <2>1. d.ev_flags = "read" /\ d.state = state /\ d.rbuf = <<>> /\ Becomes(t, d)
    BY <1>1, <1>5 DEF Connection
  <2>. HIDE DEF d
  <2>2. Waits(d)
    BY <2>1 DEF Waits, Ends
  <2>. QED
    BY <2>1, <2>2, Sleeps
<1>. QED
  BY <1>2, <1>3, <1>4, <1>5 DEF Fetch

LEMMA TransmitRests ==
  ASSUME IInv, NEW t \in Threads, NEW state \in {"write", "mwrite"}, Driving(t, state),
         Resting(conns[loop[t].fd]),
         NEW sent \in Connection, sent.state \in {"new_cmd", "swallow"},
         sent.ev_flags = conns[loop[t].fd].ev_flags, NEW freed, transmit(t, sent, freed)
  PROVE  Rests(t)
<1>. DEFINE c == conns[loop[t].fd]
<1>1. c \in Connection /\ c.state = state /\ c.ev_flags # "none"
  BY AtHand DEF Resting
<1>2. CASE Becomes(t, [sent EXCEPT !.out = None]) /\ Continue
  <2>. DEFINE d == [sent EXCEPT !.out = None]
  <2>1. d.ev_flags # "none" /\ d.state # "read" /\ Becomes(t, d)
    BY <1>1, <1>2 DEF Connection
  <2>. HIDE DEF d
  <2>. QED
    BY <1>2, <2>1, GoesOn
<1>3. CASE Becomes(t, [c EXCEPT !.state = "closing"]) /\ Continue
  <2>. DEFINE d == [c EXCEPT !.state = "closing"]
  <2>1. d.ev_flags # "none" /\ d.state # "read" /\ Becomes(t, d)
    BY <1>1, <1>3 DEF Connection
  <2>. HIDE DEF d
  <2>. QED
    BY <1>3, <2>1, GoesOn
<1>4. CASE Becomes(t, [c EXCEPT !.ev_flags = "write"])
  <2>. DEFINE d == [c EXCEPT !.ev_flags = "write"]
  <2>1. d.ev_flags = "write" /\ d.state = state /\ Becomes(t, d)
    BY <1>1, <1>4 DEF Connection
  <2>. HIDE DEF d
  <2>2. Waits(d)
    BY <2>1 DEF Waits
  <2>. QED
    BY <2>1, <2>2, Sleeps
<1>. QED
  BY <1>2, <1>3, <1>4 DEF transmit

\* Every turn, state by state.
LEMMA TurnRests ==
  ASSUME IInv, Awake, NEW t \in Threads,
         \/ conn_read(t) \/ conn_parse_cmd(t) \/ conn_new_cmd(t)
         \/ conn_nread(t) \/ conn_swallow(t) \/ conn_write(t) \/ conn_mwrite(t)
  PROVE  Rests(t)
<1>. DEFINE f == loop[t].fd
            c == conns[f]
<1>1. ASSUME NEW state, Driving(t, state)
      PROVE  /\ f \in Fds /\ c \in Connection /\ c.state = state /\ Resting(c) /\ c.ev_flags # "none"
             /\ Peer(f) \in ClientRecord
  <2>1. f \in Fds /\ c \in Connection /\ c.state = state /\ Live(f) /\ Peer(f) \in ClientRecord
    BY <1>1, AtHand DEF IInv, Accounting, DriveCalls
  <2>. QED
    BY <2>1 DEF Awake, Resting
<1>2. CASE conn_read(t)
  <2>1. Driving(t, "read")
    BY <1>2 DEF conn_read
  <2>2. c \in Connection /\ c.ev_flags # "none" /\ Ends(c.rbuf) = {}
    BY <1>1, <2>1 DEF Resting
  <2>3. CASE Becomes(t, [c EXCEPT !.rbuf = @ \o Peer(f).net, !.state = "parse_cmd"]) /\ Continue
    <3>. DEFINE d == [c EXCEPT !.rbuf = @ \o Peer(f).net, !.state = "parse_cmd"]
    <3>1. d.ev_flags # "none" /\ d.state # "read" /\ Becomes(t, d)
      BY <2>2, <2>3 DEF Connection
    <3>. HIDE DEF d
    <3>. QED
      BY <2>1, <2>3, <3>1, GoesOn
  <2>4. CASE Becomes(t, [c EXCEPT !.state = "closing"]) /\ Continue
    <3>. DEFINE d == [c EXCEPT !.state = "closing"]
    <3>1. d.ev_flags # "none" /\ d.state # "read" /\ Becomes(t, d)
      BY <2>2, <2>4 DEF Connection
    <3>. HIDE DEF d
    <3>. QED
      BY <2>1, <2>4, <3>1, GoesOn
  <2>5. CASE Wait(t, c)
    BY <2>1, <2>2, <2>5, WaitRests, SMTT(30)
  <2>. QED
    BY <1>2, <2>3, <2>4, <2>5 DEF conn_read
<1>3. CASE conn_parse_cmd(t)
  <2>1. Driving(t, "parse_cmd")
    BY <1>3 DEF conn_parse_cmd
  <2>2. c \in Connection /\ c.ev_flags # "none"
    BY <1>1, <2>1
  <2>3. CASE Ends(c.rbuf) = {} /\ Wait(t, c)
    BY <2>1, <2>3, WaitRests
  <2>4. ASSUME NEW n \in Ends(c.rbuf), NEW kind,
               NEW r \in process_command([c EXCEPT !.rbuf = SubSeq(@, n + 1, Len(@))], c.rbuf[n], kind),
               Becomes(t, r.conn), Continue
        PROVE  Rests(t)
    <3>. DEFINE b == [c EXCEPT !.rbuf = SubSeq(@, n + 1, Len(@))]
    <3>1. n \in 1..Len(c.rbuf) /\ c.rbuf \in Seq(Piece)
      BY <2>2 DEF Ends, Connection
    <3>2. c.rbuf[n] \in Piece /\ SubSeq(c.rbuf, n + 1, Len(c.rbuf)) \in Seq(Piece)
      BY <3>1, SubSeqProperties
    <3>3. b \in Connection /\ b.ev_flags = c.ev_flags /\ r \in process_command(b, c.rbuf[n], kind)
      BY <2>2, <3>2 DEF Connection
    <3>. HIDE DEF b
    <3>4. r.conn.ev_flags # "none" /\ r.conn.state # "read"
      BY <2>2, <3>2, <3>3, CommandRests
    <3>. QED
      BY <2>1, <2>4, <3>4, GoesOn
  <2>. QED
    BY <1>3, <2>3, <2>4, ZenonT(40) DEF conn_parse_cmd
<1>4. CASE conn_new_cmd(t)
  <2>1. Driving(t, "new_cmd")
    BY <1>4 DEF conn_new_cmd
  <2>2. c \in Connection /\ c.state = "new_cmd" /\ c.ev_flags \in {"read", "write"}
    BY <1>1, <2>1 DEF Connection
  <2>3. CASE Becomes(t, [c EXCEPT !.ev_flags = IF c.rbuf # <<>> THEN "write" ELSE @])
    <3>. DEFINE d == [c EXCEPT !.ev_flags = IF c.rbuf # <<>> THEN "write" ELSE @]
    <3>1. /\ d.state = "new_cmd" /\ d.rbuf = c.rbuf /\ Becomes(t, d)
          /\ d.ev_flags = "write" \/ (d.ev_flags = "read" /\ c.rbuf = <<>>)
      BY <2>2, <2>3 DEF Connection
    <3>. HIDE DEF d
    <3>2. Waits(d)
      BY <3>1 DEF Waits, Ends
    <3>. QED
      BY <3>1, <3>2, Sleeps
  <2>4. CASE /\ Becomes(t, [c EXCEPT !.state = "parse_cmd"])
             /\ loop[t].nreqs # 0 /\ loop' = [loop EXCEPT ![t].nreqs = @ - 1]
    <3>. DEFINE d == [c EXCEPT !.state = "parse_cmd"]
    <3>1. d.ev_flags # "none" /\ d.state # "read" /\ Becomes(t, d)
      BY <2>2, <2>4 DEF Connection
    <3>. HIDE DEF d
    <3>. QED
      BY <2>1, <2>4, <3>1, GoesOn
  <2>5. CASE c.rbuf = <<>> /\ Wait(t, c)
    <3>1. Ends(c.rbuf) = {}
      BY <2>5 DEF Ends
    <3>. QED
      BY <2>1, <2>5, <3>1, WaitRests
  <2>. QED
    BY <1>4, <2>3, <2>4, <2>5 DEF conn_new_cmd
<1>5. CASE conn_nread(t)
  <2>1. Driving(t, "nread")
    BY <1>5 DEF conn_nread
  <2>2. c \in Connection /\ c.state = "nread" /\ Resting(c) /\ c.ev_flags # "none"
    BY <1>1, <2>1
  <2>3. CASE Becomes(t, [out_string(c, c.item) EXCEPT !.item = None]) /\ Continue
    <3>. DEFINE answered == out_string(c, c.item)
                d == [answered EXCEPT !.item = None]
    <3>1. c.item \in Nat
      BY <2>1, <2>2, AtHand DEF Consistent, Connection
    <3>2. answered \in Connection /\ answered.state \in {"new_cmd", "write"}
      BY <2>2, <3>1, OutString
    <3>3. answered.ev_flags = c.ev_flags
      BY <2>2 DEF out_string, Connection
    <3>. HIDE DEF answered
    <3>4. d.ev_flags # "none" /\ d.state # "read"
      BY <2>2, <3>2, <3>3 DEF Connection
    <3>5. Becomes(t, d)
      BY <2>3 DEF answered
    <3>. HIDE DEF d
    <3>. QED
      BY <2>1, <2>3, <3>4, <3>5, GoesOn
  <2>4. CASE Fetch(t, [c EXCEPT !.rlbytes = 0])
    <3>. DEFINE taken == [c EXCEPT !.rlbytes = 0]
    <3>1. taken \in Connection /\ taken.state = "nread" /\ taken.ev_flags = c.ev_flags /\ Fetch(t, taken)
      BY <2>2, <2>4 DEF Connection
    <3>. HIDE DEF taken
    <3>. QED
      BY <2>1, <2>2, <3>1, FetchRests
  <2>. QED
    BY <1>5, <2>3, <2>4 DEF conn_nread
<1>6. CASE conn_swallow(t)
  <2>1. Driving(t, "swallow")
    BY <1>6 DEF conn_swallow
  <2>2. c \in Connection /\ c.state = "swallow" /\ Resting(c) /\ c.ev_flags # "none"
    BY <1>1, <2>1
  <2>3. CASE Becomes(t, [c EXCEPT !.state = "new_cmd"]) /\ Continue
    <3>. DEFINE d == [c EXCEPT !.state = "new_cmd"]
    <3>1. d.ev_flags # "none" /\ d.state # "read" /\ Becomes(t, d)
      BY <2>2, <2>3 DEF Connection
    <3>. HIDE DEF d
    <3>. QED
      BY <2>1, <2>3, <3>1, GoesOn
  <2>4. CASE Fetch(t, [c EXCEPT !.sbytes = 0])
    <3>. DEFINE taken == [c EXCEPT !.sbytes = 0]
    <3>1. taken \in Connection /\ taken.state = "swallow" /\ taken.ev_flags = c.ev_flags /\ Fetch(t, taken)
      BY <2>2, <2>4 DEF Connection
    <3>. HIDE DEF taken
    <3>. QED
      BY <2>1, <2>2, <3>1, FetchRests
  <2>. QED
    BY <1>6, <2>3, <2>4 DEF conn_swallow
<1>7. CASE conn_write(t)
  <2>. DEFINE sent == [c EXCEPT !.state = c.write_and_go]
  <2>1. Driving(t, "write") /\ transmit(t, sent, 0)
    BY <1>7 DEF conn_write
  <2>2. c \in Connection /\ Resting(c)
    BY <1>1, <2>1
  <2>3. sent \in Connection /\ sent.state \in {"new_cmd", "swallow"} /\ sent.ev_flags = c.ev_flags
    BY <2>2 DEF Connection, States
  <2>. HIDE DEF sent
  <2>. QED
    BY <2>1, <2>2, <2>3, TransmitRests
<1>8. CASE conn_mwrite(t)
  <2>. DEFINE sent == [conn_release_items(c) EXCEPT !.state = "new_cmd"]
  <2>1. Driving(t, "mwrite") /\ transmit(t, sent, Held(c))
    BY <1>8 DEF conn_mwrite
  <2>2. c \in Connection /\ Resting(c)
    BY <1>1, <2>1
  <2>3. sent \in Connection /\ sent.state \in {"new_cmd", "swallow"} /\ sent.ev_flags = c.ev_flags
    BY <2>2 DEF Connection, States, conn_release_items
  <2>. HIDE DEF sent
  <2>. QED
    BY <2>1, <2>2, <2>3, TransmitRests
<1>. QED
  BY <1>2, <1>3, <1>4, <1>5, <1>6, <1>7, <1>8

LEMMA TurnKeepsAwake ==
  ASSUME IInv, Awake, NEW t \in Threads, Turn(t), Rests(t)
  PROVE  Awake'
<1>. DEFINE f == loop[t].fd
<1>1. PICK d : conns' = [conns EXCEPT ![f] = d] /\ Resting(d) /\ (loop'[t] = None => Waits(d))
  BY DEF Rests, Becomes
<1>2. PICK call \in Call \cup {None} :
        /\ loop' = [loop EXCEPT ![t] = call]
        /\ call # None => call.fd = f /\ call.at = "drive"
  BY DEF Turn
<1>3. /\ loop[t] # None /\ loop[t].at = "drive" /\ f \in Fds
      /\ loop \in [Threads -> Call \cup {None}] /\ conns \in [Fds -> Connection]
  BY DEF Turn, IInv, Typed, Call
<1>4. /\ \A u \in Threads : u # t => loop'[u] = loop[u]
      /\ loop'[t] # None => loop'[t].fd = f /\ loop'[t].at = "drive"
      /\ conns'[f] = d /\ \A g \in Fds : g # f => conns'[g] = conns[g]
  BY <1>1, <1>2, <1>3
<1>5. \A g \in Fds : g # f /\ Driven(g) => Driven(g)'
  BY <1>3, <1>4 DEF Driven
<1>6. loop'[t] # None => Driven(f)'
  BY <1>4 DEF Driven
<1>7. \A g \in Fds : g # f => (Live(g)' <=> Live(g))
  BY <1>4 DEF Live
<1>. QED
  BY <1>1, <1>3, <1>4, <1>5, <1>6, <1>7 DEF Awake

\* Steps that leave the connections, and who is driven.
LEMMA OthersKeepAwake ==
  ASSUME Awake, UNCHANGED conns, \A f \in Fds : Driven(f) => Driven(f)'
  PROVE  Awake'
BY DEF Awake, Live

LEMMA StepAwake == IInv /\ Awake /\ [Next]_vars => Awake'
<1>. SUFFICES ASSUME IInv, Awake, [Next]_vars
              PROVE  Awake'
  OBVIOUS
<1>1. ASSUME UNCHANGED <<conns, loop>>
      PROVE  Awake'
  <2>1. \A f \in Fds : Driven(f) => Driven(f)'
    BY <1>1 DEF Driven
  <2>. QED
    BY <1>1, <2>1, OthersKeepAwake
<1>2. CASE Listener \/ (\E i \in Clients : Client(i)) \/ UNCHANGED vars
  BY <1>1, <1>2 DEF Listener, accept, OutOfDescriptors, stop_accepting, maxconns_handler, workers, Client, server, vars
<1>3. ASSUME NEW t \in Threads, Worker(t)
      PROVE  Awake'
  <2>1. CASE event_base_loop(t)
    BY <1>1, <2>1 DEF event_base_loop
  <2>2. CASE thread_libevent_process(t)
    <3>. DEFINE f == Head(new_conn_queue[t])
                d == [Closed EXCEPT !.state = "new_cmd", !.ev_flags = "read", !.thread = t]
    <3>1. conns' = [conns EXCEPT ![f] = d] /\ UNCHANGED loop
      BY <2>2 DEF thread_libevent_process
    <3>2. f \in Fds
      <4>1. new_conn_queue[t] \in Seq(Fds) /\ new_conn_queue[t] # <<>>
        BY <2>2 DEF thread_libevent_process, IInv, Typed, Accounting, Events
      <4>. QED
        BY <4>1
    <3>3. d.ev_flags = "read" /\ d.state = "new_cmd" /\ d.rbuf = <<>>
      BY DEF Closed
    <3>. HIDE DEF d, f
    <3>4. Resting(d) /\ Waits(d)
      BY <3>3 DEF Resting, Waits, Ends
    <3>5. conns'[f] = d /\ \A g \in Fds : g # f => conns'[g] = conns[g]
      BY <3>1, <3>2 DEF IInv, Typed
    <3>6. \A g \in Fds : Driven(g) => Driven(g)'
      BY <3>1 DEF Driven
    <3>. QED
      BY <3>4, <3>5, <3>6 DEF Awake, Live
  <2>3. ASSUME NEW f \in Fds, event_handler(t, f)
        PROVE  Awake'
    <3>1. loop[t] = None /\ UNCHANGED conns /\ \A u \in Threads : u # t => loop'[u] = loop[u]
      BY <2>3 DEF event_handler, IInv, Typed
    <3>2. \A g \in Fds : Driven(g) => Driven(g)'
      BY <3>1 DEF Driven
    <3>. QED
      BY <3>1, <3>2, OthersKeepAwake
  <2>4. CASE \/ conn_read(t) \/ conn_parse_cmd(t) \/ conn_new_cmd(t)
             \/ conn_nread(t) \/ conn_swallow(t) \/ conn_write(t) \/ conn_mwrite(t)
    <3>1. Turn(t)
      BY <2>4, ReadTurn, ParseTurn, NewCmdTurn, NreadTurn, SwallowTurn, WriteTurn, MwriteTurn
    <3>2. Rests(t)
      BY <2>4, TurnRests
    <3>. QED
      BY <3>1, <3>2, TurnKeepsAwake
  <2>5. CASE conn_cleanup(t)
    <3>1. loop[t] # None /\ loop[t].fd \in Fds
      <4>1. Driving(t, "closing")
        BY <2>5 DEF conn_cleanup
      <4>. QED
        BY <4>1, AtHand
    <3>2. PICK f \in Fds : f = loop[t].fd
      BY <3>1
    <3>. DEFINE d == [Closed EXCEPT !.item = conn_release_items(conns[f]).item,
                                    !.ileft = conn_release_items(conns[f]).ileft]
    <3>3. /\ conns' = [conns EXCEPT ![f] = d] /\ conns \in [Fds -> Connection]
          /\ \A u \in Threads : u # t => loop'[u] = loop[u]
      BY <2>5, <3>2 DEF conn_cleanup, Becomes, Proceed, IInv, Typed
    <3>4. d.state = "closed"
      BY DEF Closed
    <3>. HIDE DEF d
    <3>5. conns'[f].state = "closed" /\ \A g \in Fds : g # f => conns'[g] = conns[g]
      BY <3>3, <3>4
    <3>6. \A g \in Fds : g # f /\ Driven(g) => Driven(g)'
      BY <3>2, <3>3 DEF Driven
    <3>. QED
      BY <3>5, <3>6 DEF Awake, Live
  <2>6. CASE conn_close(t) \/ conn_close_allow(t) \/ conn_close_count(t)
    <3>1. loop[t].at # "drive" /\ UNCHANGED conns /\ \A u \in Threads : u # t => loop'[u] = loop[u]
      BY <2>6 DEF conn_close, conn_close_allow, conn_close_count, Closing, Proceed, Stop, IInv, Typed
    <3>2. \A g \in Fds : Driven(g) => Driven(g)'
      BY <3>1 DEF Driven
    <3>. QED
      BY <3>1, <3>2, OthersKeepAwake
  <2>. QED
    BY <1>3, <2>1, <2>2, <2>3, <2>4, <2>5, <2>6 DEF Worker, drive_machine
<1>. QED
  BY <1>2, <1>3 DEF Next

\* A connection nobody drives waits for an event that will come, and leaves no command
\* in its buffer behind (conn_new_cmd, conn_waiting, update_event).
THEOREM WakeableHolds == Spec => []Wakeable
<1>1. Init => Awake
  BY DEF Init, Awake, Live, Closed
<1>2. Awake => Wakeable
  BY DEF Awake, Waits, Wakeable
<1>. QED
  BY <1>1, <1>2, InvariantHolds, StepAwake, PTL DEF Spec

-----------------------------------------------------------------------------
(***************************************************************************)
(* The count of connections.                                               *)
(***************************************************************************)
Lives == {f \in Fds : Live(f)}
Ending(t) == loop[t] # None /\ loop[t].at # "drive"
Enders == {t \in Threads : Ending(t)}

\* There are as many connections as have been made and not been closed, however many
\* descriptors the process might have.
Counted ==
  /\ maxconns_fast \in BOOLEAN /\ allow_new_conns \in BOOLEAN
  /\ listener \in [listening : BOOLEAN, timer : BOOLEAN, full : BOOLEAN]
  /\ IsFiniteSet(Lives) /\ IsFiniteSet(Enders)
  /\ curr_conns = Cardinality(Lives) + Cardinality(Enders)

LEMMA OneMore ==
  ASSUME NEW S, NEW T, NEW x, IsFiniteSet(T), x \in S, x \notin T, S = T \cup {x}
  PROVE  IsFiniteSet(S) /\ Cardinality(S) = Cardinality(T) + 1 /\ Cardinality(T) \in Nat
BY FS_AddElement, FS_CardinalityType

LEMMA OneLess ==
  ASSUME NEW S, NEW T, NEW x, IsFiniteSet(S), x \in S, T = S \ {x}
  PROVE  IsFiniteSet(T) /\ Cardinality(T) = Cardinality(S) - 1 /\ Cardinality(S) \in Nat
BY FS_RemoveElement, FS_CardinalityType

\* What the count is of and what the listener does to itself are all there is to it.
LEMMA CountKept ==
  ASSUME Counted, UNCHANGED curr_conns, UNCHANGED <<maxconns_fast, listener, allow_new_conns>>,
         \A f \in Fds : Live(f)' <=> Live(f), \A t \in Threads : Ending(t)' <=> Ending(t)
  PROVE  Counted'
<1>1. Lives' = Lives /\ Enders' = Enders
  BY DEF Lives, Enders
<1>. QED
  BY <1>1 DEF Counted

LEMMA InitCounted == Init => Counted
<1>. SUFFICES ASSUME Init
              PROVE  Counted
  OBVIOUS
<1>1. Lives = {} /\ Enders = {}
  BY DEF Init, Lives, Enders, Live, Ending, Closed
<1>2. IsFiniteSet({}) /\ Cardinality({}) = 0
  BY FS_EmptySet
<1>. QED
  BY <1>1, <1>2 DEF Init, Counted

\* A turn keeps its connection, and its call unless that is over.
LEMMA TurnCounts ==
  ASSUME IInv, Counted, NEW t \in Threads, Turn(t), Elsewhere
  PROVE  Counted'
<1>. DEFINE f == loop[t].fd
<1>1. PICK d \in Connection : d.state # "closed" /\ conns' = [conns EXCEPT ![f] = d]
  BY DEF Turn
<1>2. PICK call \in Call \cup {None} :
        /\ loop' = [loop EXCEPT ![t] = call]
        /\ call # None => call.fd = f /\ call.at = "drive"
  BY DEF Turn
<1>3. /\ loop[t] # None /\ loop[t].at = "drive" /\ f \in Fds
      /\ loop \in [Threads -> Call \cup {None}] /\ conns \in [Fds -> Connection]
  BY DEF Turn, IInv, Typed, Call
<1>4. Live(f)
  BY <1>3 DEF IInv, Accounting, DriveCalls
<1>5. \A g \in Fds : Live(g)' <=> Live(g)
  BY <1>1, <1>3, <1>4 DEF Live
<1>6. \A u \in Threads : Ending(u)' <=> Ending(u)
  BY <1>2, <1>3 DEF Ending
<1>. QED
  BY <1>5, <1>6, CountKept DEF Elsewhere, accepting

\* A connection is made.
LEMMA ProcessCounts ==
  ASSUME IInv, Counted, NEW t \in Threads, thread_libevent_process(t)
  PROVE  Counted'
<1>. DEFINE q == new_conn_queue[t]
            f == Head(q)
            d == [Closed EXCEPT !.state = "new_cmd", !.ev_flags = "read", !.thread = t]
<1>1. /\ Pipe \in active[t] /\ conns' = [conns EXCEPT ![f] = d] /\ curr_conns' = curr_conns + 1
      /\ UNCHANGED <<allow_new_conns, loop, maxconns_fast, listener>>
  BY DEF thread_libevent_process, accepting
<1>2. q \in Seq(Fds) /\ q # <<>> /\ conns \in [Fds -> Connection]
  BY <1>1 DEF IInv, Typed, Accounting, Events
<1>3. f \in Fds /\ f = q[1] /\ 1 \in DOMAIN q
  BY <1>2
<1>4. ~Live(f)
  BY <1>3 DEF IInv, Accounting, Queues
<1>5. d.state # "closed"
  BY DEF Closed
<1>. HIDE DEF d, f
<1>6. Lives' = Lives \cup {f} /\ f \in Lives' /\ f \notin Lives
  BY <1>1, <1>2, <1>3, <1>4, <1>5 DEF Lives, Live
<1>7. Enders' = Enders
  BY <1>1 DEF Enders, Ending
<1>8. IsFiniteSet(Lives) /\ IsFiniteSet(Enders)
  BY DEF Counted
<1>9. /\ IsFiniteSet(Lives') /\ Cardinality(Lives') = Cardinality(Lives) + 1
      /\ Cardinality(Lives) \in Nat /\ Cardinality(Enders) \in Nat
  BY <1>6, <1>8, OneMore, FS_CardinalityType
<1>. QED
  BY <1>1, <1>7, <1>9 DEF Counted

\* A connection ends and is still counted, for the thread that ends it.
LEMMA CleanupCounts ==
  ASSUME IInv, Counted, NEW t \in Threads, conn_cleanup(t)
  PROVE  Counted'
<1>. DEFINE f == loop[t].fd
            after == conn_release_items(conns[f])
            d == [Closed EXCEPT !.item = after.item, !.ileft = after.ileft]
<1>1. /\ Driving(t, "closing") /\ conns' = [conns EXCEPT ![f] = d]
      /\ loop' = [loop EXCEPT ![t].at = "cleaned"]
      /\ UNCHANGED <<curr_conns, allow_new_conns, maxconns_fast, listener>>
  BY DEF conn_cleanup, Becomes, Proceed, Elsewhere, accepting
<1>2. /\ loop[t] # None /\ loop[t] \in Call /\ loop[t].at = "drive" /\ f \in Fds
      /\ loop \in [Threads -> Call \cup {None}] /\ conns \in [Fds -> Connection]
  BY <1>1, AtHand DEF IInv, Typed
<1>3. Live(f)
  BY <1>2 DEF IInv, Accounting, DriveCalls
<1>4. d.state = "closed"
  BY DEF Closed
<1>. HIDE DEF d
<1>5. Lives' = Lives \ {f} /\ f \in Lives
  BY <1>1, <1>2, <1>3, <1>4 DEF Lives, Live
<1>6. Ending(t)' /\ ~Ending(t)
  <2>1. loop'[t] = [loop[t] EXCEPT !.at = "cleaned"]
    BY <1>1, <1>2
  <2>2. loop'[t] \in Call /\ loop'[t].at = "cleaned"
    BY <1>2, <2>1 DEF Call
  <2>. QED
    BY <1>2, <2>2, NoneIsNoCall DEF Ending
<1>7. \A u \in Threads : u # t => loop'[u] = loop[u]
  BY <1>1, <1>2
<1>8. Enders' = Enders \cup {t} /\ t \in Enders' /\ t \notin Enders
  BY <1>6, <1>7 DEF Enders, Ending
<1>9. IsFiniteSet(Lives) /\ IsFiniteSet(Enders)
  BY DEF Counted
<1>10. /\ IsFiniteSet(Lives') /\ Cardinality(Lives') = Cardinality(Lives) - 1 /\ Cardinality(Lives) \in Nat
  BY <1>5, <1>9, OneLess
<1>11. /\ IsFiniteSet(Enders') /\ Cardinality(Enders') = Cardinality(Enders) + 1 /\ Cardinality(Enders) \in Nat
  BY <1>8, <1>9, OneMore
<1>. QED
  BY <1>1, <1>10, <1>11 DEF Counted

\* conn_close_count: it is no longer counted.
LEMMA CloseCounts ==
  ASSUME IInv, Counted, NEW t \in Threads, conn_close_count(t)
  PROVE  Counted'
<1>1. /\ loop[t] # None /\ loop[t].at = "allowed" /\ loop' = [loop EXCEPT ![t] = None]
      /\ curr_conns' = curr_conns - 1
      /\ UNCHANGED <<conns, allow_new_conns, maxconns_fast, listener>>
  BY DEF conn_close_count, Closing, Stop, accepting
<1>2. loop \in [Threads -> Call \cup {None}]
  BY DEF IInv, Typed
<1>3. Lives' = Lives
  BY <1>1 DEF Lives, Live
<1>4. Enders' = Enders \ {t} /\ t \in Enders
  BY <1>1, <1>2 DEF Enders, Ending
<1>5. IsFiniteSet(Lives) /\ IsFiniteSet(Enders)
  BY DEF Counted
<1>6. /\ IsFiniteSet(Enders') /\ Cardinality(Enders') = Cardinality(Enders) - 1 /\ Cardinality(Enders) \in Nat
      /\ Cardinality(Lives) \in Nat
  BY <1>4, <1>5, OneLess, FS_CardinalityType
<1>. QED
  BY <1>1, <1>3, <1>6 DEF Counted

LEMMA StepCounted == IInv /\ Counted /\ [Next]_vars => Counted'
<1>. SUFFICES ASSUME IInv, Counted, [Next]_vars
              PROVE  Counted'
  OBVIOUS
<1>1. ASSUME UNCHANGED <<conns, loop, curr_conns, maxconns_fast>>, allow_new_conns' \in BOOLEAN,
             listener' \in [listening : BOOLEAN, timer : BOOLEAN, full : BOOLEAN]
      PROVE  Counted'
  <2>1. Lives' = Lives /\ Enders' = Enders
    BY <1>1 DEF Lives, Enders, Live, Ending
  <2>. QED
    BY <1>1, <2>1 DEF Counted
<1>2. CASE Listener
  <2>1. CASE \E i \in Clients : accept(i)
    BY <1>1, <2>1 DEF accept, workers, Counted
  <2>2. CASE OutOfDescriptors
    BY <1>1, <2>2 DEF OutOfDescriptors, workers, Counted
  <2>3. CASE stop_accepting
    BY <1>1, <2>3 DEF stop_accepting, workers, Counted
  <2>4. CASE maxconns_handler
    BY <1>1, <2>4 DEF maxconns_handler, workers, Counted
  <2>. QED
    BY <1>2, <2>1, <2>2, <2>3, <2>4 DEF Listener
<1>3. CASE (\E i \in Clients : Client(i)) \/ UNCHANGED vars
  BY <1>1, <1>3 DEF Client, server, vars, Counted
<1>4. ASSUME NEW t \in Threads, Worker(t)
      PROVE  Counted'
  <2>1. CASE event_base_loop(t)
    BY <1>1, <2>1 DEF event_base_loop, accepting, Counted
  <2>2. CASE thread_libevent_process(t)
    BY <2>2, ProcessCounts
  <2>3. ASSUME NEW f \in Fds, event_handler(t, f)
        PROVE  Counted'
    <3>. DEFINE call == [fd |-> f, nreqs |-> ReqsPerEvent, at |-> "drive"]
    <3>1. /\ loop[t] = None /\ loop' = [loop EXCEPT ![t] = call] /\ loop \in [Threads -> Call \cup {None}]
          /\ UNCHANGED <<conns, curr_conns, maxconns_fast, listener, allow_new_conns>>
      BY <2>3 DEF event_handler, accepting, IInv, Typed
    <3>2. call.at = "drive"
      OBVIOUS
    <3>. HIDE DEF call
    <3>3. \A u \in Threads : Ending(u)' <=> Ending(u)
      BY <3>1, <3>2, SMTT(30) DEF Ending
    <3>. QED
      BY <3>1, <3>3, CountKept DEF Live
  <2>4. CASE \/ conn_read(t) \/ conn_parse_cmd(t) \/ conn_new_cmd(t)
             \/ conn_nread(t) \/ conn_swallow(t) \/ conn_write(t) \/ conn_mwrite(t)
    <3>1. Turn(t)
      BY <2>4, ReadTurn, ParseTurn, NewCmdTurn, NreadTurn, SwallowTurn, WriteTurn, MwriteTurn
    <3>2. Elsewhere
      BY <2>4 DEF conn_read, conn_parse_cmd, conn_new_cmd, conn_nread, conn_swallow, conn_write, conn_mwrite
    <3>. QED
      BY <3>1, <3>2, TurnCounts, SMTT(30)
  <2>5. CASE conn_cleanup(t)
    BY <2>5, CleanupCounts
  <2>6. ASSUME NEW from \in {"cleaned", "closed"}, NEW at \in {"closed", "allowed"},
               Closing(t, from), Proceed(t, at),
               UNCHANGED <<conns, curr_conns, maxconns_fast, listener>>, allow_new_conns' \in BOOLEAN
        PROVE  Counted'
    <3>1. /\ loop[t] # None /\ loop[t].at # "drive" /\ loop[t] \in Call
          /\ loop \in [Threads -> Call \cup {None}] /\ loop' = [loop EXCEPT ![t].at = at]
      BY <2>6 DEF Closing, Proceed, IInv, Typed
    <3>2. loop'[t] = [loop[t] EXCEPT !.at = at]
      BY <3>1
    <3>3. loop'[t] \in Call /\ loop'[t].at # "drive"
      BY <2>6, <3>1, <3>2 DEF Call
    <3>4. \A u \in Threads : Ending(u)' <=> Ending(u)
      BY <3>1, <3>3, NoneIsNoCall DEF Ending
    <3>5. Lives' = Lives /\ Enders' = Enders
      BY <2>6, <3>4 DEF Lives, Enders, Live
    <3>. QED
      BY <2>6, <3>5 DEF Counted
  <2>7. CASE conn_close(t)
    BY <2>6, <2>7 DEF conn_close, Elsewhere, accepting, Counted
  <2>8. CASE conn_close_allow(t)
    BY <2>6, <2>8 DEF conn_close_allow, accepting
  <2>9. CASE conn_close_count(t)
    BY <2>9, CloseCounts
  <2>. QED
    BY <1>4, <2>1, <2>2, <2>3, <2>4, <2>5, <2>7, <2>8, <2>9 DEF Worker, drive_machine
<1>. QED
  BY <1>2, <1>3, <1>4 DEF Next

\* The count that turns clients away is that of the connections and of those being closed,
\* whichever thread makes or closes them (thread_libevent_process, conn_close).
THEOREM ConnsCountedHolds == Spec => []ConnsCounted
<1>1. IInv /\ Counted => ConnsCounted
  <2>. SUFFICES ASSUME IInv, Counted
                PROVE  ConnsCounted
    OBVIOUS
  <2>1. Cardinality(Lives) \in Nat /\ Cardinality(Enders) \in Nat
    BY FS_CardinalityType DEF Counted
  <2>2. TypeOK
    BY <2>1 DEF IInv, Typed, TypeOK, Counted
  <2>. QED
    BY <2>2 DEF ConnsCounted, Counted, Lives, Enders, Ending
<1>. QED
  BY <1>1, InitCounted, StepCounted, InvariantHolds, PTL DEF Spec

-----------------------------------------------------------------------------
(***************************************************************************)
(* The replies.                                                            *)
(***************************************************************************)
Uploads == {"set", "set noreply"}
Noreply(kind) == kind = "set noreply"

\* The piece that comes after another one in a client's stream.
After(p, sent) ==
  CASE p.part = "half" -> [of |-> p.of, part |-> "end"]
    [] p.part = "end" /\ sent[p.of] \in Uploads -> [of |-> p.of, part |-> "data"]
    [] OTHER -> [of |-> p.of + 1, part |-> "half"]

Fits(p, sent) ==
  /\ p.of \in 1..(Len(sent) + 1)
  /\ p.part # "half" => p.of <= Len(sent)
  /\ p.part = "data" => sent[p.of] \in Uploads

Chain(S, sent) ==
  \A k \in 1..Len(S) : Fits(S[k], sent) /\ (k < Len(S) => S[k + 1] = After(S[k], sent))

\* What a connection has still to read: to the end the request the client would send next.
Expected(d) == IF d.at = "open" THEN <<[of |-> Len(d.sent) + 1, part |-> "half"]>> ELSE <<>>
Coming(d) == d.rest \o Expected(d)
Stream(c, d) == c.rbuf \o (d.net \o Coming(d))
Begins(S, n, part) == S # <<>> => S[1] = [of |-> n, part |-> part]

\* The reply being sent counts.
Replies(c, d) == (d.got \o d.sock) \o (IF c.state \in {"write", "mwrite"} THEN <<c.out>> ELSE <<>>)

Errors(R) == {k \in DOMAIN R : R[k] = Error}
Noreplies(sent, n) == {m \in 1..n : Noreply(sent[m])}

\* The replies to the first n requests; more errors may come.
Answered(R, sent, n, more) ==
  /\ n \in 0..Len(sent) /\ more \in {0, 1}
  /\ \A j, k \in DOMAIN R : j < k /\ R[j] # Error /\ R[k] # Error => R[j] < R[k]
  /\ \A k \in DOMAIN R : R[k] # Error => R[k] \in 1..n /\ Owing(sent[R[k]])
  /\ \A m \in 1..n : Owing(sent[m]) => \E k \in DOMAIN R : R[k] = m
  /\ Cardinality(Errors(R)) + more <= Cardinality(Noreplies(sent, n))

\* Where in the stream a connection is that has dealt with n requests.
Reading(c, S, sent, n, more) ==
  CASE c.state = "nread" ->
         /\ n < Len(sent) /\ c.item = n + 1 /\ sent[n + 1] \in Uploads /\ more = 0
         /\ c.noreply <=> Noreply(sent[n + 1])
         /\ IF c.rlbytes = 1 THEN Begins(S, n + 1, "data") ELSE Begins(S, n + 2, "half")
    [] c.state = "swallow" \/ (c.state = "write" /\ c.write_and_go = "swallow") ->
         /\ ~c.noreply /\ more = 0
         /\ IF c.sbytes = 1 THEN Begins(S, n, "data") ELSE Begins(S, n + 1, "half")
    [] OTHER ->
         /\ ~c.noreply
         /\ IF more = 1 THEN c.state \notin {"write", "mwrite"} /\ Begins(S, n, "data")
                        ELSE Begins(S, n + 1, "half")

InTurn(c, d) ==
  /\ Chain(Stream(c, d), d.sent)
  /\ \E n \in 0..Len(d.sent), more \in {0, 1} :
       Answered(Replies(c, d), d.sent, n, more) /\ Reading(c, Stream(c, d), d.sent, n, more)

\* Replies to a client that has gone are lost when its socket is full.
Lost(d) == d.at = "left" /\ Len(d.sock) >= SocketRoom
Serves(c, d) == d.at \in {"open", "left"} /\ (Lost(d) \/ InTurn(c, d))

Peers ==
  /\ \A f, g \in Fds : owner[f] # None /\ owner[f] = owner[g] => f = g
  /\ \A f \in Fds : owner[f] # None => client[owner[f]].at \in {"open", "left"}
  /\ \A i \in Clients : client[i].at \in {"new", "backlog"} => client[i] = At(client[i].at)

Serving ==
  \A f \in Fds :
    /\ Queued(f) => Serves(Closed, Peer(f))
    /\ Live(f) /\ conns[f].state # "closing" => Serves(conns[f], Peer(f))

RInv == Peers /\ Serving /\ RepliesInOrder

-----------------------------------------------------------------------------
(* What has been answered. *)

LEMMA ErrorsFinite ==
  ASSUME NEW R \in Seq(Nat)
  PROVE  IsFiniteSet(Errors(R)) /\ Cardinality(Errors(R)) \in Nat
<1>1. Errors(R) \in SUBSET (1..Len(R)) /\ Len(R) \in Nat
  BY DEF Errors
<1>2. IsFiniteSet(1..Len(R))
  BY <1>1, FS_Interval
<1>. QED
  BY <1>1, <1>2, FS_Subset, FS_CardinalityType

LEMMA NorepliesFinite ==
  ASSUME NEW sent, NEW n \in Nat
  PROVE  IsFiniteSet(Noreplies(sent, n)) /\ Cardinality(Noreplies(sent, n)) \in Nat
<1>1. Noreplies(sent, n) \in SUBSET (1..n)
  BY DEF Noreplies
<1>2. IsFiniteSet(1..n)
  BY FS_Interval
<1>. QED
  BY <1>1, <1>2, FS_Subset, FS_CardinalityType

\* One more reply.
LEMMA MoreReplies ==
  ASSUME NEW R \in Seq(Nat), NEW r \in Nat
  PROVE  /\ R \o <<r>> \in Seq(Nat) /\ Len(R \o <<r>>) = Len(R) + 1
         /\ (R \o <<r>>)[Len(R) + 1] = r /\ \A k \in 1..Len(R) : (R \o <<r>>)[k] = R[k]
         /\ r # Error => Errors(R \o <<r>>) = Errors(R)
         /\ r = Error => Cardinality(Errors(R \o <<r>>)) = Cardinality(Errors(R)) + 1
<1>. DEFINE T == R \o <<r>>
<1>1. T \in Seq(Nat) /\ Len(T) = Len(R) + 1 /\ T[Len(R) + 1] = r /\ \A k \in 1..Len(R) : T[k] = R[k]
  <2>1. <<r>> \in Seq(Nat) /\ Len(<<r>>) = 1 /\ <<r>>[1] = r
    OBVIOUS
  <2>. QED
    BY <2>1, ConcatProperties
<1>2. Len(R) \in Nat /\ DOMAIN R = 1..Len(R) /\ DOMAIN T = 1..Len(T)
  BY <1>1
<1>. HIDE DEF T
<1>3. r # Error => Errors(T) = Errors(R)
  BY <1>1, <1>2 DEF Errors
<1>4. ASSUME r = Error
      PROVE  Cardinality(Errors(T)) = Cardinality(Errors(R)) + 1
  <2>1. Errors(T) = Errors(R) \cup {Len(R) + 1} /\ Len(R) + 1 \notin Errors(R)
    BY <1>1, <1>2, <1>4 DEF Errors
  <2>. QED
    BY <2>1, ErrorsFinite, FS_AddElement
<1>. QED
  BY <1>1, <1>3, <1>4 DEF T

LEMMA NorepliesNext ==
  ASSUME NEW sent, NEW n \in Nat
  PROVE  Cardinality(Noreplies(sent, n + 1))
           = Cardinality(Noreplies(sent, n)) + (IF Noreply(sent[n + 1]) THEN 1 ELSE 0)
<1>1. CASE Noreply(sent[n + 1])
  <2>1. Noreplies(sent, n + 1) = Noreplies(sent, n) \cup {n + 1} /\ n + 1 \notin Noreplies(sent, n)
    BY <1>1 DEF Noreplies
  <2>. QED
    BY <1>1, <2>1, NorepliesFinite, FS_AddElement
<1>2. CASE ~Noreply(sent[n + 1])
  <2>1. Noreplies(sent, n + 1) = Noreplies(sent, n)
    BY <1>2 DEF Noreplies
  <2>. QED
    BY <1>2, <2>1, NorepliesFinite
<1>. QED
  BY <1>1, <1>2

\* The next request is answered,
LEMMA AnsweredNext ==
  ASSUME NEW R \in Seq(Nat), NEW sent \in Seq(AllKinds), NEW n, Answered(R, sent, n, 0),
         n < Len(sent), Owing(sent[n + 1])
  PROVE  Answered(R \o <<n + 1>>, sent, n + 1, 0)
<1>. DEFINE T == R \o <<n + 1>>
<1>1. n \in Nat /\ Len(sent) \in Nat /\ n + 1 \in 0..Len(sent) /\ n + 1 # Error
  BY DEF Answered, Error
<1>2. /\ T \in Seq(Nat) /\ Len(T) = Len(R) + 1 /\ Len(R) \in Nat
      /\ T[Len(R) + 1] = n + 1 /\ \A k \in 1..Len(R) : T[k] = R[k]
      /\ Errors(T) = Errors(R)
  BY <1>1, MoreReplies
<1>3. DOMAIN R = 1..Len(R) /\ DOMAIN T = 1..(Len(R) + 1)
  BY <1>2
<1>. HIDE DEF T
<1>4. ASSUME NEW j \in DOMAIN T, NEW k \in DOMAIN T, j < k, T[j] # Error, T[k] # Error
      PROVE  T[j] < T[k]
  <2>1. CASE k = Len(R) + 1
    <3>1. j \in DOMAIN R /\ T[j] = R[j]
      BY <1>2, <1>3, <1>4, <2>1
    <3>2. R[j] \in 1..n
      BY <1>4, <3>1 DEF Answered
    <3>. QED
      BY <1>1, <1>2, <2>1, <3>1, <3>2
  <2>2. CASE k # Len(R) + 1
    <3>1. j \in DOMAIN R /\ k \in DOMAIN R /\ T[j] = R[j] /\ T[k] = R[k]
      BY <1>2, <1>3, <1>4, <2>2
    <3>. QED
      BY <1>4, <3>1 DEF Answered
  <2>. QED
    BY <2>1, <2>2
<1>5. ASSUME NEW k \in DOMAIN T, T[k] # Error
      PROVE  T[k] \in 1..(n + 1) /\ Owing(sent[T[k]])
  <2>1. CASE k = Len(R) + 1
    BY <1>1, <1>2, <2>1
  <2>2. CASE k # Len(R) + 1
    <3>1. k \in DOMAIN R /\ T[k] = R[k]
      BY <1>2, <1>3, <2>2
    <3>2. R[k] \in 1..n /\ Owing(sent[R[k]])
      BY <1>5, <3>1 DEF Answered
    <3>. QED
      BY <1>1, <3>1, <3>2
  <2>. QED
    BY <2>1, <2>2
<1>6. ASSUME NEW m \in 1..(n + 1), Owing(sent[m])
      PROVE  \E k \in DOMAIN T : T[k] = m
  <2>1. CASE m = n + 1
    <3>1. PICK k : k = Len(R) + 1
      OBVIOUS
    <3>2. k \in DOMAIN T /\ T[k] = m
      BY <1>2, <1>3, <2>1, <3>1
    <3>. QED
      BY <3>2
  <2>2. CASE m # n + 1
    <3>1. m \in 1..n
      BY <1>1, <2>2
    <3>2. PICK k \in DOMAIN R : R[k] = m
      BY <1>6, <3>1 DEF Answered
    <3>. QED
      BY <1>2, <1>3, <3>2
  <2>. QED
    BY <2>1, <2>2
<1>7. Cardinality(Errors(T)) + 0 <= Cardinality(Noreplies(sent, n + 1))
  <2>1. ~Noreply(sent[n + 1])
    BY DEF Owing, Noreply
  <2>2. Cardinality(Noreplies(sent, n + 1)) = Cardinality(Noreplies(sent, n))
    BY <1>1, <2>1, NorepliesNext, NorepliesFinite
  <2>. QED
    BY <1>2, <2>2 DEF Answered
<1>. QED
  BY <1>1, <1>4, <1>5, <1>6, <1>7 DEF Answered, T

\* or needs none,
LEMMA AnsweredNone ==
  ASSUME NEW R \in Seq(Nat), NEW sent \in Seq(AllKinds), NEW n, Answered(R, sent, n, 0),
         n < Len(sent), ~Owing(sent[n + 1]), NEW more \in {0, 1}, more = 1 => Noreply(sent[n + 1])
  PROVE  Answered(R, sent, n + 1, more)
<1>1. n \in Nat /\ Len(sent) \in Nat /\ n + 1 \in 0..Len(sent)
  BY DEF Answered
<1>2. \A k \in DOMAIN R : R[k] # Error => R[k] \in 1..(n + 1) /\ Owing(sent[R[k]])
  BY <1>1 DEF Answered
<1>3. \A m \in 1..(n + 1) : Owing(sent[m]) => m \in 1..n
  BY <1>1
<1>4. Cardinality(Errors(R)) + more <= Cardinality(Noreplies(sent, n + 1))
  <2>1. PICK e \in Nat, a \in Nat, b \in Nat :
          e = Cardinality(Errors(R)) /\ a = Cardinality(Noreplies(sent, n)) /\ b = Cardinality(Noreplies(sent, n + 1))
    BY <1>1, ErrorsFinite, NorepliesFinite
  <2>2. b >= a + more
    <3>1. CASE Noreply(sent[n + 1])
      <4>1. b = a + 1
        BY <1>1, <2>1, <3>1, NorepliesNext
      <4>. QED
        BY <2>1, <4>1
    <3>2. CASE ~Noreply(sent[n + 1])
      <4>1. b = a + 0
        BY <1>1, <2>1, <3>2, NorepliesNext
      <4>2. more = 0
        BY <3>2
      <4>. QED
        BY <2>1, <4>1, <4>2
    <3>. QED
      BY <3>1, <3>2
  <2>3. e + 0 <= a
    BY <2>1 DEF Answered
  <2>4. e + more <= b
    BY <2>1, <2>2, <2>3
  <2>. QED
    BY <2>1, <2>4
<1>. QED
  BY <1>1, <1>2, <1>3, <1>4 DEF Answered

\* or the data of a refused one is.
LEMMA AnsweredError ==
  ASSUME NEW R \in Seq(Nat), NEW sent \in Seq(AllKinds), NEW n, Answered(R, sent, n, 1)
  PROVE  Answered(R \o <<Error>>, sent, n, 0)
<1>. DEFINE T == R \o <<Error>>
<1>1. n \in Nat /\ Error \in Nat
  BY DEF Answered, Error
<1>2. /\ T \in Seq(Nat) /\ Len(T) = Len(R) + 1 /\ Len(R) \in Nat
      /\ T[Len(R) + 1] = Error /\ \A k \in 1..Len(R) : T[k] = R[k]
      /\ Cardinality(Errors(T)) = Cardinality(Errors(R)) + 1
  BY <1>1, MoreReplies
<1>3. DOMAIN R = 1..Len(R) /\ DOMAIN T = 1..(Len(R) + 1)
  BY <1>2
<1>. HIDE DEF T
<1>4. \A k \in DOMAIN T : T[k] # Error => k \in DOMAIN R /\ T[k] = R[k]
  BY <1>2, <1>3
<1>5. \A k \in DOMAIN R : k \in DOMAIN T /\ T[k] = R[k]
  BY <1>2, <1>3
<1>6. Cardinality(Errors(T)) + 0 <= Cardinality(Noreplies(sent, n))
  BY <1>1, <1>2, ErrorsFinite, NorepliesFinite DEF Answered
<1>. QED
  BY <1>4, <1>5, <1>6 DEF Answered, T

\* So far the replies are in order, without the last one as well.
LEMMA AnsweredInOrder ==
  ASSUME NEW R \in Seq(Nat), NEW sent \in Seq(AllKinds), NEW n, NEW more, Answered(R, sent, n, more),
         NEW T \in Seq(Nat), NEW U \in Seq(Nat), R = T \o U, Len(U) <= 1
  PROVE  InOrder(T, sent)
<1>1. n \in Nat /\ n <= Len(sent) /\ Len(sent) \in Nat /\ DOMAIN sent = 1..Len(sent)
  BY DEF Answered
<1>2. /\ DOMAIN R = 1..Len(R) /\ DOMAIN T = 1..Len(T) /\ Len(T) \in Nat /\ Len(R) = Len(T) + Len(U)
      /\ Len(U) \in Nat /\ \A k \in 1..Len(T) : R[k] = T[k]
  BY ConcatProperties
<1>3. \A k \in DOMAIN T : k \in DOMAIN R /\ T[k] = R[k]
  BY <1>2
<1>4. ASSUME NEW k \in DOMAIN T, T[k] # Error
      PROVE  /\ T[k] \in DOMAIN sent /\ Owing(sent[T[k]])
             /\ \A m \in 1..T[k] : Owing(sent[m]) => \E j \in DOMAIN T : T[j] = m
  <2>1. T[k] \in 1..n /\ Owing(sent[T[k]])
    BY <1>3, <1>4 DEF Answered
  <2>2. ASSUME NEW m \in 1..T[k], Owing(sent[m])
        PROVE  \E j \in DOMAIN T : T[j] = m
    <3>1. PICK j \in DOMAIN R : R[j] = m
      <4>1. m \in 1..n
        BY <1>1, <2>1
      <4>. QED
        BY <2>2, <4>1 DEF Answered
    <3>2. CASE j \in DOMAIN T
      BY <1>3, <3>1, <3>2
    <3>3. CASE j \notin DOMAIN T
      <4>1. k < j /\ k \in DOMAIN R /\ R[k] = T[k] /\ m # Error
        BY <1>2, <1>3, <3>3, <2>1 DEF Error
      <4>2. R[k] < R[j]
        BY <1>4, <3>1, <4>1 DEF Answered
      <4>. QED
        BY <2>1, <3>1, <4>1, <4>2
    <3>. QED
      BY <3>2, <3>3
  <2>. QED
    BY <1>1, <2>1, <2>2
<1>5. \A j, k \in DOMAIN T : j < k /\ Error \notin {T[j], T[k]} => T[j] < T[k]
  BY <1>3 DEF Answered
<1>6. Cardinality(Errors(T)) <= Cardinality(Noreplies(sent, Len(sent)))
  <2>1. Errors(T) \in SUBSET Errors(R)
    BY <1>3 DEF Errors
  <2>2. Cardinality(Errors(T)) <= Cardinality(Errors(R))
    BY <2>1, ErrorsFinite, FS_Subset
  <2>3. Noreplies(sent, n) \in SUBSET Noreplies(sent, Len(sent))
    BY <1>1 DEF Noreplies
  <2>4. Cardinality(Noreplies(sent, n)) <= Cardinality(Noreplies(sent, Len(sent)))
    BY <1>1, <2>3, NorepliesFinite, FS_Subset
  <2>5. PICK e \in Nat, d \in Nat, a \in Nat, b \in Nat :
          /\ e = Cardinality(Errors(T)) /\ d = Cardinality(Errors(R))
          /\ a = Cardinality(Noreplies(sent, n)) /\ b = Cardinality(Noreplies(sent, Len(sent)))
    <3>1. R \in Seq(Nat)
      BY ConcatProperties
    <3>. QED
      BY <1>1, <3>1, ErrorsFinite, NorepliesFinite
  <2>6. d + more <= a /\ more \in {0, 1}
    BY <2>5 DEF Answered
  <2>7. e <= b
    BY <2>2, <2>4, <2>5, <2>6
  <2>. QED
    BY <2>5, <2>7
<1>7. {k \in DOMAIN T : T[k] = Error} = Errors(T) /\ {m \in DOMAIN sent : sent[m] = "set noreply"} = Noreplies(sent, Len(sent))
  BY <1>1 DEF Errors, Noreplies, Noreply
<1>. QED
  BY <1>4, <1>5, <1>6, <1>7 DEF InOrder

\* A request more does not matter to the earlier ones.
LEMMA SentMore ==
  ASSUME NEW sent \in Seq(AllKinds), NEW kind \in AllKinds
  PROVE  /\ Append(sent, kind) \in Seq(AllKinds) /\ Len(Append(sent, kind)) = Len(sent) + 1
         /\ Append(sent, kind)[Len(sent) + 1] = kind
         /\ \A m \in 1..Len(sent) : Append(sent, kind)[m] = sent[m]
         /\ \A n \in 0..Len(sent) : Noreplies(Append(sent, kind), n) = Noreplies(sent, n)
<1>1. /\ Append(sent, kind) \in Seq(AllKinds) /\ Len(Append(sent, kind)) = Len(sent) + 1
      /\ Append(sent, kind)[Len(sent) + 1] = kind
      /\ \A m \in 1..Len(sent) : Append(sent, kind)[m] = sent[m]
  OBVIOUS
<1>2. PICK more : more = Append(sent, kind)
  OBVIOUS
<1>3. Len(sent) \in Nat /\ \A m \in 1..Len(sent) : more[m] = sent[m]
  BY <1>1, <1>2
<1>4. ASSUME NEW n \in 0..Len(sent)
      PROVE  Noreplies(more, n) = Noreplies(sent, n)
  BY <1>3 DEF Noreplies
<1>. QED
  BY <1>1, <1>2, <1>4

LEMMA AnsweredSent ==
  ASSUME NEW R \in Seq(Nat), NEW sent \in Seq(AllKinds), NEW n, NEW more, Answered(R, sent, n, more),
         NEW kind \in AllKinds
  PROVE  Answered(R, Append(sent, kind), n, more)
<1>1. PICK to : to = Append(sent, kind)
  OBVIOUS
<1>2. /\ n \in 0..Len(sent) /\ Len(sent) \in Nat /\ Len(to) = Len(sent) + 1
      /\ \A m \in 1..n : to[m] = sent[m] /\ Noreplies(to, n) = Noreplies(sent, n)
  BY <1>1, SentMore DEF Answered
<1>3. n \in 0..Len(to)
  BY <1>2
<1>4. Noreplies(to, n) = Noreplies(sent, n)
  BY <1>1, <1>2, SentMore
<1>. QED
  BY <1>1, <1>2, <1>3, <1>4 DEF Answered

LEMMA InOrderSent ==
  ASSUME NEW R \in Seq(Nat), NEW sent \in Seq(AllKinds), InOrder(R, sent), NEW kind \in AllKinds
  PROVE  InOrder(R, Append(sent, kind))
<1>1. PICK to : to = Append(sent, kind)
  OBVIOUS
<1>2. /\ to \in Seq(AllKinds) /\ Len(sent) \in Nat /\ Len(to) = Len(sent) + 1
      /\ DOMAIN sent = 1..Len(sent) /\ DOMAIN to = 1..(Len(sent) + 1) /\ \A m \in 1..Len(sent) : to[m] = sent[m]
  BY <1>1, SentMore
<1>3. ASSUME NEW k \in DOMAIN R, R[k] # Error
      PROVE  /\ R[k] \in DOMAIN to /\ Owing(to[R[k]])
             /\ \A m \in 1..R[k] : Owing(to[m]) => \E j \in DOMAIN R : R[j] = m
  <2>1. /\ R[k] \in 1..Len(sent) /\ Owing(sent[R[k]])
        /\ \A m \in 1..R[k] : Owing(sent[m]) => \E j \in DOMAIN R : R[j] = m
    BY <1>2, <1>3 DEF InOrder
  <2>2. \A m \in 1..R[k] : to[m] = sent[m]
    BY <1>2, <2>1
  <2>. QED
    BY <1>2, <2>1, <2>2
<1>4. Cardinality({n \in DOMAIN R : R[n] = Error}) <= Cardinality({n \in DOMAIN to : to[n] = "set noreply"})
  <2>1. /\ {n \in DOMAIN sent : sent[n] = "set noreply"} = Noreplies(sent, Len(sent))
        /\ {n \in DOMAIN to : to[n] = "set noreply"} = Noreplies(to, Len(to))
        /\ {n \in DOMAIN R : R[n] = Error} = Errors(R)
    BY <1>2 DEF Noreplies, Noreply, Errors
  <2>2. Noreplies(sent, Len(sent)) \in SUBSET Noreplies(to, Len(to))
    BY <1>2 DEF Noreplies
  <2>3. Cardinality(Noreplies(sent, Len(sent))) <= Cardinality(Noreplies(to, Len(to)))
    BY <1>2, <2>2, NorepliesFinite, FS_Subset
  <2>4. Cardinality(Errors(R)) <= Cardinality(Noreplies(sent, Len(sent)))
    BY <2>1 DEF InOrder
  <2>5. Cardinality(Errors(R)) <= Cardinality(Noreplies(to, Len(to)))
    BY <1>2, <2>3, <2>4, ErrorsFinite, NorepliesFinite
  <2>. QED
    BY <2>1, <2>5
<1>. QED
  BY <1>1, <1>3, <1>4 DEF InOrder

-----------------------------------------------------------------------------
(* What is still to be read. *)

LEMMA Associative ==
  /\ \A x, y, z \in Seq(Piece) : (x \o y) \o z = x \o (y \o z)
  /\ \A x, y, z \in Seq(Nat) : (x \o y) \o z = x \o (y \o z)
BY ConcatAssociative, SMTT(30)

LEMMA StreamTyped ==
  ASSUME NEW c \in Connection, NEW d \in ClientRecord
  PROVE  /\ c.rbuf \in Seq(Piece) /\ d.net \in Seq(Piece) /\ d.rest \in Seq(Piece)
         /\ d.got \in Seq(Nat) /\ d.sock \in Seq(Nat) /\ d.sent \in Seq(AllKinds) /\ Len(d.sent) \in Nat
         /\ Expected(d) \in Seq(Piece) /\ Coming(d) \in Seq(Piece) /\ Stream(c, d) \in Seq(Piece)
<1>1. /\ c.rbuf \in Seq(Piece) /\ d.net \in Seq(Piece) /\ d.rest \in Seq(Piece)
      /\ d.got \in Seq(Nat) /\ d.sock \in Seq(Nat) /\ d.sent \in Seq(AllKinds) /\ Len(d.sent) \in Nat
  BY DEF Connection, ClientRecord
<1>2. Expected(d) \in Seq(Piece)
  <2>1. [of |-> Len(d.sent) + 1, part |-> "half"] \in Piece
    BY <1>1 DEF Piece
  <2>2. <<[of |-> Len(d.sent) + 1, part |-> "half"]>> \in Seq(Piece) /\ <<>> \in Seq(Piece)
    BY <2>1
  <2>. QED
    BY <2>2 DEF Expected
<1>3. Coming(d) \in Seq(Piece)
  BY <1>1, <1>2, ConcatProperties DEF Coming
<1>4. Stream(c, d) \in Seq(Piece)
  BY <1>1, <1>3, ConcatProperties DEF Stream
<1>. QED
  BY <1>1, <1>2, <1>3, <1>4

\* T is S without its first m pieces.
Drop(T, S, m) ==
  /\ T \in Seq(Piece) /\ S \in Seq(Piece) /\ m \in 0..Len(S) /\ Len(T) = Len(S) - m
  /\ \A k \in 1..Len(T) : T[k] = S[k + m]

LEMMA DropFirst ==
  ASSUME NEW S \in Seq(Piece), NEW T \in Seq(Piece), NEW U \in Seq(Piece), NEW m, Drop(T, S, m)
  PROVE  Drop(T \o U, S \o U, m)
<1>1. /\ T \o U \in Seq(Piece) /\ Len(T \o U) = Len(T) + Len(U)
      /\ \A k \in 1..(Len(T) + Len(U)) : (T \o U)[k] = IF k <= Len(T) THEN T[k] ELSE U[k - Len(T)]
  BY ConcatProperties
<1>2. /\ S \o U \in Seq(Piece) /\ Len(S \o U) = Len(S) + Len(U)
      /\ \A k \in 1..(Len(S) + Len(U)) : (S \o U)[k] = IF k <= Len(S) THEN S[k] ELSE U[k - Len(S)]
  BY ConcatProperties
<1>3. PICK A, B : A = T \o U /\ B = S \o U
  OBVIOUS
<1>4. /\ A \in Seq(Piece) /\ Len(A) = Len(T) + Len(U) /\ B \in Seq(Piece) /\ Len(B) = Len(S) + Len(U)
      /\ Len(T) \in Nat /\ Len(U) \in Nat /\ Len(S) \in Nat /\ m \in 0..Len(S) /\ Len(T) = Len(S) - m
      /\ \A k \in 1..Len(T) : T[k] = S[k + m]
  BY <1>1, <1>2, <1>3 DEF Drop
<1>5. \A k \in 1..(Len(T) + Len(U)) : A[k] = IF k <= Len(T) THEN T[k] ELSE U[k - Len(T)]
  BY <1>1, <1>3
<1>6. \A k \in 1..(Len(S) + Len(U)) : B[k] = IF k <= Len(S) THEN S[k] ELSE U[k - Len(S)]
  BY <1>2, <1>3
<1>7. ASSUME NEW k \in 1..Len(A)
      PROVE  A[k] = B[k + m]
  <2>1. CASE k <= Len(T)
    BY <1>4, <1>5, <1>6, <2>1
  <2>2. CASE k > Len(T)
    <3>1. A[k] = U[k - Len(T)] /\ B[k + m] = U[(k + m) - Len(S)] /\ (k + m) - Len(S) = k - Len(T)
      BY <1>4, <1>5, <1>6, <2>2
    <3>. QED
      BY <3>1
  <2>. QED
    BY <1>4, <2>1, <2>2
<1>. QED
  BY <1>3, <1>4, <1>7 DEF Drop

LEMMA DropTail ==
  ASSUME NEW S \in Seq(Piece), S # <<>>
  PROVE  Drop(Tail(S), S, 1)
<1>1. /\ Tail(S) \in Seq(Piece) /\ Len(Tail(S)) = Len(S) - 1 /\ Len(S) \in Nat /\ Len(S) >= 1
      /\ \A k \in 1..Len(Tail(S)) : Tail(S)[k] = S[k + 1]
  BY HeadTailProperties
<1>. QED
  BY <1>1 DEF Drop

LEMMA DropSubSeq ==
  ASSUME NEW S \in Seq(Piece), NEW m \in 1..Len(S)
  PROVE  Drop(SubSeq(S, m + 1, Len(S)), S, m)
<1>1. \A k \in (m + 1)..Len(S) : S[k] \in Piece
  OBVIOUS
<1>2. /\ SubSeq(S, m + 1, Len(S)) \in Seq(Piece)
      /\ Len(SubSeq(S, m + 1, Len(S))) = IF m + 1 <= Len(S) THEN Len(S) - (m + 1) + 1 ELSE 0
      /\ \A k \in 1..(Len(S) - (m + 1) + 1) : SubSeq(S, m + 1, Len(S))[k] = S[(m + 1) + k - 1]
  BY <1>1, SubSeqProperties
<1>3. PICK T : T = SubSeq(S, m + 1, Len(S))
  OBVIOUS
<1>4. T \in Seq(Piece) /\ Len(T) = Len(S) - m /\ \A k \in 1..Len(T) : T[k] = S[(m + 1) + k - 1]
  BY <1>2, <1>3
<1>5. ASSUME NEW k \in 1..Len(T)
      PROVE  T[k] = S[k + m]
  <2>1. (m + 1) + k - 1 = k + m
    BY <1>4
  <2>. QED
    BY <1>4, <2>1
<1>. QED
  BY <1>3, <1>4, <1>5 DEF Drop

LEMMA ChainDrop ==
  ASSUME NEW S, NEW T, NEW m, Drop(T, S, m), NEW sent, Chain(S, sent)
  PROVE  Chain(T, sent) /\ (m >= 1 /\ T # <<>> => T[1] = After(S[m], sent))
<1>1. /\ T \in Seq(Piece) /\ S \in Seq(Piece) /\ m \in 0..Len(S) /\ Len(T) = Len(S) - m
      /\ Len(T) \in Nat /\ Len(S) \in Nat
      /\ \A k \in 1..Len(T) : T[k] = S[k + m]
  BY DEF Drop
<1>2. ASSUME NEW k \in 1..Len(T)
      PROVE  Fits(T[k], sent) /\ (k < Len(T) => T[k + 1] = After(T[k], sent))
  <2>1. k + m \in 1..Len(S) /\ T[k] = S[k + m]
    BY <1>1
  <2>2. Fits(S[k + m], sent) /\ (k + m < Len(S) => S[k + m + 1] = After(S[k + m], sent))
    BY <2>1 DEF Chain
  <2>3. ASSUME k < Len(T)
        PROVE  T[k + 1] = S[k + m + 1] /\ k + m < Len(S)
    <3>1. k + 1 \in 1..Len(T)
      BY <1>1, <2>3
    <3>2. T[k + 1] = S[(k + 1) + m]
      BY <1>1, <3>1
    <3>. QED
      BY <1>1, <2>3, <3>2
  <2>. QED
    BY <2>1, <2>2, <2>3
<1>3. ASSUME m >= 1, T # <<>>
      PROVE  T[1] = After(S[m], sent)
  <2>1. 1 \in 1..Len(T) /\ m \in 1..Len(S) /\ m < Len(S)
    BY <1>1, <1>3
  <2>2. T[1] = S[1 + m] /\ 1 + m = m + 1
    BY <1>1, <2>1
  <2>3. S[m + 1] = After(S[m], sent)
    BY <2>1 DEF Chain
  <2>. QED
    BY <2>2, <2>3
<1>. QED
  BY <1>2, <1>3 DEF Chain

\* One chain after another.
LEMMA ChainConcat ==
  ASSUME NEW S \in Seq(Piece), NEW T \in Seq(Piece), NEW sent, Chain(S, sent), Chain(T, sent), S # <<>>,
         T # <<>> => T[1] = After(S[Len(S)], sent)
  PROVE  Chain(S \o T, sent)
<1>1. PICK U : U = S \o T
  OBVIOUS
<1>2. /\ U \in Seq(Piece) /\ Len(U) = Len(S) + Len(T)
      /\ \A k \in 1..(Len(S) + Len(T)) : U[k] = IF k <= Len(S) THEN S[k] ELSE T[k - Len(S)]
  BY <1>1, ConcatProperties
<1>3. Len(S) \in Nat /\ Len(S) >= 1 /\ Len(T) \in Nat /\ (Len(T) >= 1 => T # <<>>)
  OBVIOUS
<1>4. ASSUME NEW k \in 1..Len(U)
      PROVE  Fits(U[k], sent) /\ (k < Len(U) => U[k + 1] = After(U[k], sent))
  <2>1. CASE k < Len(S)
    <3>1. U[k] = S[k] /\ U[k + 1] = S[k + 1] /\ k \in 1..Len(S)
      BY <1>2, <1>3, <2>1
    <3>. QED
      BY <2>1, <3>1 DEF Chain
  <2>2. CASE k = Len(S)
    <3>1. U[k] = S[k] /\ k \in 1..Len(S)
      BY <1>2, <1>3, <2>2
    <3>2. Fits(U[k], sent)
      BY <3>1 DEF Chain
    <3>3. k < Len(U) => U[k + 1] = T[1] /\ T # <<>>
      BY <1>2, <1>3, <2>2
    <3>. QED
      BY <2>2, <3>1, <3>2, <3>3
  <2>3. CASE k > Len(S)
    <3>1. PICK j \in 1..Len(T) : j = k - Len(S)
      BY <1>2, <1>3, <2>3
    <3>2. U[k] = T[j]
      BY <1>2, <1>3, <2>3, <3>1
    <3>3. k < Len(U) => j < Len(T) /\ U[k + 1] = T[j + 1]
      BY <1>2, <1>3, <2>3, <3>1
    <3>4. Fits(T[j], sent) /\ (j < Len(T) => T[j + 1] = After(T[j], sent))
      BY <3>1 DEF Chain
    <3>. QED
      BY <3>2, <3>3, <3>4
  <2>. QED
    BY <1>2, <1>3, <2>1, <2>2, <2>3
<1>. QED
  BY <1>1, <1>4 DEF Chain

LEMMA ChainPrefix ==
  ASSUME NEW S \in Seq(Piece), NEW T \in Seq(Piece), NEW sent, Chain(S \o T, sent)
  PROVE  Chain(S, sent) /\ (S # <<>> => S \o T # <<>> /\ S[1] = (S \o T)[1])
<1>1. PICK U : U = S \o T
  OBVIOUS
<1>2. /\ U \in Seq(Piece) /\ Len(U) = Len(S) + Len(T)
      /\ \A k \in 1..(Len(S) + Len(T)) : U[k] = IF k <= Len(S) THEN S[k] ELSE T[k - Len(S)]
  BY <1>1, ConcatProperties
<1>3. Len(S) \in Nat /\ Len(T) \in Nat /\ (S # <<>> => Len(S) >= 1)
  OBVIOUS
<1>4. ASSUME NEW k \in 1..Len(S)
      PROVE  Fits(S[k], sent) /\ (k < Len(S) => S[k + 1] = After(S[k], sent))
  <2>1. U[k] = S[k] /\ k \in 1..Len(U) /\ (k < Len(S) => U[k + 1] = S[k + 1] /\ k < Len(U))
    BY <1>2, <1>3
  <2>2. Fits(U[k], sent) /\ (k < Len(U) => U[k + 1] = After(U[k], sent))
    BY <1>1, <2>1 DEF Chain
  <2>. QED
    BY <2>1, <2>2
<1>5. S # <<>> => U # <<>> /\ S[1] = U[1]
  BY <1>2, <1>3
<1>. QED
  BY <1>1, <1>4, <1>5 DEF Chain

\* A request more does not matter to what has been sent of the others.
LEMMA ChainSent ==
  ASSUME NEW S \in Seq(Piece), NEW sent \in Seq(AllKinds), Chain(S, sent), NEW kind \in AllKinds
  PROVE  Chain(S, Append(sent, kind))
<1>1. PICK to : to = Append(sent, kind)
  OBVIOUS
<1>2. Len(sent) \in Nat /\ Len(to) = Len(sent) + 1 /\ \A m \in 1..Len(sent) : to[m] = sent[m]
  BY <1>1, SentMore
<1>3. ASSUME NEW k \in 1..Len(S)
      PROVE  Fits(S[k], to) /\ After(S[k], to) = After(S[k], sent)
  <2>1. Fits(S[k], sent) /\ S[k] \in Piece
    BY <1>3 DEF Chain
  <2>2. S[k].part # "half" => to[S[k].of] = sent[S[k].of]
    BY <1>2, <2>1 DEF Fits
  <2>3. Fits(S[k], to)
    BY <1>2, <2>1, <2>2 DEF Fits
  <2>4. After(S[k], to) = After(S[k], sent)
    BY <2>2 DEF After
  <2>. QED
    BY <2>3, <2>4
<1>. QED
  BY <1>1, <1>3 DEF Chain

\* The pieces of a request, and the kinds.
LEMMA KindsTold ==
  ASSUME NEW kind \in AllKinds
  PROVE  /\ kind = "get" => Owing(kind) /\ kind \notin Uploads
         /\ kind = "quit" => kind \notin Uploads /\ ~Owing(kind)
         /\ kind \in Uploads \/ kind \in {"get", "quit"}
         /\ Noreply(kind) => kind \in Uploads /\ ~Owing(kind)
         /\ kind \in Uploads /\ ~Noreply(kind) => Owing(kind)
BY Zenon DEF AllKinds, Uploads, Noreply, Owing

\* What a connection has in its buffer is the beginning of what it has to read.
LEMMA Buffered ==
  ASSUME NEW c \in Connection, NEW d \in ClientRecord, NEW k \in 1..Len(c.rbuf)
  PROVE  k \in 1..Len(Stream(c, d)) /\ Stream(c, d)[k] = c.rbuf[k]
<1>1. c.rbuf \in Seq(Piece) /\ d.net \o Coming(d) \in Seq(Piece)
  BY StreamTyped, ConcatProperties
<1>2. PICK u \in Seq(Piece), s \in Seq(Piece) : u = d.net \o Coming(d) /\ s = c.rbuf
  BY <1>1
<1>3. Stream(c, d) = s \o u
  BY <1>2 DEF Stream
<1>4. /\ Len(s \o u) = Len(s) + Len(u)
      /\ \A i \in 1..(Len(s) + Len(u)) : (s \o u)[i] = IF i <= Len(s) THEN s[i] ELSE u[i - Len(s)]
  BY ConcatProperties
<1>5. Len(s) \in Nat /\ Len(u) \in Nat /\ k \in 1..Len(s)
  BY <1>2
<1>6. k \in 1..Len(s \o u) /\ (s \o u)[k] = s[k]
  BY <1>4, <1>5
<1>. QED
  BY <1>2, <1>3, <1>6

\* Where the first line ends.
LEMMA FirstLine ==
  ASSUME NEW c \in Connection, NEW d \in ClientRecord, Chain(Stream(c, d), d.sent),
         NEW n \in Ends(c.rbuf), \A m \in Ends(c.rbuf) : n <= m, NEW i \in Nat
  PROVE  /\ n \in 1..Len(c.rbuf)
         /\ Begins(Stream(c, d), i, "data") => c.rbuf[n] = [of |-> i, part |-> "data"]
         /\ Begins(Stream(c, d), i, "half") =>
              c.rbuf[n] = [of |-> i, part |-> "end"] /\ i \in 1..Len(d.sent)
<1>1. PICK S : S = Stream(c, d)
  OBVIOUS
<1>2. /\ c.rbuf \in Seq(Piece) /\ DOMAIN c.rbuf = 1..Len(c.rbuf) /\ Len(c.rbuf) \in Nat
      /\ S \in Seq(Piece) /\ Chain(S, d.sent) /\ Len(d.sent) \in Nat
  BY <1>1, StreamTyped
<1>3. n \in 1..Len(c.rbuf) /\ c.rbuf[n].part \in {"end", "data"}
  BY <1>2 DEF Ends
<1>4. \A k \in 1..Len(c.rbuf) : k \in 1..Len(S) /\ S[k] = c.rbuf[k]
  BY <1>1, Buffered
<1>5. 1 \in 1..Len(c.rbuf) /\ S # <<>>
  BY <1>2, <1>3, <1>4
<1>6. ASSUME Begins(S, i, "data")
      PROVE  c.rbuf[n] = [of |-> i, part |-> "data"]
  <2>1. c.rbuf[1] = [of |-> i, part |-> "data"]
    BY <1>4, <1>5, <1>6 DEF Begins
  <2>2. 1 \in Ends(c.rbuf)
    BY <1>2, <1>5, <2>1 DEF Ends
  <2>3. n = 1
    BY <1>3, <2>2
  <2>. QED
    BY <2>1, <2>3
<1>7. ASSUME Begins(S, i, "half")
      PROVE  c.rbuf[n] = [of |-> i, part |-> "end"] /\ i \in 1..Len(d.sent)
  <2>1. c.rbuf[1] = [of |-> i, part |-> "half"] /\ S[1] = c.rbuf[1]
    BY <1>4, <1>5, <1>7 DEF Begins
  <2>2. n # 1
    BY <1>3, <2>1
  <2>3. 2 \in 1..Len(c.rbuf) /\ 1 \in 1..Len(S) /\ 1 < Len(S)
    BY <1>2, <1>3, <1>4, <2>2
  <2>4. S[1 + 1] = After(S[1], d.sent)
    BY <1>2, <2>3 DEF Chain
  <2>5. c.rbuf[2] = [of |-> i, part |-> "end"]
    BY <1>4, <2>1, <2>3, <2>4 DEF After
  <2>6. 2 \in Ends(c.rbuf)
    BY <1>2, <2>3, <2>5 DEF Ends
  <2>7. n = 2
    BY <1>3, <2>2, <2>6
  <2>8. Fits(S[2], d.sent) /\ S[2] = [of |-> i, part |-> "end"]
    BY <1>2, <1>4, <2>3, <2>5 DEF Chain
  <2>9. i \in 1..Len(d.sent)
    BY <1>2, <2>8 DEF Fits
  <2>. QED
    BY <2>5, <2>7, <2>9
<1>. QED
  BY <1>1, <1>3, <1>6, <1>7

\* A buffer without its first pieces.
LEMMA Shorter ==
  ASSUME NEW c \in Connection, NEW d \in ClientRecord, Chain(Stream(c, d), d.sent),
         NEW m \in 1..Len(c.rbuf), NEW e \in Connection, Drop(e.rbuf, c.rbuf, m)
  PROVE  /\ Chain(Stream(e, d), d.sent)
         /\ Stream(e, d) # <<>> => Stream(e, d)[1] = After(c.rbuf[m], d.sent)
<1>1. c.rbuf \in Seq(Piece) /\ e.rbuf \in Seq(Piece) /\ d.net \o Coming(d) \in Seq(Piece)
  BY StreamTyped, ConcatProperties
<1>2. Drop(Stream(e, d), Stream(c, d), m)
  BY <1>1, DropFirst DEF Stream
<1>3. Stream(c, d)[m] = c.rbuf[m] /\ m >= 1
  BY Buffered
<1>. QED
  BY <1>2, <1>3, ChainDrop

\* With nothing in the buffer what has arrived loses its first piece.
LEMMA ShorterNet ==
  ASSUME NEW c \in Connection, NEW d \in ClientRecord, Chain(Stream(c, d), d.sent),
         c.rbuf = <<>>, d.net # <<>>, NEW e \in Connection, e.rbuf = <<>>
  PROVE  LET b == [d EXCEPT !.net = Tail(@)] IN
         /\ Stream(c, d) # <<>>
         /\ Chain(Stream(e, b), d.sent)
         /\ Stream(e, b) # <<>> => Stream(e, b)[1] = After(Stream(c, d)[1], d.sent)
<1>. DEFINE b == [d EXCEPT !.net = Tail(@)]
<1>1. d.net \in Seq(Piece) /\ Coming(d) \in Seq(Piece) /\ Tail(d.net) \in Seq(Piece)
  BY StreamTyped
<1>2. b.net = Tail(d.net) /\ Coming(b) = Coming(d)
  BY DEF ClientRecord, Coming, Expected
<1>. HIDE DEF b
<1>3. /\ d.net \o Coming(d) \in Seq(Piece) /\ Tail(d.net) \o Coming(d) \in Seq(Piece)
      /\ Len(d.net \o Coming(d)) = Len(d.net) + Len(Coming(d))
  BY <1>1, ConcatProperties
<1>4. Stream(c, d) = d.net \o Coming(d) /\ Stream(e, b) = Tail(d.net) \o Coming(d)
  BY <1>2, <1>3, ConcatEmptySeq DEF Stream
<1>5. Drop(Stream(e, b), Stream(c, d), 1)
  BY <1>1, <1>4, DropTail, DropFirst
<1>6. Stream(c, d) # <<>>
  <2>1. Len(d.net) >= 1 /\ Len(Coming(d)) >= 0
    BY <1>1
  <2>2. Len(Stream(c, d)) >= 1
    BY <1>1, <1>3, <1>4, <2>1
  <2>. QED
    BY <2>2
<1>7. Chain(Stream(e, b), d.sent) /\ (Stream(e, b) # <<>> => Stream(e, b)[1] = After(Stream(c, d)[1], d.sent))
  BY <1>5, ChainDrop
<1>. QED
  BY <1>6, <1>7 DEF b

\* Reading what has arrived.
LEMMA ReadAll ==
  ASSUME NEW c \in Connection, NEW d \in ClientRecord, NEW e \in Connection, e.rbuf = c.rbuf \o d.net
  PROVE  Stream(e, [d EXCEPT !.net = <<>>]) = Stream(c, d)
<1>. DEFINE b == [d EXCEPT !.net = <<>>]
<1>1. c.rbuf \in Seq(Piece) /\ d.net \in Seq(Piece) /\ Coming(d) \in Seq(Piece)
  BY StreamTyped
<1>2. b.net = <<>> /\ Coming(b) = Coming(d)
  BY DEF ClientRecord, Coming, Expected
<1>. HIDE DEF b
<1>3. <<>> \o Coming(d) = Coming(d)
  BY <1>1, ConcatEmptySeq
<1>4. (c.rbuf \o d.net) \o Coming(d) = c.rbuf \o (d.net \o Coming(d))
  <2>1. PICK x \in Seq(Piece), y \in Seq(Piece), z \in Seq(Piece) : x = c.rbuf /\ y = d.net /\ z = Coming(d)
    BY <1>1
  <2>2. (x \o y) \o z = x \o (y \o z)
    BY Associative, Zenon
  <2>. QED
    BY <2>1, <2>2
<1>5. Stream(e, b) = (c.rbuf \o d.net) \o Coming(d)
  BY <1>2, <1>3 DEF Stream
<1>. QED
  BY <1>4, <1>5 DEF Stream, b

-----------------------------------------------------------------------------
(* What an action makes of a connection that serves its client. *)

LEMMA RepliesAre ==
  ASSUME NEW c \in Connection, NEW d \in ClientRecord
  PROVE  /\ d.got \o d.sock \in Seq(Nat)
         /\ c.state \notin {"write", "mwrite"} => Replies(c, d) = d.got \o d.sock
         /\ c.state \in {"write", "mwrite"} => Replies(c, d) = (d.got \o d.sock) \o <<c.out>>
         /\ Consistent(c) => Replies(c, d) \in Seq(Nat)
<1>1. d.got \o d.sock \in Seq(Nat)
  BY StreamTyped, ConcatProperties
<1>2. PICK r \in Seq(Nat) : r = d.got \o d.sock
  BY <1>1
<1>3. r \o <<>> = r
  BY ConcatEmptySeq
<1>4. ASSUME c.out \in Nat
      PROVE  r \o <<c.out>> \in Seq(Nat)
  BY <1>4, MoreReplies
<1>. QED
  BY <1>1, <1>2, <1>3, <1>4 DEF Replies, Consistent

LEMMA OutStringMakes ==
  ASSUME NEW c \in Connection, NEW reply
  PROVE  LET e == out_string(c, reply) IN
         /\ e.rbuf = c.rbuf /\ ~e.noreply
         /\ c.noreply => e.state = "new_cmd"
         /\ ~c.noreply => e.state = "write" /\ e.out = reply /\ e.write_and_go = "new_cmd"
<1>1. CASE c.noreply
  BY <1>1 DEF out_string, Connection
<1>2. CASE ~c.noreply
  BY <1>2 DEF out_string, Connection
<1>. QED
  BY <1>1, <1>2

LEMMA CommandMakes ==
  ASSUME NEW c \in Connection, c.item = None, c.ileft = 0, ~c.noreply, NEW line \in Piece, NEW kind,
         NEW r \in process_command(c, line, kind)
  PROVE  LET e == r.conn IN
         /\ e \in Connection /\ e.rbuf = c.rbuf
         /\ line.part = "data" =>
              e.state = "write" /\ e.out = Error /\ e.write_and_go = "new_cmd" /\ ~e.noreply
         /\ line.part = "end" /\ kind = "get" => e.state = "mwrite" /\ e.out = line.of /\ ~e.noreply
         /\ line.part = "end" /\ kind = "quit" => e.state = "closing"
         /\ line.part = "end" /\ kind \notin {"get", "quit"} =>
              \/ e.state = "nread" /\ e.item = line.of /\ e.rlbytes = 1 /\ (e.noreply <=> Noreply(kind))
              \/ /\ ~Noreply(kind) /\ e.state = "write" /\ e.out = line.of
                 /\ e.write_and_go = "swallow" /\ e.sbytes = 1 /\ ~e.noreply
              \/ Noreply(kind) /\ e.state = "new_cmd" /\ ~e.noreply
<1>. DEFINE upload == [c EXCEPT !.noreply = kind = "set noreply"]
            refused == out_string(upload, line.of)
            failed == out_string(c, Error)
<1>1. line.of \in Nat /\ Error \in Nat
  BY DEF Piece, Error
<1>2. r.conn \in Connection
  BY ProcessCommand
<1>3. upload = [c EXCEPT !.noreply = Noreply(kind)]
  BY Zenon DEF Noreply
<1>4. upload \in Connection /\ upload.rbuf = c.rbuf /\ (upload.noreply <=> Noreply(kind))
  <2>1. Noreply(kind) \in BOOLEAN
    BY Zenon DEF Noreply
  <2>. HIDE DEF upload
  <2>. QED
    BY <1>3, <2>1 DEF Connection
<1>5. CASE line.part = "data"
  <2>1. r = [conn |-> failed, taken |-> 0]
    BY <1>5, Zenon DEF process_command
  <2>2. r.conn = failed
    BY <2>1
  <2>3. /\ failed.rbuf = c.rbuf /\ ~failed.noreply
        /\ failed.state = "write" /\ failed.out = Error /\ failed.write_and_go = "new_cmd"
    BY OutStringMakes
  <2>. HIDE DEF failed
  <2>. QED
    BY <1>2, <1>5, <2>2, <2>3
<1>6. CASE line.part = "end" /\ kind = "get"
  <2>1. PICK hits \in {0, 1} :
          r = [conn |-> [c EXCEPT !.ileft = hits, !.out = line.of, !.state = "mwrite"], taken |-> hits]
    <3>1. line.part # "data"
      BY <1>6
    <3>. QED
      BY <1>6, <3>1, Zenon DEF process_command
  <2>2. r.conn = [c EXCEPT !.ileft = hits, !.out = line.of, !.state = "mwrite"]
    BY <2>1
  <2>3. r.conn.state = "mwrite" /\ r.conn.out = line.of /\ r.conn.rbuf = c.rbuf /\ ~r.conn.noreply
    BY <2>2 DEF Connection
  <2>. QED
    BY <1>2, <1>6, <2>3
<1>7. CASE line.part = "end" /\ kind = "quit"
  <2>1. r = [conn |-> [c EXCEPT !.state = "closing"], taken |-> 0]
    <3>1. line.part # "data" /\ kind # "get"
      BY <1>7
    <3>. QED
      BY <1>7, <3>1, Zenon DEF process_command
  <2>2. r.conn = [c EXCEPT !.state = "closing"]
    BY <2>1
  <2>3. r.conn.state = "closing" /\ r.conn.rbuf = c.rbuf
    BY <2>2 DEF Connection
  <2>. QED
    BY <1>2, <1>7, <2>3
<1>8. CASE line.part = "half" \/ (line.part = "end" /\ kind \notin {"get", "quit"})
  <2>1. \/ r = [conn |-> [upload EXCEPT !.item = line.of, !.rlbytes = 1, !.state = "nread"], taken |-> 1]
        \/ r = [conn |-> [refused EXCEPT !.write_and_go = "swallow", !.sbytes = 1], taken |-> 0]
    <3>1. line.part # "data" /\ ~(line.part = "end" /\ kind = "get") /\ ~(line.part = "end" /\ kind = "quit")
      BY <1>8
    <3>. QED
      BY <3>1, Zenon DEF process_command
  <2>2. CASE r = [conn |-> [upload EXCEPT !.item = line.of, !.rlbytes = 1, !.state = "nread"], taken |-> 1]
    <3>. HIDE DEF upload
    <3>1. r.conn = [upload EXCEPT !.item = line.of, !.rlbytes = 1, !.state = "nread"]
      BY <2>2
    <3>2. /\ r.conn.state = "nread" /\ r.conn.item = line.of /\ r.conn.rlbytes = 1 /\ r.conn.rbuf = c.rbuf
          /\ r.conn.noreply = upload.noreply
      BY <1>4, <3>1 DEF Connection
    <3>. QED
      BY <1>2, <1>4, <1>8, <3>2
  <2>3. CASE r = [conn |-> [refused EXCEPT !.write_and_go = "swallow", !.sbytes = 1], taken |-> 0]
    <3>1. /\ refused \in Connection /\ refused.rbuf = c.rbuf /\ ~refused.noreply
          /\ Noreply(kind) => refused.state = "new_cmd"
          /\ ~Noreply(kind) => refused.state = "write" /\ refused.out = line.of
      <4>. HIDE DEF upload
      <4>. QED
        BY <1>1, <1>4, OutString, OutStringMakes
    <3>. HIDE DEF refused
    <3>2. r.conn = [refused EXCEPT !.write_and_go = "swallow", !.sbytes = 1]
      BY <2>3
    <3>3. /\ r.conn.state = refused.state /\ r.conn.out = refused.out /\ r.conn.rbuf = c.rbuf
          /\ r.conn.write_and_go = "swallow" /\ r.conn.sbytes = 1 /\ r.conn.noreply = refused.noreply
      BY <3>1, <3>2 DEF Connection
    <3>. QED
      BY <1>2, <1>8, <3>1, <3>3
  <2>. QED
    BY <2>1, <2>2, <2>3
<1>9. line.part \in {"half", "end", "data"}
  BY DEF Piece
<1>. QED
  BY <1>5, <1>6, <1>7, <1>8, <1>9

Idle == {"closed", "read", "parse_cmd", "new_cmd"}

\* Between commands, while nothing is read or sent but what was to be.
LEMMA IdleInTurn ==
  ASSUME NEW c \in Connection, NEW d \in ClientRecord, NEW e \in Connection, NEW b \in ClientRecord,
         InTurn(c, d), c.state \in Idle, e.state \in Idle, ~c.noreply, ~e.noreply,
         Stream(e, b) = Stream(c, d), b.sent = d.sent, b.got = d.got, b.sock = d.sock
  PROVE  InTurn(e, b)
<1>1. PICK n \in 0..Len(d.sent), more \in {0, 1} :
        Answered(Replies(c, d), d.sent, n, more) /\ Reading(c, Stream(c, d), d.sent, n, more)
  BY DEF InTurn
<1>2. Replies(e, b) = Replies(c, d)
  BY RepliesAre DEF Idle
<1>3. Reading(e, Stream(c, d), d.sent, n, more)
  BY <1>1 DEF Reading, Idle
<1>. QED
  BY <1>1, <1>2, <1>3 DEF InTurn

\* A connection between commands has nothing to be kept quiet.
LEMMA IdleSpeaks ==
  ASSUME NEW c \in Connection, NEW d \in ClientRecord, InTurn(c, d), c.state \in Idle
  PROVE  ~c.noreply
BY DEF InTurn, Reading, Idle

\* A command.
LEMMA CommandInTurn ==
  ASSUME NEW c \in Connection, NEW d \in ClientRecord, InTurn(c, d), c.state = "parse_cmd",
         c.item = None, c.ileft = 0,
         NEW i \in Ends(c.rbuf), \A m \in Ends(c.rbuf) : i <= m,
         NEW r \in process_command([c EXCEPT !.rbuf = SubSeq(@, i + 1, Len(@))], c.rbuf[i], d.sent[c.rbuf[i].of]),
         r.conn.state # "closing"
  PROVE  InTurn(r.conn, d)
<1>. DEFINE b == [c EXCEPT !.rbuf = SubSeq(@, i + 1, Len(@))]
            S == Stream(c, d)
            R == d.got \o d.sock
<1>1. PICK n \in 0..Len(d.sent), more \in {0, 1} :
        Answered(Replies(c, d), d.sent, n, more) /\ Reading(c, S, d.sent, n, more)
  BY DEF InTurn
<1>2. /\ Chain(S, d.sent) /\ R \in Seq(Nat) /\ Answered(R, d.sent, n, more) /\ ~c.noreply
      /\ more = 1 => Begins(S, n, "data")
      /\ more = 0 => Begins(S, n + 1, "half")
      /\ d.sent \in Seq(AllKinds) /\ Len(d.sent) \in Nat /\ n \in Nat
  <2>1. Chain(S, d.sent) /\ R \in Seq(Nat) /\ d.sent \in Seq(AllKinds) /\ Len(d.sent) \in Nat /\ n \in Nat
    BY RepliesAre, StreamTyped DEF InTurn
  <2>2. Replies(c, d) = R
    BY RepliesAre
  <2>. HIDE DEF R, S
  <2>3. ~c.noreply /\ (more = 1 => Begins(S, n, "data")) /\ (more = 0 => Begins(S, n + 1, "half"))
    BY <1>1 DEF Reading
  <2>. QED
    BY <1>1, <2>1, <2>2, <2>3
<1>. HIDE DEF S
<1>3. i \in 1..Len(c.rbuf) /\ c.rbuf \in Seq(Piece) /\ c.rbuf[i] \in Piece
  BY StreamTyped DEF Ends
<1>4. SubSeq(c.rbuf, i + 1, Len(c.rbuf)) \in Seq(Piece) /\ Drop(SubSeq(c.rbuf, i + 1, Len(c.rbuf)), c.rbuf, i)
  BY <1>3, DropSubSeq DEF Drop
<1>5. b \in Connection /\ b.item = None /\ b.ileft = 0 /\ ~b.noreply /\ b.rbuf = SubSeq(c.rbuf, i + 1, Len(c.rbuf))
  BY <1>2, <1>4, ZenonT(40) DEF Connection
<1>6. r \in process_command(b, c.rbuf[i], d.sent[c.rbuf[i].of])
  OBVIOUS
<1>. HIDE DEF b
<1>7. PICK line, kind, e : line \in Piece /\ line = c.rbuf[i] /\ kind = d.sent[line.of] /\ e = r.conn
  BY <1>3
<1>8. /\ e \in Connection /\ e.rbuf = b.rbuf
      /\ line.part = "data" =>
           e.state = "write" /\ e.out = Error /\ e.write_and_go = "new_cmd" /\ ~e.noreply
      /\ line.part = "end" /\ kind = "get" => e.state = "mwrite" /\ e.out = line.of /\ ~e.noreply
      /\ line.part = "end" /\ kind = "quit" => e.state = "closing"
      /\ line.part = "end" /\ kind \notin {"get", "quit"} =>
           \/ e.state = "nread" /\ e.item = line.of /\ e.rlbytes = 1 /\ (e.noreply <=> Noreply(kind))
           \/ /\ ~Noreply(kind) /\ e.state = "write" /\ e.out = line.of
              /\ e.write_and_go = "swallow" /\ e.sbytes = 1 /\ ~e.noreply
           \/ Noreply(kind) /\ e.state = "new_cmd" /\ ~e.noreply
  BY <1>5, <1>6, <1>7, CommandMakes, SMTT(30)
<1>9. PICK T : T = Stream(e, d)
  OBVIOUS
<1>10. Chain(T, d.sent) /\ (T # <<>> => T[1] = After(line, d.sent))
  <2>1. Drop(e.rbuf, c.rbuf, i) /\ e \in Connection
    BY <1>4, <1>5, <1>8
  <2>2. Chain(Stream(c, d), d.sent)
    BY <1>2 DEF S
  <2>3. Chain(Stream(e, d), d.sent) /\ (Stream(e, d) # <<>> => Stream(e, d)[1] = After(c.rbuf[i], d.sent))
    BY <1>3, <2>1, <2>2, Shorter
  <2>. QED
    BY <1>7, <1>9, <2>3
<1>11. CASE more = 1
  <2>1. line = [of |-> n, part |-> "data"]
    BY <1>2, <1>7, <1>11, FirstLine DEF S
  <2>2. e.state = "write" /\ e.out = Error /\ e.write_and_go = "new_cmd" /\ ~e.noreply
    BY <1>8, <2>1
  <2>3. Answered(R \o <<Error>>, d.sent, n, 0)
    BY <1>2, <1>11, AnsweredError
  <2>4. Replies(e, d) = R \o <<Error>>
    BY <1>8, <2>2, RepliesAre
  <2>5. Begins(T, n + 1, "half")
    BY <1>10, <2>1 DEF Begins, After
  <2>6. Reading(e, T, d.sent, n, 0)
    BY <2>2, <2>5 DEF Reading
  <2>. QED
    BY <1>7, <1>9, <1>10, <2>3, <2>4, <2>6 DEF InTurn
<1>12. CASE more = 0
  <2>1. line = [of |-> n + 1, part |-> "end"] /\ n + 1 \in 1..Len(d.sent)
    <3>1. PICK j \in Nat : j = n + 1
      BY <1>2
    <3>2. Begins(Stream(c, d), j, "half") /\ Chain(Stream(c, d), d.sent)
      BY <1>2, <1>12, <3>1 DEF S
    <3>3. c.rbuf[i] = [of |-> j, part |-> "end"] /\ j \in 1..Len(d.sent)
      BY <3>2, FirstLine
    <3>. QED
      BY <1>7, <3>1, <3>3
  <2>2. line.of = n + 1 /\ line.part = "end" /\ kind = d.sent[n + 1] /\ kind \in AllKinds /\ n < Len(d.sent)
    BY <1>2, <1>7, <2>1
  <2>3. kind \in Uploads => Begins(T, n + 1, "data")
    BY <1>10, <2>1, <2>2 DEF Begins, After
  <2>4. kind \notin Uploads => Begins(T, n + 2, "half")
    BY <1>2, <1>10, <2>1, <2>2 DEF Begins, After
  <2>5. CASE kind = "get"
    <3>1. e.state = "mwrite" /\ e.out = n + 1 /\ ~e.noreply
      BY <1>8, <2>2, <2>5
    <3>2. Owing(kind) /\ kind \notin Uploads
      BY <2>2, <2>5, KindsTold
    <3>3. Answered(R \o <<n + 1>>, d.sent, n + 1, 0)
      BY <1>2, <1>12, <2>2, <3>2, AnsweredNext
    <3>4. Replies(e, d) = R \o <<n + 1>>
      BY <1>8, <3>1, RepliesAre
    <3>5. Begins(T, (n + 1) + 1, "half")
      BY <1>2, <2>4, <3>2
    <3>6. Reading(e, T, d.sent, n + 1, 0)
      BY <3>1, <3>5 DEF Reading
    <3>. QED
      BY <1>7, <1>9, <1>10, <2>1, <3>3, <3>4, <3>6 DEF InTurn
  <2>6. CASE kind = "quit"
    BY <1>7, <1>8, <2>2, <2>6
  <2>7. CASE kind \notin {"get", "quit"}
    <3>1. kind \in Uploads /\ Begins(T, n + 1, "data")
      BY <2>2, <2>3, <2>7, KindsTold
    <3>2. CASE e.state = "nread" /\ e.item = line.of /\ e.rlbytes = 1 /\ (e.noreply <=> Noreply(kind))
      <4>1. Replies(e, d) = R
        BY <1>8, <3>2, RepliesAre
      <4>2. Reading(e, T, d.sent, n, 0)
        BY <2>2, <3>1, <3>2 DEF Reading
      <4>. QED
        BY <1>2, <1>7, <1>9, <1>10, <1>12, <4>1, <4>2 DEF InTurn
    <3>3. CASE /\ ~Noreply(kind) /\ e.state = "write" /\ e.out = line.of
               /\ e.write_and_go = "swallow" /\ e.sbytes = 1 /\ ~e.noreply
      <4>1. Owing(kind)
        BY <2>2, <3>1, <3>3, KindsTold
      <4>2. Answered(R \o <<n + 1>>, d.sent, n + 1, 0)
        BY <1>2, <1>12, <2>2, <4>1, AnsweredNext
      <4>3. Replies(e, d) = R \o <<n + 1>>
        BY <1>8, <2>2, <3>3, RepliesAre
      <4>4. Reading(e, T, d.sent, n + 1, 0)
        BY <3>1, <3>3 DEF Reading
      <4>. QED
        BY <1>7, <1>9, <1>10, <2>1, <4>2, <4>3, <4>4 DEF InTurn
    <3>4. CASE Noreply(kind) /\ e.state = "new_cmd" /\ ~e.noreply
      <4>1. ~Owing(kind)
        BY <2>2, <3>4, KindsTold
      <4>2. Answered(R, d.sent, n + 1, 1)
        BY <1>2, <1>12, <2>2, <3>4, <4>1, AnsweredNone
      <4>3. Replies(e, d) = R
        BY <1>8, <3>4, RepliesAre
      <4>4. Reading(e, T, d.sent, n + 1, 1)
        BY <3>1, <3>4 DEF Reading
      <4>. QED
        BY <1>7, <1>9, <1>10, <2>1, <4>2, <4>3, <4>4 DEF InTurn
    <3>. QED
      BY <1>8, <2>2, <2>7, <3>2, <3>3, <3>4
  <2>. QED
    BY <2>5, <2>6, <2>7
<1>. QED
  BY <1>11, <1>12

\* A turn that changes nothing of what matters.
LEMMA SameInTurn ==
  ASSUME NEW c \in Connection, NEW d, NEW e \in Connection, InTurn(c, d),
         e.state = c.state, e.rbuf = c.rbuf, e.noreply = c.noreply, e.item = c.item, e.rlbytes = c.rlbytes,
         e.sbytes = c.sbytes, e.write_and_go = c.write_and_go, e.out = c.out
  PROVE  InTurn(e, d)
<1>1. PICK n \in 0..Len(d.sent), more \in {0, 1} :
        Answered(Replies(c, d), d.sent, n, more) /\ Reading(c, Stream(c, d), d.sent, n, more)
  BY DEF InTurn
<1>2. Replies(e, d) = Replies(c, d) /\ Stream(e, d) = Stream(c, d)
  BY DEF Replies, Stream
<1>3. Reading(e, Stream(c, d), d.sent, n, more)
  BY <1>1 DEF Reading
<1>. QED
  BY <1>1, <1>2, <1>3 DEF InTurn

\* An upload that has arrived.
LEMMA StoredInTurn ==
  ASSUME NEW c \in Connection, NEW d \in ClientRecord, InTurn(c, d), c.state = "nread", c.rlbytes = 0,
         NEW e \in Connection, e = [out_string(c, c.item) EXCEPT !.item = None]
  PROVE  InTurn(e, d)
<1>. DEFINE S == Stream(c, d)
            R == d.got \o d.sock
            o == out_string(c, c.item)
<1>1. PICK n \in 0..Len(d.sent), more \in {0, 1} :
        Answered(Replies(c, d), d.sent, n, more) /\ Reading(c, S, d.sent, n, more)
  BY DEF InTurn
<1>2. /\ Chain(S, d.sent) /\ R \in Seq(Nat) /\ d.sent \in Seq(AllKinds) /\ Len(d.sent) \in Nat /\ n \in Nat
      /\ Replies(c, d) = R
  <2>1. Chain(S, d.sent)
    BY DEF InTurn
  <2>2. R \in Seq(Nat) /\ Replies(c, d) = R
    BY RepliesAre
  <2>. QED
    BY <2>1, <2>2, StreamTyped
<1>. HIDE DEF R, S
<1>3. /\ n < Len(d.sent) /\ c.item = n + 1 /\ d.sent[n + 1] \in Uploads /\ more = 0
      /\ c.noreply <=> Noreply(d.sent[n + 1])
      /\ Begins(S, n + 2, "half")
  BY <1>1 DEF Reading
<1>4. /\ o \in Connection /\ o.rbuf = c.rbuf /\ ~o.noreply
      /\ c.noreply => o.state = "new_cmd"
      /\ ~c.noreply => o.state = "write" /\ o.out = n + 1 /\ o.write_and_go = "new_cmd"
  BY <1>2, <1>3, OutString, OutStringMakes
<1>. HIDE DEF o
<1>5. /\ e.rbuf = c.rbuf /\ ~e.noreply
      /\ c.noreply => e.state = "new_cmd"
      /\ ~c.noreply => e.state = "write" /\ e.out = n + 1 /\ e.write_and_go = "new_cmd"
  <2>1. e = [o EXCEPT !.item = None]
    BY DEF o
  <2>2. e.rbuf = o.rbuf /\ e.noreply = o.noreply /\ e.state = o.state /\ e.out = o.out /\ e.write_and_go = o.write_and_go
    BY <1>4, <2>1 DEF Connection
  <2>. QED
    BY <1>4, <2>2
<1>6. Stream(e, d) = S
  BY <1>5 DEF Stream, S
<1>7. d.sent[n + 1] \in AllKinds /\ n + 1 \in 0..Len(d.sent) /\ Begins(S, (n + 1) + 1, "half")
  <2>1. (n + 1) + 1 = n + 2 /\ n + 1 \in 1..Len(d.sent)
    BY <1>2, <1>3
  <2>. QED
    BY <1>2, <1>3, <2>1
<1>8. CASE c.noreply
  <2>1. Noreply(d.sent[n + 1]) /\ ~Owing(d.sent[n + 1])
    BY <1>3, <1>7, <1>8, KindsTold
  <2>2. Answered(R, d.sent, n + 1, 0)
    BY <1>1, <1>2, <1>3, <2>1, AnsweredNone
  <2>3. Replies(e, d) = R
    BY <1>5, <1>8, RepliesAre DEF R
  <2>4. Reading(e, S, d.sent, n + 1, 0)
    BY <1>5, <1>7, <1>8 DEF Reading
  <2>. QED
    BY <1>2, <1>6, <1>7, <2>2, <2>3, <2>4 DEF InTurn
<1>9. CASE ~c.noreply
  <2>1. Owing(d.sent[n + 1])
    BY <1>3, <1>7, <1>9, KindsTold
  <2>2. Answered(R \o <<n + 1>>, d.sent, n + 1, 0)
    BY <1>1, <1>2, <1>3, <2>1, AnsweredNext
  <2>3. Replies(e, d) = R \o <<n + 1>>
    BY <1>5, <1>9, RepliesAre DEF R
  <2>4. Reading(e, S, d.sent, n + 1, 0)
    BY <1>5, <1>7, <1>9 DEF Reading
  <2>. QED
    BY <1>2, <1>6, <1>7, <2>2, <2>3, <2>4 DEF InTurn
<1>. QED
  BY <1>8, <1>9

\* The data of an upload has been read, to be stored or swallowed.
LEMMA FetchedInTurn ==
  ASSUME NEW c \in Connection, NEW d \in ClientRecord, InTurn(c, d),
         NEW e \in Connection, NEW b \in ClientRecord,
         \/ c.state = "nread" /\ c.rlbytes = 1 /\ e.rlbytes = 0
         \/ c.state = "swallow" /\ c.sbytes = 1 /\ e.sbytes = 0,
         e.state = c.state, e.noreply = c.noreply, e.item = c.item,
         b.sent = d.sent, b.got = d.got, b.sock = d.sock,
         Stream(c, d) # <<>>, Chain(Stream(e, b), d.sent),
         Stream(e, b) # <<>> => Stream(e, b)[1] = After(Stream(c, d)[1], d.sent)
  PROVE  InTurn(e, b)
<1>1. PICK S, T : S = Stream(c, d) /\ T = Stream(e, b)
  OBVIOUS
<1>2. PICK n \in 0..Len(d.sent), more \in {0, 1} :
        Answered(Replies(c, d), d.sent, n, more) /\ Reading(c, S, d.sent, n, more)
  BY <1>1 DEF InTurn
<1>3. Replies(e, b) = Replies(c, d) /\ n \in Nat
  <2>1. c.state \notin {"write", "mwrite"} /\ e.state \notin {"write", "mwrite"}
    OBVIOUS
  <2>2. Replies(e, b) = Replies(c, d)
    BY <2>1 DEF Replies
  <2>3. Len(d.sent) \in Nat
    BY StreamTyped
  <2>. QED
    BY <2>2, <2>3
<1>4. \A i \in Nat : Begins(S, i, "data") => Begins(T, i + 1, "half")
  BY <1>1 DEF Begins, After
<1>5. Reading(e, T, d.sent, n, more)
  <2>1. CASE c.state = "nread" /\ c.rlbytes = 1 /\ e.rlbytes = 0
    <3>1. /\ n < Len(d.sent) /\ c.item = n + 1 /\ d.sent[n + 1] \in Uploads /\ more = 0
          /\ c.noreply <=> Noreply(d.sent[n + 1])
          /\ Begins(S, n + 1, "data")
      BY <1>2, <2>1 DEF Reading
    <3>2. Begins(T, n + 2, "half")
      <4>1. n + 1 \in Nat /\ (n + 1) + 1 = n + 2
        BY <1>3
      <4>. QED
        BY <1>4, <3>1, <4>1
    <3>. QED
      BY <2>1, <3>1, <3>2 DEF Reading
  <2>2. CASE c.state = "swallow" /\ c.sbytes = 1 /\ e.sbytes = 0
    <3>1. ~c.noreply /\ more = 0 /\ Begins(S, n, "data")
      BY <1>2, <2>2 DEF Reading
    <3>2. Begins(T, n + 1, "half")
      BY <1>3, <1>4, <3>1
    <3>. QED
      BY <2>2, <3>1, <3>2 DEF Reading
  <2>. QED
    BY <2>1, <2>2
<1>. QED
  BY <1>1, <1>2, <1>3, <1>5 DEF InTurn

LEMMA SwallowedInTurn ==
  ASSUME NEW c \in Connection, NEW d \in ClientRecord, InTurn(c, d), c.state = "swallow", c.sbytes = 0,
         NEW e \in Connection, e.state = "new_cmd", e.noreply = c.noreply, e.rbuf = c.rbuf
  PROVE  InTurn(e, d)
<1>1. PICK n \in 0..Len(d.sent), more \in {0, 1} :
        Answered(Replies(c, d), d.sent, n, more) /\ Reading(c, Stream(c, d), d.sent, n, more)
  BY DEF InTurn
<1>2. Replies(e, d) = Replies(c, d) /\ Stream(e, d) = Stream(c, d)
  BY RepliesAre DEF Stream
<1>3. Reading(e, Stream(c, d), d.sent, n, more)
  BY <1>1 DEF Reading
<1>. QED
  BY <1>1, <1>2, <1>3 DEF InTurn

\* The reply is sent, and the connection goes on after it.
LEMMA SentInTurn ==
  ASSUME NEW c \in Connection, NEW d \in ClientRecord, InTurn(c, d), c.state \in {"write", "mwrite"}, c.out \in Nat,
         NEW b \in ClientRecord, b = [d EXCEPT !.sock = Append(@, c.out)]
  PROVE  /\ InOrder(b.got \o b.sock, b.sent)
         /\ \A e \in Connection :
              /\ e.noreply = c.noreply /\ e.rbuf = c.rbuf /\ e.sbytes = c.sbytes
              /\ e.state = IF c.state = "write" THEN c.write_and_go ELSE "new_cmd"
              => InTurn(e, b)
<1>1. PICK n \in 0..Len(d.sent), more \in {0, 1} :
        Answered(Replies(c, d), d.sent, n, more) /\ Reading(c, Stream(c, d), d.sent, n, more)
  BY DEF InTurn
<1>2. /\ b.got = d.got /\ b.sock = Append(d.sock, c.out) /\ b.sent = d.sent /\ Coming(b) = Coming(d)
      /\ b.net = d.net
  BY DEF ClientRecord, Coming, Expected
<1>3. PICK g \in Seq(Nat), s \in Seq(Nat), r \in Seq(Nat) : g = d.got /\ s = d.sock /\ r = <<c.out>>
  <2>1. d.got \in Seq(Nat) /\ d.sock \in Seq(Nat)
    BY StreamTyped
  <2>2. <<c.out>> \in Seq(Nat)
    OBVIOUS
  <2>. QED
    BY <2>1, <2>2
<1>4. Replies(c, d) = b.got \o b.sock
  <2>1. Append(s, c.out) = s \o r
    BY <1>3, AppendIsConcat
  <2>2. (g \o s) \o r = g \o (s \o r)
    BY Associative, Zenon
  <2>3. Replies(c, d) = (g \o s) \o r
    BY <1>3, RepliesAre
  <2>. QED
    BY <1>2, <1>3, <2>1, <2>2, <2>3
<1>5. b.got \o b.sock \in Seq(Nat) /\ b.sent \in Seq(AllKinds)
  BY RepliesAre, StreamTyped
<1>6. InOrder(b.got \o b.sock, b.sent)
  <2>1. PICK x \in Seq(Nat), z \in Seq(Nat) : x = b.got \o b.sock /\ z = <<>>
    <3>1. <<>> \in Seq(Nat)
      OBVIOUS
    <3>. QED
      BY <1>5, <3>1
  <2>2. x = x \o z /\ Len(z) <= 1
    BY <2>1, ConcatEmptySeq
  <2>3. Answered(x, b.sent, n, more)
    BY <1>1, <1>2, <1>4, <2>1
  <2>4. InOrder(x, b.sent)
    BY <1>5, <2>2, <2>3, AnsweredInOrder
  <2>. QED
    BY <2>1, <2>4
<1>7. ASSUME NEW e \in Connection, e.noreply = c.noreply, e.rbuf = c.rbuf, e.sbytes = c.sbytes,
             e.state = IF c.state = "write" THEN c.write_and_go ELSE "new_cmd"
      PROVE  InTurn(e, b)
  <2>1. Stream(e, b) = Stream(c, d)
    BY <1>2, <1>7 DEF Stream
  <2>2. e.state \in {"new_cmd", "swallow"}
    BY <1>7 DEF Connection
  <2>3. Replies(e, b) = Replies(c, d)
    BY <1>4, <2>2, RepliesAre
  <2>4. Reading(e, Stream(c, d), d.sent, n, more)
    BY <1>1, <1>7, <2>2 DEF Reading
  <2>5. Chain(Stream(c, d), d.sent)
    BY DEF InTurn
  <2>. QED
    BY <1>1, <1>2, <2>1, <2>3, <2>4, <2>5 DEF InTurn
<1>. QED
  BY <1>6, <1>7

-----------------------------------------------------------------------------
(* What a client does. *)

\* The first of a sequence and the rest of it.
LEMMA HeadFirst ==
  ASSUME NEW X, NEW s \in Seq(X), s # <<>>
  PROVE  /\ Head(s) \in X /\ Tail(s) \in Seq(X) /\ <<Head(s)>> \in Seq(X)
         /\ <<Head(s)>> \o Tail(s) = s
<1>1. PICK h \in X, t \in Seq(X) : h = Head(s) /\ t = Tail(s)
  BY HeadTailProperties
<1>2. PICK u \in Seq(X) : u = <<h>> /\ Len(u) = 1 /\ u[1] = s[1]
  <2>1. <<h>> \in Seq(X) /\ Len(<<h>>) = 1 /\ <<h>>[1] = h
    OBVIOUS
  <2>2. h = s[1]
    BY <1>1
  <2>. QED
    BY <2>1, <2>2
<1>3. Len(t) = Len(s) - 1 /\ Len(s) \in Nat /\ \A i \in 1..Len(t) : t[i] = s[i + 1]
  BY <1>1, HeadTailProperties
<1>4. u \o t = s
  <2>1. PICK v : v = u \o t
    OBVIOUS
  <2>2. /\ v \in Seq(X) /\ Len(v) = Len(u) + Len(t)
        /\ \A i \in 1..(Len(u) + Len(t)) : v[i] = IF i <= Len(u) THEN u[i] ELSE t[i - Len(u)]
    BY <2>1, ConcatProperties
  <2>3. Len(v) = Len(s)
    BY <1>2, <1>3, <2>2
  <2>4. ASSUME NEW i \in 1..Len(v)
        PROVE  v[i] = s[i]
    <3>1. CASE i = 1
      BY <1>2, <1>3, <2>2, <3>1
    <3>2. CASE i # 1
      <4>1. i - 1 \in 1..Len(t) /\ v[i] = t[i - 1] /\ (i - 1) + 1 = i
        BY <1>2, <1>3, <2>2, <2>3, <3>2
      <4>. QED
        BY <1>3, <4>1
    <3>. QED
      BY <3>1, <3>2
  <2>. QED
    BY <2>1, <2>2, <2>3, <2>4, SeqEqual
<1>. QED
  BY <1>1, <1>2, <1>4

\* Short tuples.
LEMMA Tuples ==
  ASSUME NEW a \in Piece, NEW b \in Piece, NEW c \in Piece
  PROVE  /\ Head(<<a, b, c>>) = a /\ Head(<<a, b>>) = a
         /\ Tail(<<a, b, c>>) = <<b, c>> /\ Tail(<<a, b>>) = <<b>>
         /\ <<a, b>> \o <<c>> = <<a, b, c>> /\ <<a, b>> \o <<>> = <<a, b>>
<1>1. Head(<<a, b, c>>) = a /\ Head(<<a, b>>) = a /\ Tail(<<a, b, c>>) = <<b, c>> /\ Tail(<<a, b>>) = <<b>>
  OBVIOUS
<1>2. ASSUME NEW s \in Seq(Piece), NEW t \in Seq(Piece), Len(t) = Len(s) + 1, t[Len(s) + 1] = c,
             \A i \in 1..Len(s) : t[i] = s[i]
      PROVE  s \o <<c>> = t
  <2>1. /\ Append(s, c) \in Seq(Piece) /\ Len(Append(s, c)) = Len(s) + 1
        /\ \A i \in 1..Len(s) : Append(s, c)[i] = s[i]
        /\ Append(s, c)[Len(s) + 1] = c
    BY AppendProperties
  <2>2. PICK u : u = Append(s, c)
    OBVIOUS
  <2>3. Len(u) = Len(t) /\ \A i \in 1..Len(u) : u[i] = t[i]
    BY <1>2, <2>1, <2>2
  <2>4. u = t
    BY <2>1, <2>2, <2>3, SeqEqual
  <2>. QED
    BY <2>2, <2>4, AppendIsConcat
<1>3. PICK s \in Seq(Piece), t \in Seq(Piece) :
        s = <<a, b>> /\ t = <<a, b, c>> /\ Len(s) = 2 /\ Len(t) = 3 /\ s[1] = a /\ s[2] = b
        /\ t[1] = a /\ t[2] = b /\ t[3] = c
  <2>1. <<a, b>> \in Seq(Piece) /\ <<a, b, c>> \in Seq(Piece)
    OBVIOUS
  <2>. QED
    BY <2>1
<1>4. s \o <<c>> = t
  <2>1. Len(t) = Len(s) + 1 /\ t[Len(s) + 1] = c /\ \A i \in 1..Len(s) : t[i] = s[i]
    BY <1>3
  <2>. QED
    BY <1>2, <2>1
<1>5. <<a, b>> \o <<>> = <<a, b>>
  BY <1>3, ConcatEmptySeq
<1>. QED
  BY <1>1, <1>3, <1>4, <1>5

LEMMA Pairs ==
  ASSUME NEW a \in Piece, NEW b \in Piece
  PROVE  <<a>> \o <<b>> = <<a, b>>
<1>1. <<a>> \in Seq(Piece) /\ Len(<<a>>) = 1 /\ <<a>>[1] = a /\ <<a, b>> \in Seq(Piece)
  OBVIOUS
<1>2. PICK s \in Seq(Piece), t \in Seq(Piece) : s = <<a>> /\ Len(s) = 1 /\ s[1] = a /\ t = <<a, b>>
  BY <1>1
<1>3. /\ Append(s, b) \in Seq(Piece) /\ Len(Append(s, b)) = Len(s) + 1
      /\ \A i \in 1..Len(s) : Append(s, b)[i] = s[i]
      /\ Append(s, b)[Len(s) + 1] = b
  BY <1>2, AppendProperties
<1>4. PICK u : u = Append(s, b)
  OBVIOUS
<1>5. Len(t) = 2 /\ t[1] = a /\ t[2] = b
  BY <1>2
<1>6. Len(u) = Len(t) /\ \A i \in 1..Len(u) : u[i] = t[i]
  BY <1>2, <1>3, <1>4, <1>5
<1>7. u = t
  BY <1>2, <1>3, <1>4, <1>6, SeqEqual
<1>. QED
  BY <1>2, <1>4, <1>7, AppendIsConcat

\* Where a connection is does not depend on more than how the stream begins.
LEMMA ReadingBegins ==
  ASSUME NEW c, NEW S, NEW T, NEW sent, NEW to, NEW n, NEW more, Reading(c, S, sent, n, more),
         T # <<>> => S # <<>> /\ T[1] = S[1],
         n < Len(sent) => n < Len(to) /\ to[n + 1] = sent[n + 1]
  PROVE  Reading(c, T, to, n, more)
<1>1. \A i, part : Begins(S, i, part) => Begins(T, i, part)
  BY DEF Begins
<1>. QED
  BY <1>1 DEF Reading

LEMMA ReceivedInTurn ==
  ASSUME NEW d \in ClientRecord, d.sock # <<>>, NEW b \in ClientRecord,
         b = [d EXCEPT !.got = Append(@, Head(d.sock)), !.sock = Tail(@)]
  PROVE  /\ b.got \o b.sock = d.got \o d.sock
         /\ \A c \in Connection : InTurn(c, d) => InTurn(c, b)
<1>1. /\ b.got = Append(d.got, Head(d.sock)) /\ b.sock = Tail(d.sock)
      /\ b.sent = d.sent /\ b.net = d.net /\ Coming(b) = Coming(d)
  BY DEF ClientRecord, Coming, Expected
<1>2. b.got \o b.sock = d.got \o d.sock
  <2>1. PICK g \in Seq(Nat), s \in Seq(Nat) : g = d.got /\ s = d.sock /\ s # <<>>
    BY StreamTyped DEF ClientRecord
  <2>2. PICK h \in Nat, t \in Seq(Nat), u \in Seq(Nat) : h = Head(s) /\ t = Tail(s) /\ u = <<h>> /\ u \o t = s
    BY <2>1, HeadFirst
  <2>3. Append(g, h) = g \o u
    BY <2>2, AppendIsConcat
  <2>4. (g \o u) \o t = g \o (u \o t)
    BY Associative, Zenon
  <2>. QED
    BY <1>1, <2>1, <2>2, <2>3, <2>4
<1>3. ASSUME NEW c \in Connection, InTurn(c, d)
      PROVE  InTurn(c, b)
  <2>1. Stream(c, b) = Stream(c, d) /\ Replies(c, b) = Replies(c, d)
    BY <1>1, <1>2 DEF Stream, Replies
  <2>. QED
    BY <1>1, <1>3, <2>1 DEF InTurn
<1>. QED
  BY <1>2, <1>3

LEMMA LeftInTurn ==
  ASSUME NEW d \in ClientRecord, NEW b \in ClientRecord, b = [d EXCEPT !.at = "left", !.rest = <<>>],
         NEW c \in Connection, InTurn(c, d)
  PROVE  InTurn(c, b)
<1>1. b.at = "left" /\ b.got = d.got /\ b.sock = d.sock /\ b.sent = d.sent /\ b.net = d.net /\ b.rest = <<>>
  BY DEF ClientRecord
<1>2. Expected(b) = <<>>
  BY <1>1 DEF Expected
<1>3. PICK x \in Seq(Piece), y \in Seq(Piece), z \in Seq(Piece) : x = c.rbuf /\ y = d.net /\ z = Coming(d)
  BY StreamTyped
<1>4. Coming(b) = <<>>
  <2>1. PICK w \in Seq(Piece) : w = <<>>
    BY EmptySeq
  <2>2. w \o <<>> = w
    BY ConcatEmptySeq
  <2>. QED
    BY <1>1, <1>2, <2>1, <2>2 DEF Coming
<1>5. Stream(c, b) = x \o y
  <2>1. y \o <<>> = y
    BY ConcatEmptySeq
  <2>. QED
    BY <1>1, <1>3, <1>4, <2>1 DEF Stream
<1>6. Stream(c, d) = (x \o y) \o z
  <2>1. (x \o y) \o z = x \o (y \o z)
    BY Associative, Zenon
  <2>. QED
    BY <1>3, <2>1 DEF Stream
<1>7. PICK v \in Seq(Piece) : v = x \o y
  BY ConcatProperties
<1>8. Chain(v, d.sent) /\ (v # <<>> => v \o z # <<>> /\ v[1] = (v \o z)[1])
  <2>1. Chain(v \o z, d.sent)
    BY <1>6, <1>7 DEF InTurn
  <2>. QED
    BY <2>1, ChainPrefix
<1>9. PICK n \in 0..Len(d.sent), more \in {0, 1} :
        Answered(Replies(c, d), d.sent, n, more) /\ Reading(c, Stream(c, d), d.sent, n, more)
  BY DEF InTurn
<1>10. Reading(c, Stream(c, b), d.sent, n, more)
  BY <1>5, <1>6, <1>7, <1>8, <1>9, ReadingBegins
<1>11. Replies(c, b) = Replies(c, d)
  BY <1>1 DEF Replies
<1>. QED
  BY <1>1, <1>5, <1>7, <1>8, <1>9, <1>10, <1>11 DEF InTurn

\* One more piece of a request arrives.
LEMMA PieceInTurn ==
  ASSUME NEW d \in ClientRecord, d.rest # <<>>, NEW b \in ClientRecord,
         b = [d EXCEPT !.net = Append(@, Head(d.rest)), !.rest = Tail(d.rest)],
         NEW c \in Connection, InTurn(c, d)
  PROVE  InTurn(c, b)
<1>1. /\ b.at = d.at /\ b.got = d.got /\ b.sock = d.sock /\ b.sent = d.sent
      /\ b.net = Append(d.net, Head(d.rest)) /\ b.rest = Tail(d.rest)
      /\ Expected(b) = Expected(d)
  BY DEF ClientRecord, Expected
<1>2. PICK y \in Seq(Piece), r \in Seq(Piece), z \in Seq(Piece) : y = d.net /\ r = d.rest /\ z = Expected(d) /\ r # <<>>
  BY StreamTyped
<1>3. PICK h \in Piece, t \in Seq(Piece), u \in Seq(Piece) : h = Head(r) /\ t = Tail(r) /\ u = <<h>> /\ u \o t = r
  BY <1>2, HeadFirst
<1>4. Append(y, h) \o (t \o z) = y \o (r \o z)
  <2>1. Append(y, h) = y \o u
    BY <1>3, AppendIsConcat
  <2>2. PICK v \in Seq(Piece) : v = t \o z
    BY ConcatProperties
  <2>3. (y \o u) \o v = y \o (u \o v)
    BY Associative, Zenon
  <2>4. (u \o t) \o z = u \o (t \o z)
    BY Associative, ZenonT(40)
  <2>. QED
    BY <1>3, <2>1, <2>2, <2>3, <2>4
<1>5. Stream(c, b) = Stream(c, d)
  BY <1>1, <1>2, <1>3, <1>4 DEF Stream, Coming
<1>6. Replies(c, b) = Replies(c, d)
  BY <1>1 DEF Replies
<1>. QED
  BY <1>1, <1>5, <1>6 DEF InTurn

\* A new request is one more link, and then the request that would come after it.
LEMMA RequestInTurn ==
  ASSUME NEW d \in ClientRecord, d.rest = <<>>, d.at = "open", NEW kind \in AllKinds, NEW b \in ClientRecord,
         b.at = "open", b.got = d.got, b.sock = d.sock, b.sent = Append(d.sent, kind),
         b.net = Append(d.net, Head(Pieces(kind, Len(d.sent) + 1))), b.rest = Tail(Pieces(kind, Len(d.sent) + 1)),
         NEW c \in Connection, Consistent(c), InTurn(c, d)
  PROVE  InTurn(c, b)
<1>1. PICK n \in Nat : n = Len(d.sent) + 1 /\ n \in Nat \ {0}
  BY StreamTyped
<1>2. PICK half, end, data, next : /\ half = [of |-> n, part |-> "half"] /\ end = [of |-> n, part |-> "end"]
                                   /\ data = [of |-> n, part |-> "data"] /\ next = [of |-> n + 1, part |-> "half"]
  OBVIOUS
<1>3. half \in Piece /\ end \in Piece /\ data \in Piece /\ next \in Piece
  BY <1>1, <1>2 DEF Piece
<1>4. PICK to : to = b.sent
  OBVIOUS
<1>5. /\ to \in Seq(AllKinds) /\ Len(to) = n /\ to[n] = kind /\ Len(d.sent) \in Nat
      /\ \A m \in 1..Len(d.sent) : to[m] = d.sent[m]
  BY <1>1, <1>4, StreamTyped, SentMore, SMTT(30)
<1>6. Pieces(kind, n) = <<half, end>> \o (IF kind \in Uploads THEN <<data>> ELSE <<>>)
  BY <1>2, Zenon DEF Pieces, Uploads
<1>7. PICK V \in Seq(Piece) :
        /\ V = b.rest \o Expected(b) /\ V # <<>> /\ V[1] = end /\ Chain(V, to) /\ Head(Pieces(kind, n)) = half
  <2>1. Expected(b) = <<next>>
    BY <1>1, <1>2, <1>4, <1>5 DEF Expected
  <2>2. CASE kind \in Uploads
    <3>1. Pieces(kind, n) = <<half, end, data>>
      <4>1. <<half, end>> \o <<data>> = <<half, end, data>>
        BY <1>3, Tuples, Zenon
      <4>. QED
        BY <1>6, <2>2, <4>1
    <3>2. Head(Pieces(kind, n)) = half /\ b.rest = <<end, data>>
      <4>1. Head(<<half, end, data>>) = half /\ Tail(<<half, end, data>>) = <<end, data>>
        BY <1>3, Tuples, Zenon
      <4>. QED
        BY <1>1, <3>1, <4>1, Zenon
    <3>3. <<end, data>> \o <<next>> = <<end, data, next>>
      BY <1>3, Tuples, Zenon
    <3>4. PICK W : W = <<end, data, next>>
      OBVIOUS
    <3>5. /\ W \in Seq(Piece) /\ Len(W) = 3 /\ W # <<>> /\ W[1] = end /\ W[2] = data /\ W[3] = next
      BY <1>3, <3>4
    <3>6. Chain(W, to)
      <4>1. Fits(W[1], to) /\ Fits(W[2], to) /\ Fits(W[3], to)
        BY <1>1, <1>2, <1>5, <2>2, <3>5 DEF Fits
      <4>2. W[2] = After(W[1], to) /\ W[3] = After(W[2], to)
        BY <1>1, <1>2, <1>5, <2>2, <3>5 DEF After
      <4>. QED
        BY <3>5, <4>1, <4>2 DEF Chain
    <3>. QED
      BY <2>1, <3>2, <3>3, <3>4, <3>5, <3>6
  <2>3. CASE kind \notin Uploads
    <3>1. Pieces(kind, n) = <<half, end>>
      <4>1. <<half, end>> \o <<>> = <<half, end>>
        BY <1>3, Tuples, Zenon
      <4>. QED
        BY <1>6, <2>3, <4>1
    <3>2. Head(Pieces(kind, n)) = half /\ b.rest = <<end>>
      <4>1. Head(<<half, end>>) = half /\ Tail(<<half, end>>) = <<end>>
        BY <1>3, Tuples, Zenon
      <4>. QED
        BY <1>1, <3>1, <4>1, Zenon
    <3>3. <<end>> \o <<next>> = <<end, next>>
      BY <1>3, Pairs, Zenon
    <3>4. PICK W : W = <<end, next>>
      OBVIOUS
    <3>5. /\ W \in Seq(Piece) /\ Len(W) = 2 /\ W # <<>> /\ W[1] = end /\ W[2] = next
      BY <1>3, <3>4
    <3>6. Chain(W, to)
      <4>1. Fits(W[1], to) /\ Fits(W[2], to)
        BY <1>1, <1>2, <1>5, <2>3, <3>5 DEF Fits
      <4>2. W[2] = After(W[1], to)
        BY <1>1, <1>2, <1>5, <2>3, <3>5 DEF After
      <4>. QED
        BY <3>5, <4>1, <4>2 DEF Chain
    <3>. QED
      BY <2>1, <3>2, <3>3, <3>4, <3>5, <3>6
  <2>. QED
    BY <2>2, <2>3
<1>8. PICK x \in Seq(Piece), y \in Seq(Piece), u \in Seq(Piece) : x = c.rbuf /\ y = d.net /\ u = <<half>> /\ Len(u) = 1 /\ u[1] = half
  <2>1. <<half>> \in Seq(Piece) /\ Len(<<half>>) = 1 /\ <<half>>[1] = half
    BY <1>3
  <2>. QED
    BY <2>1, StreamTyped
<1>9. Stream(c, d) = x \o (y \o u)
  <2>1. <<>> \o u = u
    BY ConcatEmptySeq
  <2>2. Expected(d) = u
    BY <1>1, <1>2, <1>8 DEF Expected
  <2>. QED
    BY <1>8, <2>1, <2>2 DEF Stream, Coming
<1>10. PICK S \in Seq(Piece) : S = x \o (y \o u)
  BY ConcatProperties
<1>11. Stream(c, b) = S \o V
  <2>1. PICK w \in Seq(Piece) : w = y \o u
    BY ConcatProperties
  <2>2. Append(y, half) = w
    BY <1>3, <1>8, <2>1, AppendIsConcat
  <2>3. Stream(c, b) = x \o (w \o V)
    BY <1>1, <1>7, <1>8, <2>2 DEF Stream, Coming
  <2>4. (x \o w) \o V = x \o (w \o V)
    BY Associative, Zenon
  <2>. QED
    BY <1>10, <2>1, <2>3, <2>4
<1>12. S # <<>> /\ S[Len(S)] = half
  <2>1. PICK w \in Seq(Piece) : w = x \o y
    BY ConcatProperties
  <2>2. S = w \o u
    <3>1. (x \o y) \o u = x \o (y \o u)
      BY Associative, Zenon
    <3>. QED
      BY <1>10, <2>1, <3>1
  <2>3. /\ Len(w \o u) = Len(w) + Len(u)
        /\ \A i \in 1..(Len(w) + Len(u)) : (w \o u)[i] = IF i <= Len(w) THEN w[i] ELSE u[i - Len(w)]
    BY ConcatProperties
  <2>4. Len(w) \in Nat
    OBVIOUS
  <2>5. Len(S) = Len(w) + 1
    BY <1>8, <2>2, <2>3
  <2>6. S[Len(w) + 1] = u[(Len(w) + 1) - Len(w)]
    BY <1>8, <2>2, <2>3, <2>4
  <2>7. (Len(w) + 1) - Len(w) = 1
    BY <2>4
  <2>. QED
    BY <1>8, <2>4, <2>5, <2>6, <2>7
<1>13. Chain(S, d.sent)
  BY <1>9, <1>10 DEF InTurn
<1>14. Chain(S \o V, to)
  <2>1. Chain(S, to)
    BY <1>4, <1>13, StreamTyped, ChainSent
  <2>2. V[1] = After(S[Len(S)], to)
    <3>1. half.part = "half" /\ half.of = n
      BY <1>2
    <3>2. After(half, to) = [of |-> half.of, part |-> "end"]
      BY <3>1 DEF After
    <3>. QED
      BY <1>2, <1>7, <1>12, <3>1, <3>2
  <2>. QED
    BY <1>7, <1>12, <2>1, <2>2, ChainConcat
<1>15. PICK i \in 0..Len(d.sent), more \in {0, 1} :
         Answered(Replies(c, d), d.sent, i, more) /\ Reading(c, S, d.sent, i, more)
  BY <1>9, <1>10 DEF InTurn
<1>16. Reading(c, S \o V, to, i, more)
  <2>1. S \o V # <<>> => S # <<>> /\ (S \o V)[1] = S[1]
    <3>1. S # <<>> => S \o V # <<>> /\ S[1] = (S \o V)[1]
      BY <1>14, ChainPrefix
    <3>. QED
      BY <1>12, <3>1
  <2>2. i < Len(d.sent) => i < Len(to) /\ to[i + 1] = d.sent[i + 1]
    BY <1>1, <1>5
  <2>. QED
    BY <1>15, <2>1, <2>2, ReadingBegins
<1>17. Replies(c, b) = Replies(c, d)
  BY DEF Replies
<1>18. Answered(Replies(c, b), to, i, more)
  <2>1. Replies(c, d) \in Seq(Nat) /\ d.sent \in Seq(AllKinds)
    BY RepliesAre, StreamTyped
  <2>2. Answered(Replies(c, d), to, i, more)
    BY <1>4, <1>15, <2>1, AnsweredSent
  <2>. QED
    BY <1>17, <2>2
<1>19. i \in 0..Len(to)
  BY <1>1, <1>5
<1>. QED
  BY <1>4, <1>11, <1>14, <1>16, <1>18, <1>19 DEF InTurn

-----------------------------------------------------------------------------
(* Every step keeps the replies in order. *)

\* Who waits or is live has a peer of his own.
LEMMA OwnPeer ==
  ASSUME IInv, RInv, NEW f \in Fds, Queued(f) \/ Live(f)
  PROVE  /\ owner[f] \in Clients /\ \A g \in Fds : g # f => owner[g] # owner[f]
         /\ Peer(f) \in ClientRecord /\ Peer(f).at \in {"open", "left"} /\ ~(Queued(f) /\ Live(f))
<1>1. owner[f] # None
  BY DEF IInv, Accounting, Queues, Sockets, Queued
<1>2. owner[f] \in Clients
  BY <1>1 DEF IInv, Typed
<1>3. Peer(f) \in ClientRecord
  BY <1>2 DEF Peer, IInv, Typed
<1>4. ~(Queued(f) /\ Live(f))
  BY DEF IInv, Accounting, Queues, Queued
<1>. QED
  BY <1>1, <1>2, <1>3, <1>4 DEF RInv, Peers, Peer

\* A turn: the client at the other end is still served.
LEMMA TurnServes ==
  ASSUME IInv, RInv, NEW t \in Threads, NEW state, state # "closed", Driving(t, state),
         NEW e, Becomes(t, e),
         NEW b, client' = [client EXCEPT ![owner[loop[t].fd]] = b], b.at = Peer(loop[t].fd).at,
         e.state # "closing" => Serves(e, b),
         InOrder(b.got \o b.sock, b.sent),
         Elsewhere, UNCHANGED owner
  PROVE  RInv'
<1>1. PICK f \in Fds, i \in Clients : f = loop[t].fd /\ i = owner[f]
  BY AtHand
<1>2. Live(f) /\ UNCHANGED <<owner, new_conn_queue>>
  BY <1>1 DEF Driving, Live, Elsewhere
<1>3. /\ \A g \in Fds : g # f => owner[g] # i
      /\ client[i].at \in {"open", "left"} /\ ~Queued(f)
  BY <1>1, <1>2, OwnPeer DEF Peer
<1>4. /\ conns'[f] = e /\ \A g \in Fds : g # f => conns'[g] = conns[g]
      /\ client'[i] = b /\ \A j \in Clients : j # i => client'[j] = client[j]
      /\ b.at = client[i].at
  BY <1>1 DEF Becomes, IInv, Typed, Peer
<1>5. Peers'
  BY <1>2, <1>3, <1>4 DEF RInv, Peers
<1>6. ASSUME NEW g \in Fds
      PROVE  /\ Queued(g)' => Serves(Closed, Peer(g)')
             /\ Live(g)' /\ conns'[g].state # "closing" => Serves(conns'[g], Peer(g)')
  <2>1. Queued(g)' <=> Queued(g)
    BY <1>2 DEF Queued
  <2>2. CASE g = f
    <3>1. Peer(f)' = b
      BY <1>1, <1>2, <1>4 DEF Peer
    <3>. QED
      BY <1>3, <1>4, <2>1, <2>2, <3>1
  <2>3. CASE g # f
    <3>1. Live(g)' <=> Live(g)
      BY <1>4, <2>3 DEF Live
    <3>2. Queued(g) \/ Live(g) => Peer(g)' = Peer(g)
      BY <1>2, <1>3, <1>4, <2>3, OwnPeer DEF Peer
    <3>. QED
      BY <1>4, <2>1, <2>3, <3>1, <3>2 DEF RInv, Serving
  <2>. QED
    BY <2>2, <2>3
<1>7. RepliesInOrder'
  BY <1>4 DEF RInv, RepliesInOrder
<1>. QED
  BY <1>5, <1>6, <1>7 DEF RInv, Serving

\* What is known of the connection and of the client before a turn and after it.
LEMMA BeforeTurn ==
  ASSUME IInv, RInv, NEW t \in Threads, NEW state, state \notin {"closed", "closing"}, Driving(t, state)
  PROVE  Serves(conns[loop[t].fd], Peer(loop[t].fd))
<1>1. loop[t].fd \in Fds
  BY AtHand
<1>. QED
  BY <1>1 DEF Driving, Live, RInv, Serving

LEMMA AfterTurn ==
  ASSUME IInv, IInv', NEW t \in Threads, NEW state, Driving(t, state),
         NEW e, Becomes(t, e), NEW b, client' = [client EXCEPT ![owner[loop[t].fd]] = b]
  PROVE  e \in Connection /\ b \in ClientRecord
<1>1. PICK f \in Fds, i \in Clients : f = loop[t].fd /\ i = owner[f]
  BY AtHand
<1>2. conns'[f] = e /\ client'[i] = b
  BY <1>1 DEF Becomes, IInv, Typed
<1>3. conns' \in [Fds -> Connection] /\ client' \in [Clients -> ClientRecord]
  BY DEF IInv, Typed
<1>. QED
  BY <1>1, <1>2, <1>3

\* A turn in which nothing is sent.
LEMMA SilentServes ==
  ASSUME IInv, RInv, NEW t \in Threads, NEW state, state \notin {"closed", "closing"}, Driving(t, state),
         NEW e, Becomes(t, e),
         NEW b, client' = [client EXCEPT ![owner[loop[t].fd]] = b],
         b.at = Peer(loop[t].fd).at, b.got = Peer(loop[t].fd).got, b.sock = Peer(loop[t].fd).sock,
         b.sent = Peer(loop[t].fd).sent,
         InTurn(conns[loop[t].fd], Peer(loop[t].fd)) /\ e.state # "closing" => InTurn(e, b),
         Elsewhere, UNCHANGED owner
  PROVE  RInv'
<1>1. PICK c, d : c = conns[loop[t].fd] /\ d = Peer(loop[t].fd)
  OBVIOUS
<1>2. Serves(c, d)
  BY <1>1, BeforeTurn
<1>3. e.state # "closing" => Serves(e, b)
  BY <1>1, <1>2 DEF Serves, Lost
<1>4. InOrder(b.got \o b.sock, b.sent)
  <2>1. owner[loop[t].fd] \in Clients
    BY AtHand
  <2>2. InOrder(d.got \o d.sock, d.sent)
    BY <1>1, <2>1 DEF RInv, RepliesInOrder, Peer
  <2>. QED
    BY <1>1, <2>2
<1>. QED
  BY <1>3, <1>4, TurnServes

\* ... and nothing received.
LEMMA InnerServes ==
  ASSUME IInv, RInv, NEW t \in Threads, NEW state, state \notin {"closed", "closing"}, Driving(t, state),
         NEW e, Becomes(t, e),
         InTurn(conns[loop[t].fd], Peer(loop[t].fd)) /\ e.state # "closing" => InTurn(e, Peer(loop[t].fd)),
         Elsewhere, UNCHANGED <<owner, client>>
  PROVE  RInv'
<1>1. client' = [client EXCEPT ![owner[loop[t].fd]] = Peer(loop[t].fd)]
  <2>1. owner[loop[t].fd] \in Clients
    BY AtHand
  <2>. QED
    BY <2>1 DEF Peer, IInv, Typed
<1>. QED
  BY <1>1, SilentServes

LEMMA WaitServes ==
  ASSUME IInv, IInv', RInv, NEW t \in Threads, NEW state \in {"read", "parse_cmd", "new_cmd"}, Driving(t, state),
         Wait(t, conns[loop[t].fd]), Elsewhere, UNCHANGED kernel
  PROVE  RInv'
<1>. DEFINE c == conns[loop[t].fd]
            d == Peer(loop[t].fd)
            e == [c EXCEPT !.ev_flags = "read", !.state = "read"]
<1>1. c \in Connection /\ c.state = state /\ d \in ClientRecord
  BY AtHand
<1>2. Becomes(t, e) /\ UNCHANGED <<owner, client>>
  BY DEF Wait, kernel
<1>3. e \in Connection /\ e.state = "read" /\ e.noreply = c.noreply /\ e.rbuf = c.rbuf
  BY <1>1 DEF Connection, States
<1>. HIDE DEF c, d, e
<1>4. ASSUME InTurn(c, d)
      PROVE  InTurn(e, d)
  <2>1. ~c.noreply /\ c.state \in Idle /\ e.state \in Idle
    BY <1>1, <1>3, <1>4, IdleSpeaks DEF Idle
  <2>2. Stream(e, d) = Stream(c, d)
    BY <1>3 DEF Stream
  <2>. QED
    BY <1>1, <1>3, <1>4, <2>1, <2>2, IdleInTurn
<1>5. InTurn(conns[loop[t].fd], Peer(loop[t].fd)) /\ e.state # "closing" => InTurn(e, Peer(loop[t].fd))
  BY <1>4 DEF c, d
<1>. QED
  BY <1>2, <1>5, InnerServes

LEMMA ReadServes ==
  ASSUME IInv, IInv', RInv, NEW t \in Threads, conn_read(t)
  PROVE  RInv'
<1>1. PICK c \in Connection, d \in ClientRecord : c = conns[loop[t].fd] /\ d = Peer(loop[t].fd)
  BY AtHand DEF conn_read
<1>2. Driving(t, "read") /\ Elsewhere /\ UNCHANGED owner /\ c.state = "read"
  BY <1>1 DEF conn_read, Driving
<1>3. CASE d.net # <<>>
  <2>. DEFINE e == [c EXCEPT !.rbuf = @ \o d.net, !.state = "parse_cmd"]
              b == [d EXCEPT !.net = <<>>]
  <2>1. Becomes(t, e) /\ client' = [client EXCEPT ![owner[loop[t].fd]].net = <<>>]
    BY <1>1, <1>3 DEF conn_read
  <2>2. client' = [client EXCEPT ![owner[loop[t].fd]] = b]
    BY <1>1, <2>1 DEF Peer
  <2>3. e \in Connection /\ b \in ClientRecord
    BY <1>2, <2>1, <2>2, AfterTurn
  <2>4. e.state = "parse_cmd" /\ e.noreply = c.noreply /\ e.rbuf = c.rbuf \o d.net
    BY DEF Connection
  <2>5. b.at = d.at /\ b.got = d.got /\ b.sock = d.sock /\ b.sent = d.sent
    BY DEF ClientRecord
  <2>6. Stream(e, b) = Stream(c, d)
    BY <2>3, <2>4, ReadAll
  <2>. HIDE DEF e, b
  <2>7. ASSUME InTurn(c, d)
        PROVE  InTurn(e, b)
    <3>1. ~c.noreply /\ c.state \in Idle /\ e.state \in Idle
      BY <1>2, <2>4, <2>7, IdleSpeaks DEF Idle
    <3>. QED
      BY <2>3, <2>4, <2>5, <2>6, <2>7, <3>1, IdleInTurn
  <2>. QED
    BY <1>1, <1>2, <2>1, <2>2, <2>5, <2>7, SilentServes
<1>4. CASE d.net = <<>> /\ d.at = "left"
  <2>1. Becomes(t, [c EXCEPT !.state = "closing"]) /\ UNCHANGED client
    BY <1>1, <1>4 DEF conn_read
  <2>2. [c EXCEPT !.state = "closing"].state = "closing"
    BY DEF Connection
  <2>. QED
    BY <1>2, <2>1, <2>2, InnerServes
<1>5. CASE d.net = <<>> /\ d.at # "left"
  <2>1. Wait(t, conns[loop[t].fd]) /\ UNCHANGED kernel
    BY <1>1, <1>2, <1>5 DEF conn_read, kernel
  <2>. QED
    BY <1>2, <2>1, WaitServes
<1>. QED
  BY <1>3, <1>4, <1>5

LEMMA ParseServes ==
  ASSUME IInv, IInv', RInv, NEW t \in Threads, conn_parse_cmd(t)
  PROVE  RInv'
<1>1. Driving(t, "parse_cmd") /\ Elsewhere /\ UNCHANGED kernel /\ UNCHANGED <<owner, client>>
  BY DEF conn_parse_cmd, kernel
<1>2. PICK c \in Connection, d \in ClientRecord : /\ c = conns[loop[t].fd] /\ d = Peer(loop[t].fd)
                                                  /\ c.state = "parse_cmd" /\ Consistent(c)
  BY <1>1, AtHand
<1>3. c.item = None /\ c.ileft = 0
  BY <1>2, HoldsNothing, SMTT(30)
<1>4. CASE Wait(t, conns[loop[t].fd])
  BY <1>1, <1>4, WaitServes, SMTT(30)
<1>5. ASSUME NEW i \in Ends(c.rbuf), \A m \in Ends(c.rbuf) : i <= m,
             NEW r \in process_command([c EXCEPT !.rbuf = SubSeq(@, i + 1, Len(@))], c.rbuf[i], d.sent[c.rbuf[i].of]),
             Becomes(t, r.conn)
      PROVE  RInv'
  <2>1. InTurn(c, d) /\ r.conn.state # "closing" => InTurn(r.conn, d)
    BY <1>2, <1>3, <1>5, CommandInTurn
  <2>2. PICK e : e = r.conn
    OBVIOUS
  <2>3. Becomes(t, e)
    BY <1>5, <2>2
  <2>4. InTurn(conns[loop[t].fd], Peer(loop[t].fd)) /\ e.state # "closing"
          => InTurn(e, Peer(loop[t].fd))
    BY <1>2, <2>1, <2>2
  <2>. QED
    BY <1>1, <2>3, <2>4, InnerServes, SMTT(30)
<1>. QED
  BY <1>2, <1>4, <1>5, ZenonT(40) DEF conn_parse_cmd

LEMMA NewCmdServes ==
  ASSUME IInv, IInv', RInv, NEW t \in Threads, conn_new_cmd(t)
  PROVE  RInv'
<1>. DEFINE c == conns[loop[t].fd]
            d == Peer(loop[t].fd)
<1>1. Driving(t, "new_cmd") /\ Elsewhere /\ UNCHANGED kernel /\ UNCHANGED <<owner, client>>
  BY DEF conn_new_cmd, kernel
<1>2. c \in Connection /\ c.state = "new_cmd" /\ d \in ClientRecord
  BY <1>1, AtHand
<1>3. CASE \E flags \in {"none", "read", "write"} : Becomes(t, [c EXCEPT !.ev_flags = flags])
  <2>1. PICK flags \in {"none", "read", "write"} : Becomes(t, [c EXCEPT !.ev_flags = flags])
    BY <1>3
  <2>. DEFINE e == [c EXCEPT !.ev_flags = flags]
  <2>2. /\ e \in Connection /\ e.state = c.state /\ e.rbuf = c.rbuf /\ e.noreply = c.noreply /\ e.item = c.item
        /\ e.rlbytes = c.rlbytes /\ e.sbytes = c.sbytes /\ e.write_and_go = c.write_and_go /\ e.out = c.out
    BY <1>2 DEF Connection
  <2>. HIDE DEF c, e
  <2>3. InTurn(c, d) => InTurn(e, d)
    BY <1>2, <2>2, SameInTurn
  <2>. QED
    BY <1>1, <2>1, <2>3, InnerServes DEF c, e
<1>4. CASE Becomes(t, [c EXCEPT !.state = "parse_cmd"])
  <2>. DEFINE e == [c EXCEPT !.state = "parse_cmd"]
  <2>1. e \in Connection /\ e.state = "parse_cmd" /\ e.noreply = c.noreply /\ e.rbuf = c.rbuf
    BY <1>2 DEF Connection, States
  <2>. HIDE DEF c, d, e
  <2>2. ASSUME InTurn(c, d)
        PROVE  InTurn(e, d)
    <3>1. ~c.noreply /\ c.state \in Idle /\ e.state \in Idle
      BY <1>2, <2>1, <2>2, IdleSpeaks DEF Idle
    <3>2. Stream(e, d) = Stream(c, d)
      BY <2>1 DEF Stream
    <3>. QED
      BY <1>2, <2>1, <2>2, <3>1, <3>2, IdleInTurn
  <2>. QED
    BY <1>1, <1>4, <2>2, InnerServes DEF c, d, e
<1>5. CASE Wait(t, c)
  BY <1>1, <1>5, WaitServes
<1>6. c.ev_flags \in {"none", "read", "write"}
  BY <1>2 DEF Connection
<1>7. loop[t].nreqs = 0 => \E flags \in {"none", "read", "write"} : Becomes(t, [c EXCEPT !.ev_flags = flags])
  <2>1. CASE c.rbuf # <<>>
    BY <2>1 DEF conn_new_cmd
  <2>2. CASE c.rbuf = <<>>
    BY <1>6, <2>2 DEF conn_new_cmd
  <2>. QED
    BY <2>1, <2>2
<1>. QED
  BY <1>3, <1>4, <1>5, <1>7 DEF conn_new_cmd

LEMMA FetchServes ==
  ASSUME IInv, IInv', RInv, NEW t \in Threads, NEW state \in {"nread", "swallow"}, Driving(t, state),
         NEW c \in Connection, c = conns[loop[t].fd],
         NEW taken \in Connection, taken.state = state, taken.rbuf = c.rbuf,
         taken.noreply = c.noreply, taken.item = c.item,
         \/ state = "nread" /\ c.rlbytes = 1 /\ taken.rlbytes = 0
         \/ state = "swallow" /\ c.sbytes = 1 /\ taken.sbytes = 0,
         Fetch(t, taken), Elsewhere
  PROVE  RInv'
<1>1. PICK d \in ClientRecord : d = Peer(loop[t].fd)
  BY AtHand
<1>2. UNCHANGED owner /\ c.state = state /\ c.rbuf \in Seq(Piece)
  BY StreamTyped DEF Fetch, Driving
<1>3. CASE c.rbuf # <<>>
  <2>. DEFINE e == [taken EXCEPT !.rbuf = Tail(@)]
  <2>1. Becomes(t, e) /\ UNCHANGED client
    BY <1>3 DEF Fetch
  <2>2. Tail(c.rbuf) \in Seq(Piece) /\ 1 \in 1..Len(c.rbuf)
    BY <1>2, <1>3
  <2>3. /\ e \in Connection /\ e.state = c.state /\ e.rbuf = Tail(c.rbuf) /\ e.noreply = c.noreply
        /\ e.item = c.item /\ e.rlbytes = taken.rlbytes /\ e.sbytes = taken.sbytes
    BY <1>2, <2>2 DEF Connection
  <2>. HIDE DEF e
  <2>4. ASSUME InTurn(c, d)
        PROVE  InTurn(e, d)
    <3>1. Chain(Stream(c, d), d.sent)
      BY <2>4 DEF InTurn
    <3>2. Drop(e.rbuf, c.rbuf, 1)
      BY <1>2, <1>3, <2>3, DropTail
    <3>3. /\ Chain(Stream(e, d), d.sent)
          /\ Stream(e, d) # <<>> => Stream(e, d)[1] = After(c.rbuf[1], d.sent)
      BY <2>2, <2>3, <3>1, <3>2, Shorter
    <3>4. 1 \in 1..Len(Stream(c, d)) /\ Stream(c, d)[1] = c.rbuf[1]
      BY <2>2, Buffered, SMTT(30)
    <3>5. Stream(c, d) # <<>>
      BY <3>4
    <3>6. \/ c.state = "nread" /\ c.rlbytes = 1 /\ e.rlbytes = 0
          \/ c.state = "swallow" /\ c.sbytes = 1 /\ e.sbytes = 0
      BY <1>2, <2>3, SMTT(30)
    <3>. QED
      BY <2>3, <2>4, <3>3, <3>4, <3>5, <3>6, FetchedInTurn
  <2>. QED
    BY <1>1, <1>2, <2>1, <2>4, InnerServes
<1>4. CASE c.rbuf = <<>> /\ d.net # <<>>
  <2>. DEFINE b == [d EXCEPT !.net = Tail(@)]
  <2>1. Becomes(t, taken) /\ client' = [client EXCEPT ![owner[loop[t].fd]].net = Tail(@)]
    BY <1>1, <1>4 DEF Fetch
  <2>2. client' = [client EXCEPT ![owner[loop[t].fd]] = b]
    BY <1>1, <2>1, SMTT(30) DEF Peer
  <2>3. b \in ClientRecord
    BY <2>1, <2>2, AfterTurn
  <2>4. b.at = d.at /\ b.got = d.got /\ b.sock = d.sock /\ b.sent = d.sent
    BY DEF ClientRecord
  <2>5. ASSUME InTurn(c, d)
        PROVE  InTurn(taken, b)
    <3>1. Chain(Stream(c, d), d.sent)
      BY <2>5 DEF InTurn
    <3>2. /\ Stream(c, d) # <<>>
          /\ Chain(Stream(taken, b), d.sent)
          /\ Stream(taken, b) # <<>> => Stream(taken, b)[1] = After(Stream(c, d)[1], d.sent)
      BY <1>4, <3>1, ShorterNet
    <3>. HIDE DEF b
    <3>3. \/ c.state = "nread" /\ c.rlbytes = 1 /\ taken.rlbytes = 0
          \/ c.state = "swallow" /\ c.sbytes = 1 /\ taken.sbytes = 0
      BY <1>2
    <3>. QED
      BY <1>2, <2>3, <2>4, <2>5, <3>2, <3>3, FetchedInTurn
  <2>. HIDE DEF b
  <2>. QED
    BY <1>1, <1>2, <2>1, <2>2, <2>4, <2>5, SilentServes
<1>5. CASE c.rbuf = <<>> /\ d.net = <<>> /\ d.at = "left"
  <2>1. Becomes(t, [c EXCEPT !.state = "closing"]) /\ UNCHANGED client
    BY <1>1, <1>5 DEF Fetch
  <2>2. [c EXCEPT !.state = "closing"].state = "closing"
    BY DEF Connection
  <2>. QED
    BY <1>2, <2>1, <2>2, InnerServes
<1>6. CASE c.rbuf = <<>> /\ d.net = <<>> /\ d.at # "left"
  <2>. DEFINE e == [c EXCEPT !.ev_flags = "read"]
  <2>1. Becomes(t, e) /\ UNCHANGED client
    BY <1>1, <1>6 DEF Fetch
  <2>2. /\ e \in Connection /\ e.state = c.state /\ e.rbuf = c.rbuf /\ e.noreply = c.noreply /\ e.item = c.item
        /\ e.rlbytes = c.rlbytes /\ e.sbytes = c.sbytes /\ e.write_and_go = c.write_and_go /\ e.out = c.out
    BY DEF Connection
  <2>. HIDE DEF e
  <2>3. InTurn(c, d) => InTurn(e, d)
    BY <2>2, SameInTurn
  <2>. QED
    BY <1>1, <1>2, <2>1, <2>3, InnerServes
<1>. QED
  BY <1>3, <1>4, <1>5, <1>6

LEMMA NreadServes ==
  ASSUME IInv, IInv', RInv, NEW t \in Threads, conn_nread(t)
  PROVE  RInv'
<1>1. Driving(t, "nread") /\ Elsewhere
  BY DEF conn_nread
<1>2. PICK c \in Connection, d \in ClientRecord : /\ c = conns[loop[t].fd] /\ d = Peer(loop[t].fd)
                                                  /\ c.state = "nread"
  BY <1>1, AtHand
<1>3. CASE c.rlbytes = 0
  <2>. DEFINE e == [out_string(c, c.item) EXCEPT !.item = None]
  <2>1. Becomes(t, e) /\ UNCHANGED kernel /\ UNCHANGED <<owner, client>>
    BY <1>2, <1>3 DEF conn_nread, kernel
  <2>2. client' = [client EXCEPT ![owner[loop[t].fd]] = d]
    <3>1. owner[loop[t].fd] \in Clients
      BY <1>1, AtHand
    <3>. QED
      BY <1>2, <2>1, <3>1 DEF Peer, IInv, Typed
  <2>3. e \in Connection
    BY <1>1, <2>1, <2>2, AfterTurn
  <2>4. InTurn(c, d) => InTurn(e, d)
    BY <1>2, <1>3, <2>3, StoredInTurn
  <2>. HIDE DEF e
  <2>. QED
    BY <1>1, <1>2, <2>1, <2>4, InnerServes
<1>4. CASE c.rlbytes = 1
  <2>. DEFINE taken == [c EXCEPT !.rlbytes = 0]
  <2>1. Fetch(t, taken)
    BY <1>2, <1>4 DEF conn_nread
  <2>2. /\ taken \in Connection /\ taken.state = "nread" /\ taken.rbuf = c.rbuf /\ taken.noreply = c.noreply
        /\ taken.item = c.item /\ taken.rlbytes = 0
    BY <1>2 DEF Connection
  <2>. HIDE DEF taken
  <2>. QED
    BY <1>1, <1>2, <1>4, <2>1, <2>2, FetchServes
<1>5. c.rlbytes \in {0, 1}
  BY DEF Connection
<1>. QED
  BY <1>3, <1>4, <1>5

LEMMA SwallowServes ==
  ASSUME IInv, IInv', RInv, NEW t \in Threads, conn_swallow(t)
  PROVE  RInv'
<1>1. Driving(t, "swallow") /\ Elsewhere
  BY DEF conn_swallow
<1>2. PICK c \in Connection, d \in ClientRecord : /\ c = conns[loop[t].fd] /\ d = Peer(loop[t].fd)
                                                  /\ c.state = "swallow"
  BY <1>1, AtHand
<1>3. CASE c.sbytes = 0
  <2>. DEFINE e == [c EXCEPT !.state = "new_cmd"]
  <2>1. Becomes(t, e) /\ UNCHANGED kernel /\ UNCHANGED <<owner, client>>
    BY <1>2, <1>3 DEF conn_swallow, kernel
  <2>2. e \in Connection /\ e.state = "new_cmd" /\ e.noreply = c.noreply /\ e.rbuf = c.rbuf
    BY DEF Connection, States
  <2>. HIDE DEF e
  <2>3. InTurn(c, d) => InTurn(e, d)
    BY <1>2, <1>3, <2>2, SwallowedInTurn
  <2>. QED
    BY <1>1, <1>2, <2>1, <2>3, InnerServes
<1>4. CASE c.sbytes = 1
  <2>. DEFINE taken == [c EXCEPT !.sbytes = 0]
  <2>1. Fetch(t, taken)
    BY <1>2, <1>4 DEF conn_swallow
  <2>2. /\ taken \in Connection /\ taken.state = "swallow" /\ taken.rbuf = c.rbuf /\ taken.noreply = c.noreply
        /\ taken.item = c.item /\ taken.sbytes = 0
    BY <1>2 DEF Connection
  <2>. HIDE DEF taken
  <2>. QED
    BY <1>1, <1>2, <1>4, <2>1, <2>2, FetchServes
<1>5. c.sbytes \in {0, 1}
  BY DEF Connection
<1>. QED
  BY <1>3, <1>4, <1>5

\* A reply is sent when there is room for it; without room it is kept, or the client has gone.
LEMMA TransmitServes ==
  ASSUME IInv, IInv', RInv, NEW t \in Threads, NEW state \in {"write", "mwrite"}, Driving(t, state),
         NEW c \in Connection, c = conns[loop[t].fd],
         NEW sent \in Connection, sent.noreply = c.noreply, sent.rbuf = c.rbuf, sent.sbytes = c.sbytes,
         sent.state = IF state = "write" THEN c.write_and_go ELSE "new_cmd",
         NEW freed, transmit(t, sent, freed), Elsewhere
  PROVE  RInv'
<1>1. PICK d \in ClientRecord : d = Peer(loop[t].fd)
  BY AtHand, SMTT(30)
<1>2. UNCHANGED owner /\ c.state = state /\ c.out \in Nat
  BY AtHand DEF transmit, Driving, Consistent
<1>3. CASE Len(d.sock) < SocketRoom
  <2>. DEFINE b == [d EXCEPT !.sock = Append(@, c.out)]
  <2>1. client' = [client EXCEPT ![owner[loop[t].fd]].sock = Append(@, c.out)]
    BY <1>1, <1>3 DEF transmit
  <2>2. client' = [client EXCEPT ![owner[loop[t].fd]] = b]
    BY <1>1, <2>1 DEF Peer
  <2>3. PICK e : /\ Becomes(t, e)
                 /\ e = [sent EXCEPT !.out = None] \/ e = [c EXCEPT !.state = "closing"]
    BY <1>1, <1>3 DEF transmit
  <2>4. b \in ClientRecord /\ e \in Connection
    BY <2>2, <2>3, AfterTurn
  <2>5. InTurn(c, d) /\ d.at \in {"open", "left"}
    <3>1. Serves(c, d)
      BY <1>1, BeforeTurn
    <3>2. ~Lost(d)
      <4>1. Len(d.sock) \in Nat /\ SocketRoom \in Nat
        BY ConnectionsAssumption DEF ClientRecord
      <4>. QED
        BY <1>3, <4>1 DEF Lost
    <3>. QED
      BY <3>1, <3>2 DEF Serves
  <2>6. b.at = d.at
    BY DEF ClientRecord
  <2>7. /\ InOrder(b.got \o b.sock, b.sent)
        /\ \A x \in Connection :
             /\ x.noreply = c.noreply /\ x.rbuf = c.rbuf /\ x.sbytes = c.sbytes
             /\ x.state = IF c.state = "write" THEN c.write_and_go ELSE "new_cmd"
             => InTurn(x, b)
    BY <1>2, <2>4, <2>5, SentInTurn
  <2>. HIDE DEF b
  <2>8. e.state # "closing" => Serves(e, b)
    <3>1. CASE e = [sent EXCEPT !.out = None]
      <4>1. e.noreply = c.noreply /\ e.rbuf = c.rbuf /\ e.sbytes = c.sbytes /\ e.state = sent.state
        BY <3>1 DEF Connection
      <4>2. InTurn(e, b)
        BY <1>2, <2>4, <2>7, <4>1
      <4>. QED
        BY <2>5, <2>6, <4>2 DEF Serves
    <3>2. CASE e = [c EXCEPT !.state = "closing"]
      BY <3>2 DEF Connection
    <3>. QED
      BY <2>3, <3>1, <3>2
  <2>. QED
    BY <1>1, <1>2, <2>2, <2>3, <2>6, <2>7, <2>8, TurnServes
<1>4. CASE ~(Len(d.sock) < SocketRoom)
  <2>1. UNCHANGED client
    BY <1>1, <1>4 DEF transmit
  <2>2. CASE d.at = "left"
    <3>1. Lost(d)
      <4>1. Len(d.sock) \in Nat /\ SocketRoom \in Nat
        BY ConnectionsAssumption DEF ClientRecord
      <4>. QED
        BY <1>4, <2>2, <4>1 DEF Lost
    <3>2. \A e : Serves(e, d)
      BY <2>2, <3>1 DEF Serves
    <3>3. PICK e : Becomes(t, e)
      BY DEF transmit
    <3>4. PICK i \in Clients : i = owner[loop[t].fd] /\ d = client[i]
      BY <1>1, AtHand DEF Peer
    <3>5. client' = [client EXCEPT ![owner[loop[t].fd]] = d]
      BY <2>1, <3>4 DEF IInv, Typed
    <3>6. InOrder(d.got \o d.sock, d.sent)
      BY <3>4 DEF RInv, RepliesInOrder
    <3>. QED
      BY <1>1, <1>2, <3>2, <3>3, <3>5, <3>6, TurnServes
  <2>3. CASE d.at # "left"
    <3>. DEFINE e == [c EXCEPT !.ev_flags = "write"]
    <3>1. Becomes(t, e)
      BY <1>1, <1>4, <2>3 DEF transmit
    <3>2. /\ e \in Connection /\ e.state = c.state /\ e.rbuf = c.rbuf /\ e.noreply = c.noreply /\ e.item = c.item
          /\ e.rlbytes = c.rlbytes /\ e.sbytes = c.sbytes /\ e.write_and_go = c.write_and_go /\ e.out = c.out
      BY DEF Connection
    <3>. HIDE DEF e
    <3>3. InTurn(c, d) => InTurn(e, d)
      BY <3>2, SameInTurn
    <3>. QED
      BY <1>1, <1>2, <2>1, <3>1, <3>3, InnerServes
  <2>. QED
    BY <2>2, <2>3
<1>. QED
  BY <1>3, <1>4, SMTT(30)

LEMMA WriteServes ==
  ASSUME IInv, IInv', RInv, NEW t \in Threads, conn_write(t) \/ conn_mwrite(t)
  PROVE  RInv'
<1>1. CASE conn_write(t)
  <2>1. Driving(t, "write") /\ Elsewhere
    BY <1>1 DEF conn_write
  <2>2. PICK c \in Connection : c = conns[loop[t].fd] /\ c.state = "write"
    BY <2>1, AtHand
  <2>. DEFINE sent == [c EXCEPT !.state = c.write_and_go]
  <2>3. transmit(t, sent, 0)
    BY <1>1, <2>2 DEF conn_write
  <2>4. /\ sent \in Connection /\ sent.noreply = c.noreply /\ sent.rbuf = c.rbuf /\ sent.sbytes = c.sbytes
        /\ sent.state = c.write_and_go
    BY DEF Connection, States
  <2>. HIDE DEF sent
  <2>. QED
    BY <2>1, <2>2, <2>3, <2>4, TransmitServes
<1>2. CASE conn_mwrite(t)
  <2>1. Driving(t, "mwrite") /\ Elsewhere
    BY <1>2 DEF conn_mwrite
  <2>2. PICK c \in Connection : c = conns[loop[t].fd] /\ c.state = "mwrite"
    BY <2>1, AtHand
  <2>. DEFINE sent == [conn_release_items(c) EXCEPT !.state = "new_cmd"]
  <2>3. transmit(t, sent, Held(c))
    BY <1>2, <2>2 DEF conn_mwrite
  <2>4. /\ sent \in Connection /\ sent.noreply = c.noreply /\ sent.rbuf = c.rbuf /\ sent.sbytes = c.sbytes
        /\ sent.state = "new_cmd"
    BY DEF Connection, States, conn_release_items
  <2>. HIDE DEF sent
  <2>. QED
    BY <2>1, <2>2, <2>3, <2>4, TransmitServes
<1>. QED
  BY <1>1, <1>2

\* A connection that is being closed serves nobody any more.
LEMMA CleanupServes ==
  ASSUME IInv, RInv, NEW t \in Threads, conn_cleanup(t)
  PROVE  RInv'
<1>1. Driving(t, "closing") /\ UNCHANGED <<owner, client, new_conn_queue>>
  BY DEF conn_cleanup, Elsewhere, kernel
<1>2. PICK f \in Fds : f = loop[t].fd /\ Live(f)
  BY <1>1, AtHand DEF Driving, Live
<1>3. \A g \in Fds : (Live(g)' => g # f /\ Live(g)) /\ (g # f => conns'[g] = conns[g])
  <2>1. PICK e : conns' = [conns EXCEPT ![f] = e] /\ e.state = "closed"
    <3>1. PICK e, item, ileft : Becomes(t, e) /\ e = [Closed EXCEPT !.item = item, !.ileft = ileft]
      BY DEF conn_cleanup
    <3>2. e.state = "closed"
      BY <3>1 DEF Closed
    <3>. QED
      BY <1>2, <3>1, <3>2 DEF Becomes
  <2>2. conns \in [Fds -> Connection]
    BY DEF IInv, Typed
  <2>. QED
    BY <2>1, <2>2 DEF Live
<1>4. \A g : (Queued(g)' <=> Queued(g)) /\ Peer(g)' = Peer(g)
  BY <1>1 DEF Queued, Peer
<1>5. Serving'
  BY <1>3, <1>4 DEF RInv, Serving
<1>6. Peers' /\ RepliesInOrder'
  BY <1>1 DEF RInv, Peers, RepliesInOrder
<1>. QED
  BY <1>5, <1>6 DEF RInv

\* A client that is over, and one that has not begun.
LEMMA NothingInOrder ==
  ASSUME NEW where
  PROVE  /\ At(where).at = where
         /\ InOrder(At(where).got \o At(where).sock, At(where).sent)
<1>1. At(where).at = where /\ At(where).got = <<>> /\ At(where).sock = <<>> /\ At(where).sent = <<>>
  BY DEF At
<1>2. PICK none \in Seq(Nat) : none = <<>> /\ Len(none) = 0
  BY EmptySeq
<1>3. none \o none = none
  BY <1>2, ConcatEmptySeq
<1>4. DOMAIN none = {}
  BY <1>2
<1>5. InOrder(none, none)
  <2>1. \A P : {n \in DOMAIN none : none[n] = P} = {}
    BY <1>4
  <2>2. {n \in DOMAIN none : none[n] = Error} = {} /\ {n \in DOMAIN none : none[n] = "set noreply"} = {}
    BY <1>4, Zenon
  <2>3. Cardinality({}) = 0 /\ 0 <= 0
    BY FS_EmptySet
  <2>4. Cardinality({n \in DOMAIN none : none[n] = Error}) <= Cardinality({n \in DOMAIN none : none[n] = "set noreply"})
    BY <2>2, <2>3, Zenon
  <2>. QED
    BY <1>4, <2>4, Zenon DEF InOrder
<1>. QED
  BY <1>1, <1>2, <1>3, <1>5

\* A step after which the clients of sockets have what they had, one at most excepted who is
\* over or waits to be accepted.
LEMMA OthersServe ==
  ASSUME IInv, RInv, NEW i \in Clients, NEW where \in {"new", "backlog", "over"},
         client' = [client EXCEPT ![i] = At(where)],
         \A f \in Fds : owner'[f] # None => owner'[f] = owner[f] /\ owner[f] # i,
         UNCHANGED <<conns, new_conn_queue>>,
         \A f \in Fds : Queued(f) \/ Live(f) => owner'[f] # None
  PROVE  RInv'
<1>1. client'[i] = At(where) /\ \A j \in Clients : j # i => client'[j] = client[j]
  BY DEF IInv, Typed
<1>2. At(where).at = where /\ InOrder(At(where).got \o At(where).sock, At(where).sent)
  BY NothingInOrder
<1>3. owner \in [Fds -> Clients \cup {None}]
  BY DEF IInv, Typed
<1>4. Peers'
  <2>1. \A f \in Fds : owner'[f] # None => client'[owner'[f]] = client[owner[f]] /\ owner'[f] = owner[f]
    BY <1>1, <1>3
  <2>2. \A j \in Clients : client'[j].at \in {"new", "backlog"} => client'[j] = At(client'[j].at)
    BY <1>1, <1>2 DEF RInv, Peers
  <2>. QED
    BY <2>1, <2>2 DEF RInv, Peers
<1>5. Serving'
  <2>1. \A f \in Fds : (Queued(f)' <=> Queued(f)) /\ (Live(f)' <=> Live(f))
    BY DEF Queued, Live
  <2>2. \A f \in Fds : Queued(f) \/ Live(f) => Peer(f)' = Peer(f)
    BY <1>1, <1>3 DEF Peer
  <2>. QED
    BY <2>1, <2>2 DEF RInv, Serving
<1>6. RepliesInOrder'
  BY <1>1, <1>2 DEF RInv, RepliesInOrder
<1>. QED
  BY <1>4, <1>5, <1>6 DEF RInv

LEMMA CloseServes ==
  ASSUME IInv, RInv, NEW t \in Threads, conn_close(t)
  PROVE  RInv'
<1>1. /\ loop[t] # None /\ loop[t].at = "cleaned" /\ loop[t] \in Call
      /\ owner' = [owner EXCEPT ![loop[t].fd] = None] /\ client' = [client EXCEPT ![owner[loop[t].fd]] = At("over")]
      /\ UNCHANGED <<new_conn_queue, conns>>
  BY DEF conn_close, Closing, close, Elsewhere, IInv, Typed
<1>2. PICK f \in Fds : f = loop[t].fd /\ Closes(t, f)
  BY <1>1 DEF Call, Closes
<1>3. owner[f] # None /\ ~Live(f) /\ ~Queued(f)
  BY <1>2 DEF IInv, Accounting, CloseCalls
<1>4. owner[f] \in Clients /\ owner \in [Fds -> Clients \cup {None}]
  BY <1>3 DEF IInv, Typed
<1>5. \A g \in Fds : owner'[g] # None => owner'[g] = owner[g] /\ owner[g] # owner[f]
  BY <1>1, <1>2, <1>4 DEF RInv, Peers
<1>6. \A g \in Fds : Queued(g) \/ Live(g) => owner'[g] # None
  <2>1. \A g \in Fds : Queued(g) \/ Live(g) => owner[g] \in Clients /\ g # f
    BY <1>3, OwnPeer
  <2>2. None \notin Clients
    BY ConnectionsAssumption
  <2>. QED
    BY <1>1, <1>2, <1>4, <2>1, <2>2
<1>. QED
  BY <1>1, <1>2, <1>4, <1>5, <1>6, OthersServe

\* A connection that has just been made.
LEMMA FreshInTurn ==
  ASSUME NEW c \in Connection, c.state = "new_cmd", c.rbuf = <<>>, ~c.noreply, NEW d \in ClientRecord,
         Serves(Closed, d)
  PROVE  Serves(c, d)
<1>1. Closed.state = "closed" /\ Closed.rbuf = <<>> /\ ~Closed.noreply /\ Closed \in Connection
  BY ClosedIsConnection DEF Closed
<1>2. Stream(c, d) = Stream(Closed, d)
  BY <1>1 DEF Stream
<1>3. InTurn(Closed, d) => InTurn(c, d)
  BY <1>1, <1>2, IdleInTurn DEF Idle
<1>. QED
  BY <1>3 DEF Serves

LEMMA ProcessServes ==
  ASSUME IInv, IInv', RInv, NEW t \in Threads, thread_libevent_process(t)
  PROVE  RInv'
<1>1. PICK q, f, c :
        /\ q \in Seq(Fds) /\ q = new_conn_queue[t] /\ f = Head(q)
        /\ c = [Closed EXCEPT !.state = "new_cmd", !.ev_flags = "read", !.thread = t]
        /\ conns' = [conns EXCEPT ![f] = c] /\ new_conn_queue' = [new_conn_queue EXCEPT ![t] = Tail(q)]
        /\ UNCHANGED <<owner, client>> /\ Pipe \in active[t]
  BY DEF thread_libevent_process, kernel, IInv, Typed
<1>2. q # <<>> /\ f \in Fds /\ f = q[1] /\ 1 \in DOMAIN q
  <2>1. q # <<>>
    BY <1>1 DEF IInv, Accounting, Events
  <2>. QED
    BY <1>1, <2>1
<1>3. Queued(f)
  BY <1>1, <1>2 DEF Queued
<1>4. /\ conns'[f] = c /\ c \in Connection /\ \A g \in Fds : g # f => conns'[g] = conns[g]
      /\ c.state = "new_cmd" /\ c.rbuf = <<>> /\ ~c.noreply
  <2>1. conns'[f] = c /\ \A g \in Fds : g # f => conns'[g] = conns[g]
    BY <1>1, <1>2 DEF IInv, Typed
  <2>2. conns' \in [Fds -> Connection]
    BY DEF IInv, Typed
  <2>3. c.state = "new_cmd" /\ c.rbuf = <<>> /\ ~c.noreply
    BY <1>1 DEF Closed
  <2>. QED
    BY <1>2, <2>1, <2>2, <2>3
<1>5. \A g \in Fds : Queued(g)' => Queued(g) /\ g # f
  <2>1. Live(f)'
    BY <1>4 DEF Live
  <2>2. \A g \in Fds : Queued(g)' => g # f
    BY <2>1 DEF IInv, Accounting, Queues, Queued
  <2>3. ASSUME NEW g \in Fds, NEW u \in Threads, NEW n \in DOMAIN new_conn_queue'[u], new_conn_queue'[u][n] = g
        PROVE  Queued(g)
    <3>1. CASE u # t
      <4>1. new_conn_queue'[u] = new_conn_queue[u]
        BY <1>1, <3>1 DEF IInv, Typed
      <4>. QED
        BY <2>3, <4>1 DEF Queued
    <3>2. CASE u = t
      <4>1. new_conn_queue'[t] = Tail(q)
        BY <1>1 DEF IInv, Typed
      <4>2. n + 1 \in DOMAIN q /\ q[n + 1] = g
        BY <1>2, <2>3, <3>2, <4>1
      <4>. QED
        BY <1>1, <4>2 DEF Queued
    <3>. QED
      BY <3>1, <3>2
  <2>. QED
    BY <2>2, <2>3 DEF Queued
<1>6. \A g : Peer(g)' = Peer(g)
  BY <1>1 DEF Peer
<1>7. Serves(c, Peer(f))
  <2>1. Serves(Closed, Peer(f))
    BY <1>2, <1>3 DEF RInv, Serving
  <2>2. Peer(f) \in ClientRecord
    BY <1>2, <1>3, OwnPeer
  <2>. QED
    BY <1>4, <2>1, <2>2, FreshInTurn
<1>8. \A g \in Fds : g # f => (Live(g)' <=> Live(g))
  BY <1>4 DEF Live
<1>9. Serving'
  <2>1. \A g \in Fds : Queued(g)' => Serves(Closed, Peer(g)')
    BY <1>5, <1>6 DEF RInv, Serving
  <2>2. ASSUME NEW g \in Fds, Live(g)', conns'[g].state # "closing"
        PROVE  Serves(conns'[g], Peer(g)')
    <3>1. CASE g = f
      BY <1>4, <1>6, <1>7, <3>1
    <3>2. CASE g # f
      BY <1>4, <1>6, <1>8, <2>2, <3>2 DEF RInv, Serving
    <3>. QED
      BY <3>1, <3>2
  <2>. QED
    BY <2>1, <2>2 DEF Serving
<1>10. Peers' /\ RepliesInOrder'
  BY <1>1 DEF RInv, Peers, RepliesInOrder
<1>. QED
  BY <1>9, <1>10 DEF RInv

\* A client whose connection has just been accepted is served.
LEMMA NewServes == Serves(Closed, At("open"))
<1>1. PICK c, d : c = Closed /\ d = At("open")
  OBVIOUS
<1>2. /\ d.at = "open" /\ d.sent = <<>> /\ d.rest = <<>> /\ d.net = <<>> /\ d.got = <<>> /\ d.sock = <<>>
      /\ c.state = "closed" /\ c.rbuf = <<>> /\ ~c.noreply
  BY <1>1 DEF At, Closed
<1>3. PICK half \in Piece, S \in Seq(Piece) :
        half = [of |-> 1, part |-> "half"] /\ S = <<half>> /\ Len(S) = 1 /\ S[1] = half
  <2>1. PICK half \in Piece : half = [of |-> 1, part |-> "half"]
    <3>1. [of |-> 1, part |-> "half"] \in Piece
      BY DEF Piece
    <3>. QED
      BY <3>1
  <2>2. <<half>> \in Seq(Piece) /\ Len(<<half>>) = 1 /\ <<half>>[1] = half
    BY <2>1
  <2>. QED
    BY <2>1, <2>2
<1>4. Len(d.sent) = 0
  BY <1>2
<1>5. Stream(c, d) = S
  <2>1. Expected(d) = S
    <3>1. Len(d.sent) + 1 = 1
      BY <1>4
    <3>. QED
      BY <1>2, <1>3, <3>1 DEF Expected
  <2>2. <<>> \o S = S
    BY <1>3, ConcatEmptySeq
  <2>. QED
    BY <1>2, <2>1, <2>2 DEF Stream, Coming
<1>6. Chain(S, d.sent)
  <2>1. Fits(half, d.sent)
    BY <1>3, <1>4 DEF Fits
  <2>. QED
    BY <1>3, <2>1 DEF Chain
<1>7. PICK none \in Seq(Nat) : none = <<>> /\ Len(none) = 0 /\ DOMAIN none = {}
  <2>1. <<>> \in Seq(Nat) /\ Len(<<>>) = 0
    BY EmptySeq
  <2>2. DOMAIN <<>> = {}
    OBVIOUS
  <2>. QED
    BY <2>1, <2>2
<1>8. Replies(c, d) = none
  <2>1. none \o none = none
    BY <1>7, ConcatEmptySeq
  <2>. QED
    BY <1>2, <1>7, <2>1 DEF Replies
<1>9. Answered(none, d.sent, 0, 0)
  <2>1. Errors(none) = {} /\ Noreplies(d.sent, 0) = {}
    BY <1>7 DEF Errors, Noreplies
  <2>2. Cardinality({}) = 0 /\ 0 + 0 <= 0
    BY FS_EmptySet
  <2>3. Cardinality(Errors(none)) + 0 <= Cardinality(Noreplies(d.sent, 0))
    BY <2>1, <2>2
  <2>. QED
    BY <1>4, <1>7, <2>3 DEF Answered
<1>10. Reading(c, S, d.sent, 0, 0)
  BY <1>2, <1>3 DEF Reading, Begins
<1>11. InTurn(c, d)
  BY <1>4, <1>5, <1>6, <1>8, <1>9, <1>10 DEF InTurn
<1>. QED
  BY <1>1, <1>2, <1>11 DEF Serves

\* A client without a connection has none of the sockets.
LEMMA NoSocket ==
  ASSUME IInv, RInv, NEW i \in Clients, client[i].at \in {"new", "backlog", "over"}
  PROVE  /\ \A f \in Fds : owner[f] # i
         /\ \A f \in Fds : Queued(f) \/ Live(f) => owner[f] # None
<1>1. \A f \in Fds : owner[f] # i
  BY ConnectionsAssumption DEF RInv, Peers
<1>2. \A f \in Fds : Queued(f) \/ Live(f) => owner[f] # None
  BY OwnPeer, ConnectionsAssumption
<1>. QED
  BY <1>1, <1>2

LEMMA AcceptServes ==
  ASSUME IInv, RInv, NEW i \in Clients, accept(i)
  PROVE  RInv'
<1>1. client[i].at = "backlog" /\ UNCHANGED conns
  BY DEF accept, Waiting, workers
<1>2. client[i] = At("backlog") /\ client \in [Clients -> ClientRecord]
  BY <1>1 DEF RInv, Peers, IInv, Typed
<1>3. /\ \A g \in Fds : owner[g] # i
      /\ \A g \in Fds : Queued(g) \/ Live(g) => owner[g] # None
  BY <1>1, NoSocket
<1>4. CASE client' = [client EXCEPT ![i] = At("over")] /\ UNCHANGED <<owner, new_conn_queue>>
  BY <1>1, <1>3, <1>4, OthersServe
<1>5. ASSUME NEW f \in Fds, owner[f] = None, NEW tid \in Threads,
             client' = [client EXCEPT ![i].at = "open"], owner' = [owner EXCEPT ![f] = i],
             new_conn_queue' = [new_conn_queue EXCEPT ![tid] = Append(@, f)]
      PROVE  RInv'
  <2>1. client'[i] = At("open") /\ \A j \in Clients : j # i => client'[j] = client[j]
    <3>1. client'[i] = [At("backlog") EXCEPT !.at = "open"]
      BY <1>2, <1>5
    <3>2. [At("backlog") EXCEPT !.at = "open"] = At("open")
      BY DEF At
    <3>. QED
      BY <1>2, <1>5, <3>1, <3>2
  <2>2. owner'[f] = i /\ \A g \in Fds : g # f => owner'[g] = owner[g]
    BY <1>5 DEF IInv, Typed
  <2>3. owner \in [Fds -> Clients \cup {None}]
    BY DEF IInv, Typed
  <2>4. At("open").at = "open"
    BY DEF At
  <2>5. Peers'
    <3>1. \A g, h \in Fds : owner'[g] # None /\ owner'[g] = owner'[h] => g = h
      BY <1>3, <2>2 DEF RInv, Peers
    <3>2. \A g \in Fds : owner'[g] # None => client'[owner'[g]].at \in {"open", "left"}
      BY <1>3, <2>1, <2>2, <2>3, <2>4 DEF RInv, Peers
    <3>3. \A j \in Clients : client'[j].at \in {"new", "backlog"} => client'[j] = At(client'[j].at)
      BY <2>1, <2>4 DEF RInv, Peers
    <3>. QED
      BY <3>1, <3>2, <3>3 DEF Peers
  <2>6. \A g \in Fds : g # f => (Queued(g)' => Queued(g))
    <3>1. ASSUME NEW g \in Fds, g # f, NEW u \in Threads, NEW n \in DOMAIN new_conn_queue'[u], new_conn_queue'[u][n] = g
          PROVE  n \in DOMAIN new_conn_queue[u] /\ new_conn_queue[u][n] = g
      <4>1. CASE u # tid
        BY <1>5, <3>1, <4>1 DEF IInv, Typed
      <4>2. CASE u = tid
        <5>1. PICK q \in Seq(Fds) : q = new_conn_queue[tid] /\ new_conn_queue'[tid] = Append(q, f)
          BY <1>5 DEF IInv, Typed
        <5>2. n \in DOMAIN q /\ q[n] = g
          BY <3>1, <4>2, <5>1
        <5>. QED
          BY <4>2, <5>1, <5>2
      <4>. QED
        BY <4>1, <4>2
    <3>. QED
      BY <3>1 DEF Queued
  <2>7. Serving'
    <3>1. ASSUME NEW g \in Fds
          PROVE  /\ Queued(g)' => Serves(Closed, Peer(g)')
                 /\ Live(g)' /\ conns'[g].state # "closing" => Serves(conns'[g], Peer(g)')
      <4>1. Live(g)' <=> Live(g)
        BY <1>1 DEF Live
      <4>2. CASE g = f
        <5>1. ~Live(f)
          BY <1>3, <1>5
        <5>2. Peer(f)' = At("open")
          BY <2>1, <2>2 DEF Peer
        <5>. QED
          BY <4>1, <4>2, <5>1, <5>2, NewServes
      <4>3. CASE g # f
        <5>1. Queued(g) \/ Live(g) => Peer(g)' = Peer(g)
          BY <1>3, <2>1, <2>2, <2>3, <4>3 DEF Peer
        <5>. QED
          BY <1>1, <2>6, <4>1, <4>3, <5>1 DEF RInv, Serving
      <4>. QED
        BY <4>2, <4>3
    <3>. QED
      BY <3>1 DEF Serving
  <2>8. RepliesInOrder'
    BY <2>1, NothingInOrder DEF RInv, RepliesInOrder
  <2>. QED
    BY <2>5, <2>7, <2>8 DEF RInv
<1>6. (last_thread + 1) % NumThreads \in Threads
  BY ConnectionsAssumption DEF IInv, Typed, Threads
<1>. QED
  BY <1>4, <1>5, <1>6 DEF accept

\* A client with an open connection does something that keeps it served.
LEMMA OpenServes ==
  ASSUME IInv, RInv, NEW i \in Clients, client[i].at = "open", UNCHANGED server,
         NEW b, client' = [client EXCEPT ![i] = b], b.at \in {"open", "left"},
         InOrder(b.got \o b.sock, b.sent),
         \A c \in Connection : Consistent(c) /\ InTurn(c, client[i]) => InTurn(c, b)
  PROVE  RInv'
<1>1. client'[i] = b /\ \A j \in Clients : j # i => client'[j] = client[j]
  BY DEF IInv, Typed
<1>2. UNCHANGED <<owner, conns, new_conn_queue>>
  BY DEF server
<1>3. Peers'
  <2>1. \A f \in Fds : owner[f] \in Clients \cup {None}
    BY DEF IInv, Typed
  <2>. QED
    BY <1>1, <1>2, <2>1 DEF RInv, Peers
<1>4. \A c \in Connection : Consistent(c) /\ Serves(c, client[i]) => Serves(c, b)
  BY DEF Serves, Lost
<1>5. Closed \in Connection /\ Consistent(Closed)
  <2>1. Consistent(Closed)
    BY DEF Closed, Consistent
  <2>. QED
    BY <2>1, ClosedIsConnection
<1>6. Serving'
  <2>1. ASSUME NEW f \in Fds
        PROVE  /\ Queued(f)' => Serves(Closed, Peer(f)')
               /\ Live(f)' /\ conns'[f].state # "closing" => Serves(conns'[f], Peer(f)')
    <3>1. (Live(f)' <=> Live(f)) /\ (Queued(f)' <=> Queued(f)) /\ conns'[f] = conns[f]
      BY <1>2 DEF Live, Queued
    <3>2. conns[f] \in Connection /\ Consistent(conns[f])
      BY DEF IInv, Typed, Holding
    <3>3. CASE owner[f] = i
      <4>1. Peer(f) = client[i] /\ Peer(f)' = b
        BY <1>1, <1>2, <3>3 DEF Peer
      <4>. QED
        BY <1>4, <1>5, <3>1, <3>2, <4>1 DEF RInv, Serving
    <3>4. CASE owner[f] # i
      <4>1. Queued(f) \/ Live(f) => Peer(f)' = Peer(f)
        BY <1>1, <1>2, <3>4, OwnPeer DEF Peer
      <4>. QED
        BY <3>1, <4>1 DEF RInv, Serving
    <3>. QED
      BY <3>3, <3>4
  <2>. QED
    BY <2>1 DEF Serving
<1>7. RepliesInOrder'
  BY <1>1 DEF RInv, RepliesInOrder
<1>. QED
  BY <1>3, <1>6, <1>7 DEF RInv

LEMMA ClientServes ==
  ASSUME IInv, IInv', RInv, NEW i \in Clients, Client(i)
  PROVE  RInv'
<1>1. PICK d \in ClientRecord : d = client[i] /\ client \in [Clients -> ClientRecord]
  BY DEF IInv, Typed
<1>2. /\ UNCHANGED server /\ UNCHANGED <<owner, conns, new_conn_queue>>
      /\ client' \in [Clients -> ClientRecord]
  BY DEF Client, server, IInv, Typed
<1>3. InOrder(d.got \o d.sock, d.sent)
  BY <1>1 DEF RInv, RepliesInOrder
<1>4. ASSUME client[i].at \in {"new", "backlog", "over"}, NEW where \in {"new", "backlog", "over"},
             client' = [client EXCEPT ![i] = At(where)]
      PROVE  RInv'
  <2>1. /\ \A f \in Fds : owner'[f] # None => owner'[f] = owner[f] /\ owner[f] # i
        /\ \A f \in Fds : Queued(f) \/ Live(f) => owner'[f] # None
    BY <1>2, <1>4, NoSocket
  <2>. QED
    BY <1>2, <1>4, <2>1, OthersServe
<1>5. CASE Connect(i)
  <2>1. d.at = "new" /\ client' = [client EXCEPT ![i].at = "backlog"]
    BY <1>1, <1>5 DEF Connect
  <2>2. d = At("new")
    BY <1>1, <2>1 DEF RInv, Peers
  <2>3. client' = [client EXCEPT ![i] = [d EXCEPT !.at = "backlog"]]
    BY <1>1, <2>1
  <2>4. [d EXCEPT !.at = "backlog"] = At("backlog")
    BY <2>2 DEF At
  <2>. QED
    BY <1>1, <1>4, <2>1, <2>3, <2>4
<1>6. CASE Send(i)
  <2>. DEFINE sending(pieces) == [d EXCEPT !.net = Append(@, Head(pieces)), !.rest = Tail(pieces)]
  <2>1. d.at = "open"
    BY <1>1, <1>6 DEF Send
  <2>2. CASE d.rest # <<>> /\ client' = [client EXCEPT ![i] = sending(d.rest)]
    <3>1. PICK b : b = sending(d.rest)
      OBVIOUS
    <3>2. b \in ClientRecord
      BY <1>1, <1>2, <2>2, <3>1
    <3>3. b.at = d.at /\ b.got = d.got /\ b.sock = d.sock /\ b.sent = d.sent
      BY <3>1 DEF ClientRecord
    <3>4. \A c \in Connection : InTurn(c, d) => InTurn(c, b)
      BY <2>2, <3>1, <3>2, PieceInTurn
    <3>. QED
      BY <1>1, <1>2, <1>3, <2>1, <2>2, <3>1, <3>3, <3>4, OpenServes
  <2>3. ASSUME NEW kind \in Kinds, d.rest = <<>>,
               client' = [client EXCEPT ![i] =
                 [sending(Pieces(kind, Len(d.sent) + 1)) EXCEPT !.sent = Append(@, kind)]]
        PROVE  RInv'
    <3>1. PICK a, b : /\ a = sending(Pieces(kind, Len(d.sent) + 1))
                      /\ b = [a EXCEPT !.sent = Append(@, kind)]
      OBVIOUS
    <3>2. b \in ClientRecord /\ kind \in AllKinds
      BY <1>1, <1>2, <2>3, <3>1, ConnectionsAssumption
    <3>3. /\ a.at = d.at /\ a.got = d.got /\ a.sock = d.sock /\ a.sent = d.sent
          /\ a.net = Append(d.net, Head(Pieces(kind, Len(d.sent) + 1)))
          /\ a.rest = Tail(Pieces(kind, Len(d.sent) + 1))
          /\ DOMAIN a = {"at", "sent", "rest", "net", "sock", "got"}
      BY <3>1 DEF ClientRecord
    <3>4. /\ b.at = d.at /\ b.got = d.got /\ b.sock = d.sock /\ b.sent = Append(d.sent, kind)
          /\ b.net = Append(d.net, Head(Pieces(kind, Len(d.sent) + 1)))
          /\ b.rest = Tail(Pieces(kind, Len(d.sent) + 1))
      BY <3>1, <3>3
    <3>5. \A c \in Connection : Consistent(c) /\ InTurn(c, d) => InTurn(c, b)
      BY <2>1, <2>3, <3>2, <3>4, RequestInTurn
    <3>6. InOrder(b.got \o b.sock, b.sent)
      <4>1. d.got \o d.sock \in Seq(Nat) /\ d.sent \in Seq(AllKinds)
        BY RepliesAre, StreamTyped, ClosedIsConnection
      <4>. QED
        BY <1>3, <3>2, <3>4, <4>1, InOrderSent
    <3>. QED
      BY <1>1, <1>2, <2>1, <2>3, <3>1, <3>4, <3>5, <3>6, OpenServes
  <2>. QED
    BY <1>1, <1>6, <2>2, <2>3 DEF Send
<1>7. CASE Receive(i)
  <2>1. /\ d.at = "open" /\ d.sock # <<>>
        /\ client' = [client EXCEPT ![i].got = Append(@, Head(client[i].sock)), ![i].sock = Tail(@)]
    BY <1>1, <1>7 DEF Receive
  <2>2. PICK b : b = [d EXCEPT !.got = Append(@, Head(d.sock)), !.sock = Tail(@)]
    OBVIOUS
  <2>3. client' = [client EXCEPT ![i] = b]
    BY <1>1, <2>1, <2>2
  <2>4. b \in ClientRecord
    BY <1>1, <1>2, <2>3
  <2>5. b.at = d.at /\ b.sent = d.sent
    BY <2>2 DEF ClientRecord
  <2>6. b.got \o b.sock = d.got \o d.sock /\ \A c \in Connection : InTurn(c, d) => InTurn(c, b)
    BY <2>1, <2>2, <2>4, ReceivedInTurn
  <2>. QED
    BY <1>1, <1>2, <1>3, <2>1, <2>3, <2>5, <2>6, OpenServes
<1>8. CASE Leave(i)
  <2>1. CASE d.at = "open"
    <3>1. PICK b : b = [d EXCEPT !.at = "left", !.rest = <<>>]
      OBVIOUS
    <3>2. client' = [client EXCEPT ![i] = b]
      BY <1>1, <1>8, <2>1, <3>1 DEF Leave
    <3>3. b \in ClientRecord
      BY <1>1, <1>2, <3>2
    <3>4. b.at = "left" /\ b.got = d.got /\ b.sock = d.sock /\ b.sent = d.sent
      BY <3>1 DEF ClientRecord
    <3>5. \A c \in Connection : InTurn(c, d) => InTurn(c, b)
      BY <3>1, <3>3, LeftInTurn
    <3>. QED
      BY <1>1, <1>2, <1>3, <2>1, <3>2, <3>4, <3>5, OpenServes
  <2>2. CASE d.at = "backlog"
    <3>1. client' = [client EXCEPT ![i] = At("over")]
      BY <1>1, <1>8, <2>2 DEF Leave
    <3>. QED
      BY <1>1, <1>4, <2>2, <3>1
  <2>. QED
    BY <1>1, <1>8, <2>1, <2>2 DEF Leave
<1>. QED
  BY <1>5, <1>6, <1>7, <1>8 DEF Client

LEMMA InitServes == Init => RInv
<1>. SUFFICES ASSUME Init
              PROVE  RInv
  OBVIOUS
<1>1. /\ \A f \in Fds : owner[f] = None /\ conns[f] = Closed
      /\ \A i \in Clients : client[i] = At("new")
      /\ new_conn_queue = [t \in Threads |-> <<>>]
  BY DEF Init
<1>2. Peers
  BY <1>1, NothingInOrder DEF Peers
<1>3. Serving
  <2>1. \A f \in Fds : ~Live(f) /\ ~Queued(f)
    BY <1>1 DEF Live, Closed, Queued
  <2>. QED
    BY <2>1 DEF Serving
<1>4. RepliesInOrder
  BY <1>1, NothingInOrder DEF RepliesInOrder
<1>. QED
  BY <1>2, <1>3, <1>4 DEF RInv

LEMMA StepServes == IInv /\ RInv /\ [Next]_vars => RInv'
<1>. SUFFICES ASSUME IInv, RInv, [Next]_vars
              PROVE  RInv'
  OBVIOUS
<1>1. IInv'
  BY StepIInv
<1>2. ASSUME UNCHANGED <<conns, owner, client, new_conn_queue>>
      PROVE  RInv'
  BY <1>2 DEF RInv, Peers, Serving, RepliesInOrder, Queued, Live, Peer
<1>3. CASE Listener
  <2>1. CASE \E i \in Clients : accept(i)
    BY <2>1, AcceptServes
  <2>2. CASE OutOfDescriptors \/ stop_accepting \/ maxconns_handler
    BY <1>2, <2>2 DEF OutOfDescriptors, stop_accepting, maxconns_handler, workers, kernel
  <2>. QED
    BY <1>3, <2>1, <2>2 DEF Listener
<1>4. ASSUME NEW t \in Threads, Worker(t)
      PROVE  RInv'
  <2>1. CASE event_base_loop(t) \/ \E f \in Fds : event_handler(t, f)
    BY <1>2, <2>1 DEF event_base_loop, event_handler, kernel
  <2>2. CASE thread_libevent_process(t)
    BY <1>1, <2>2, ProcessServes
  <2>3. CASE conn_read(t) \/ conn_parse_cmd(t) \/ conn_new_cmd(t)
    BY <1>1, <2>3, ReadServes, ParseServes, NewCmdServes
  <2>4. CASE conn_nread(t) \/ conn_swallow(t) \/ conn_write(t) \/ conn_mwrite(t)
    BY <1>1, <2>4, NreadServes, SwallowServes, WriteServes
  <2>5. CASE conn_cleanup(t) \/ conn_close(t)
    BY <2>5, CleanupServes, CloseServes
  <2>6. CASE conn_close_allow(t) \/ conn_close_count(t)
    BY <1>2, <2>6 DEF conn_close_allow, conn_close_count, kernel
  <2>. QED
    BY <1>4, <2>1, <2>2, <2>3, <2>4, <2>5, <2>6 DEF Worker, drive_machine
<1>5. ASSUME NEW i \in Clients, Client(i)
      PROVE  RInv'
  BY <1>1, <1>5, ClientServes
<1>6. CASE UNCHANGED vars
  BY <1>2, <1>6 DEF vars
<1>. QED
  BY <1>3, <1>4, <1>5, <1>6 DEF Next

\* Clients that do not wait for replies get them in the order of their requests, none left out,
\* none twice, and no more errors than uploads that asked for no reply.
THEOREM RepliesInOrderHolds == Spec => []RepliesInOrder
<1>1. RInv => RepliesInOrder
  BY DEF RInv
<1>. QED
  BY InvariantHolds, InitServes, StepServes, <1>1, PTL DEF Spec
=============================================================================
