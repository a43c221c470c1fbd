----------------------------- MODULE Connections -----------------------------
(***************************************************************************)
(* Connections of memcached-dyn: the listener, the hand-over of accepted   *)
(* sockets to worker threads and the state machine a worker drives at each *)
(* event of a connection (drive_machine and what it calls in memcached.c,  *)
(* dispatch_conn_new and thread_libevent_process in thread.c), with the    *)
(* clients and the kernel's sockets around them.                           *)
(*                                                                         *)
(* An action of a thread is a turn of the loop in drive_machine, together  *)
(* with the turn after it that only notes that all is sent or that there   *)
(* is nothing to read, or it is a critical section.                        *)
(*                                                                         *)
(* Abstractions.  TCP and the text protocol.  A request line is two pieces *)
(* and a data block one, which arrive one by one: a line may come in half. *)
(* A reply is one piece.  Buffers grow as needed.  Items are counted: see  *)
(* Items for what the commands do to them.                                 *)
(***************************************************************************)
EXTENDS Integers, FiniteSets, Sequences, SequencesExt, FiniteSetsExt

CONSTANTS
  Clients,
  Fds,            \* the file descriptors the process may have open for clients
  NumThreads,     \* settings.num_threads: worker threads
  None,
  Kinds,          \* what clients ask for
  MaxConns,       \* connections at which maxconns_fast turns clients away
  ReqsPerEvent,   \* settings.reqs_per_event: 20 in the code
  SocketRoom,     \* replies that fit into a socket's send buffer
  MaxRequests     \* bound: requests of the clients that have a connection

\* What a request may be.  Commands of one line that answer with a string are left out: they
\* are a get that finds nothing.
AllKinds == {"get", "set", "set noreply", "quit"}

ASSUME ConnectionsAssumption ==
  /\ Kinds \subseteq AllKinds
  /\ NumThreads \in Nat \ {0}
  /\ ReqsPerEvent \in Nat \ {0} /\ SocketRoom \in Nat \ {0}
  /\ MaxConns \in Nat /\ MaxRequests \in Nat
  /\ None \notin Clients \cup Fds \cup Nat

Threads == 0..(NumThreads - 1)

VARIABLES
  maxconns_fast,    \* settings.maxconns_fast
  listener,         \* the main thread: whether it accepts, its timer, where it is
  allow_new_conns,
  curr_conns,       \* stats.curr_conns, the listener not counted
  last_thread,
  new_conn_queue,   \* per thread the accepted sockets it has been told of
  conns,            \* the connection of each descriptor
  active,           \* per thread the events it is to be called for
  loop,             \* per thread its call of drive_machine, or None
  refs,             \* references to items that the commands of a descriptor have taken
  owner,            \* the client at the other end of a descriptor, None if it is free
  client            \* what each client has done, sent and received

vars == <<maxconns_fast, listener, allow_new_conns, curr_conns, last_thread, new_conn_queue,
          conns, active, loop, refs, owner, client>>

kernel == <<owner, client>>
workers == <<conns, active, loop, refs>>
accepting == <<maxconns_fast, listener, last_thread>>

-----------------------------------------------------------------------------
\* "out" is the reply being sent, "item" the upload being read.
Closed == [state |-> "closed", thread |-> None, ev_flags |-> "none", rbuf |-> <<>>, rlbytes |-> 0,
           sbytes |-> 0, write_and_go |-> "new_cmd", noreply |-> FALSE, item |-> None, ileft |-> 0,
           out |-> None]

\* A client that has not begun, and one that is over: what it has sent and received (sent,
\* and of it rest and net on the way; got, and sock on the way) no longer matters.
At(where) == [at |-> where, sent |-> <<>>, rest |-> <<>>, net |-> <<>>, sock |-> <<>>, got |-> <<>>]

Init ==
  /\ maxconns_fast \in BOOLEAN
  /\ listener = [listening |-> TRUE, timer |-> FALSE, full |-> FALSE]
  /\ allow_new_conns = TRUE
  /\ curr_conns = 0
  /\ last_thread = NumThreads - 1
  /\ new_conn_queue = [t \in Threads |-> <<>>]
  /\ conns = [f \in Fds |-> Closed]
  /\ active = [t \in Threads |-> {}]
  /\ loop = [t \in Threads |-> None]
  /\ refs = [f \in Fds |-> 0]
  /\ owner = [f \in Fds |-> None]
  /\ client = [i \in Clients |-> At("new")]

(***************************************************************************)
(* Clients and the kernel                                                  *)
(***************************************************************************)
\* A client sends requests without waiting for replies, reads them late, and may go at any
\* time.  What it has sent before arrives.
Connect(i) ==
  /\ client[i].at = "new"
  /\ client' = [client EXCEPT ![i].at = "backlog"]

\* The pieces of its n-th request.
Pieces(kind, n) ==
  LET piece(part) == [of |-> n, part |-> part] IN
  <<piece("half"), piece("end")>>
    \o (IF kind \in {"set", "set noreply"} THEN <<piece("data")>> ELSE <<>>)

\* The next piece of a request, or the first of a new one.  What is sent before the
\* connection is accepted is the same to the server as what is sent right after.
Send(i) ==
  LET c == client[i]
      n == Len(c.sent) + 1
      sending(pieces) == [c EXCEPT !.net = Append(@, Head(pieces)), !.rest = Tail(pieces)]
  IN
  /\ c.at = "open"
  /\ \/ /\ c.rest # <<>>
        /\ client' = [client EXCEPT ![i] = sending(c.rest)]
     \/ /\ c.rest = <<>> /\ MapThenSumSet(LAMBDA j : Len(client[j].sent), Clients) < MaxRequests
        /\ \E kind \in Kinds :
             client' = [client EXCEPT ![i] = [sending(Pieces(kind, n)) EXCEPT !.sent = Append(@, kind)]]

Receive(i) ==
  /\ client[i].at = "open" /\ client[i].sock # <<>>
  /\ client' = [client EXCEPT ![i].got = Append(@, Head(client[i].sock)), ![i].sock = Tail(@)]

\* It goes, before or after it has been accepted.
Leave(i) ==
  /\ client[i].at \in {"backlog", "open"}
  /\ client' = [client EXCEPT ![i] = IF @.at = "open" THEN [@ EXCEPT !.at = "left", !.rest = <<>>] ELSE At("over")]

Peer(f) == client[owner[f]]
Readable(f) == owner[f] # None /\ (Peer(f).net # <<>> \/ Peer(f).at = "left")
Writable(f) == owner[f] # None /\ (Len(Peer(f).sock) < SocketRoom \/ Peer(f).at = "left")

\* The server closes the socket: what it had not read is lost, and the client is told.
close(f) ==
  /\ owner' = [owner EXCEPT ![f] = None]
  /\ client' = [client EXCEPT ![owner[f]] = At("over")]

(***************************************************************************)
(* The listener                                                            *)
(***************************************************************************)
Waiting == {i \in Clients : client[i].at = "backlog"}

TurnedAway == maxconns_fast /\ curr_conns >= MaxConns

\* conn_listening: a free descriptor, and the next thread in turn.
accept(i) ==
  LET tid == (last_thread + 1) % NumThreads IN
  /\ listener.listening /\ ~listener.full /\ i \in Waiting
  /\ \E f \in Fds :
       /\ owner[f] = None
       /\ IF TurnedAway
          THEN /\ client' = [client EXCEPT ![i] = At("over")]
               /\ UNCHANGED <<owner, last_thread, new_conn_queue>>
          ELSE /\ client' = [client EXCEPT ![i].at = "open"]
               /\ owner' = [owner EXCEPT ![f] = i]
               /\ last_thread' = tid
               /\ new_conn_queue' = [new_conn_queue EXCEPT ![tid] = Append(@, f)]
  /\ UNCHANGED <<maxconns_fast, listener, allow_new_conns, curr_conns>> /\ UNCHANGED workers

\* accept fails with EMFILE ...
OutOfDescriptors ==
  /\ listener.listening /\ ~listener.full /\ Waiting # {}
  /\ \A f \in Fds : owner[f] # None
  /\ listener' = [listener EXCEPT !.full = TRUE]
  /\ UNCHANGED <<maxconns_fast, allow_new_conns, curr_conns, last_thread, new_conn_queue>>
  /\ UNCHANGED workers /\ UNCHANGED kernel

\* ... and accept_new_conns(false): the listener is put to sleep, for maxconns_handler to wake.
stop_accepting ==
  /\ listener.full
  /\ listener' = [listening |-> FALSE, timer |-> TRUE, full |-> FALSE]
  /\ allow_new_conns' = FALSE
  /\ UNCHANGED <<maxconns_fast, curr_conns, last_thread, new_conn_queue>>
  /\ UNCHANGED workers /\ UNCHANGED kernel

\* Every 10 milliseconds; while nothing has been closed it only sets its timer again.
maxconns_handler ==
  /\ listener.timer /\ allow_new_conns
  /\ listener' = [listener EXCEPT !.listening = TRUE, !.timer = FALSE]
  /\ UNCHANGED <<maxconns_fast, allow_new_conns, curr_conns, last_thread, new_conn_queue>>
  /\ UNCHANGED workers /\ UNCHANGED kernel

(***************************************************************************)
(* A worker thread: its events                                             *)
(***************************************************************************)
Triggered(f) ==
  \/ conns[f].ev_flags = "read" /\ Readable(f)
  \/ conns[f].ev_flags = "write" /\ Writable(f)

\* What libevent would call this thread for: the pipe of its queue, which is not a
\* descriptor of a client (Pipe), and its connections.
Pipe == None
Ready(t) ==
  (IF new_conn_queue[t] = <<>> THEN {} ELSE {Pipe}) \cup {f \in Fds : conns[f].thread = t /\ Triggered(f)}

\* libevent calls the handlers of all that is ready before it looks again.
event_base_loop(t) ==
  /\ loop[t] = None /\ active[t] = {} /\ Ready(t) # {}
  /\ active' = [active EXCEPT ![t] = Ready(t)]
  /\ UNCHANGED <<allow_new_conns, curr_conns, new_conn_queue, conns, loop, refs>>
  /\ UNCHANGED accepting /\ UNCHANGED kernel

\* conn_new resets what is left of an earlier connection with this descriptor, sbytes
\* excepted, which nobody reads before setting it.
thread_libevent_process(t) ==
  /\ loop[t] = None /\ Pipe \in active[t]
  /\ active' = [active EXCEPT ![t] = @ \ {Pipe}]
  /\ LET f == Head(new_conn_queue[t]) IN
       conns' = [conns EXCEPT ![f] = [Closed EXCEPT !.state = "new_cmd", !.ev_flags = "read", !.thread = t]]
  /\ new_conn_queue' = [new_conn_queue EXCEPT ![t] = Tail(@)]
  /\ curr_conns' = curr_conns + 1
  /\ UNCHANGED <<allow_new_conns, loop, refs>> /\ UNCHANGED accepting /\ UNCHANGED kernel

\* A connection stays with the thread that has made it.
event_handler(t, f) ==
  /\ loop[t] = None /\ f \in active[t]
  /\ active' = [active EXCEPT ![t] = @ \ {f}]
  /\ loop' = [loop EXCEPT ![t] = [fd |-> f, nreqs |-> ReqsPerEvent, at |-> "drive"]]
  /\ UNCHANGED <<allow_new_conns, curr_conns, new_conn_queue, conns, refs>>
  /\ UNCHANGED accepting /\ UNCHANGED kernel

(***************************************************************************)
(* drive_machine                                                           *)
(***************************************************************************)
Driving(t, state) == loop[t] # None /\ loop[t].at = "drive" /\ conns[loop[t].fd].state = state

Becomes(t, conn) == conns' = [conns EXCEPT ![loop[t].fd] = conn]
Continue == UNCHANGED loop
Stop(t) == loop' = [loop EXCEPT ![t] = None]

\* conn_waiting: until there is more to read.
Wait(t, conn) == Becomes(t, [conn EXCEPT !.ev_flags = "read", !.state = "read"]) /\ Stop(t)

Elsewhere == UNCHANGED <<allow_new_conns, curr_conns, new_conn_queue, active>> /\ UNCHANGED accepting

\* What out_string does to a connection: with noreply the reply is dropped, and so is what
\* its caller wants to be done next.
out_string(conn, reply) ==
  IF conn.noreply THEN [conn EXCEPT !.noreply = FALSE, !.state = "new_cmd"]
                  ELSE [conn EXCEPT !.out = reply, !.state = "write", !.write_and_go = "new_cmd"]

\* Replies are numbered like the requests they answer.
Error == 0

\* read(2): everything that has arrived, the end of the stream, or that there is nothing.
conn_read(t) ==
  LET f == loop[t].fd IN
  /\ Driving(t, "read")
  /\ IF Peer(f).net # <<>>
     THEN /\ Becomes(t, [conns[f] EXCEPT !.rbuf = @ \o Peer(f).net, !.state = "parse_cmd"])
          /\ client' = [client EXCEPT ![owner[f]].net = <<>>]
          /\ Continue
     ELSE /\ IF Peer(f).at = "left"
             THEN Becomes(t, [conns[f] EXCEPT !.state = "closing"]) /\ Continue
             ELSE Wait(t, conns[f])
          /\ UNCHANGED client
  /\ Elsewhere /\ UNCHANGED <<refs, owner>>

\* A line ends where a piece ends with a newline.
Ends(rbuf) == {n \in DOMAIN rbuf : rbuf[n].part \in {"end", "data"}}

\* Mutant: what is to be swallowed is noted before out_string, which forgets it.
process_command_first(conn, line, kind) ==
  LET upload == [conn EXCEPT !.noreply = kind = "set noreply"] IN
  IF line.part = "data" THEN {[conn |-> out_string(conn, Error), taken |-> 0]}
  ELSE {[conn |-> out_string([upload EXCEPT !.write_and_go = "swallow", !.sbytes = 1], line.of), taken |-> 0]}

\* process_command: what may become of a connection, and how many references to items are
\* taken.  An item is found or not; there is room for an upload, or its data is to be
\* swallowed.
process_command(conn, line, kind) ==
  LET becomes(c, taken) == [conn |-> c, taken |-> taken]
      upload == [conn EXCEPT !.noreply = kind = "set noreply"]
      refused == out_string(upload, line.of)
  IN
  CASE line.part = "data" -> {becomes(out_string(conn, Error), 0)}
    [] line.part = "end" /\ kind = "get" ->
         {becomes([conn EXCEPT !.ileft = hits, !.out = line.of, !.state = "mwrite"], hits) : hits \in {0, 1}}
    [] line.part = "end" /\ kind = "quit" -> {becomes([conn EXCEPT !.state = "closing"], 0)}
    [] OTHER -> {becomes([upload EXCEPT !.item = line.of, !.rlbytes = 1, !.state = "nread"], 1),
                 becomes([refused EXCEPT !.write_and_go = "swallow", !.sbytes = 1], 0)}

\* A full line is a command; without one, more input is needed.
conn_parse_cmd(t) ==
  LET f == loop[t].fd
      rbuf == conns[f].rbuf
      First(n) == \A m \in Ends(rbuf) : n <= m
  IN
  /\ Driving(t, "parse_cmd")
  /\ \/ Ends(rbuf) = {} /\ Wait(t, conns[f]) /\ UNCHANGED refs
     \/ \E n \in Ends(rbuf) :
          /\ First(n)
          /\ \E c \in process_command([conns[f] EXCEPT !.rbuf = SubSeq(@, n + 1, Len(@))],
                                      rbuf[n], Peer(f).sent[rbuf[n].of]) :
               /\ Becomes(t, c.conn)
               /\ refs' = [refs EXCEPT ![f] = @ + c.taken]
               /\ Continue
  /\ Elsewhere /\ UNCHANGED kernel

\* Mutant: it waits for more input although it has some.
conn_new_cmd_asleep(t) ==
  LET f == loop[t].fd
      c == conns[f]
  IN
  /\ Driving(t, "new_cmd")
  /\ IF loop[t].nreqs = 0
     THEN Stop(t) /\ UNCHANGED conns
     ELSE IF c.rbuf # <<>>
     THEN Becomes(t, [c EXCEPT !.state = "parse_cmd"]) /\ loop' = [loop EXCEPT ![t].nreqs = @ - 1]
     ELSE Wait(t, c)
  /\ Elsewhere /\ UNCHANGED refs /\ UNCHANGED kernel

\* A command is over: the next one, if it may be served before other connections are.  A
\* connection with input in its buffer asks for an event it is sure to get.
conn_new_cmd(t) ==
  LET f == loop[t].fd
      c == conns[f]
      more == c.rbuf # <<>>
  IN
  /\ Driving(t, "new_cmd")
  /\ IF loop[t].nreqs = 0
     THEN Becomes(t, [c EXCEPT !.ev_flags = IF more THEN "write" ELSE @]) /\ Stop(t)
     ELSE IF more
     THEN Becomes(t, [c EXCEPT !.state = "parse_cmd"]) /\ loop' = [loop EXCEPT ![t].nreqs = @ - 1]
     ELSE Wait(t, c)
  /\ Elsewhere /\ UNCHANGED refs /\ UNCHANGED kernel

\* What reading a data block comes to: it has arrived and the connection is as in "taken",
\* it is yet to come, or the stream has ended.
Fetch(t, taken) ==
  LET f == loop[t].fd
      c == conns[f]
  IN
  /\ IF c.rbuf # <<>>
     THEN Becomes(t, [taken EXCEPT !.rbuf = Tail(@)]) /\ Continue
     ELSE IF Peer(f).net # <<>>
     THEN Becomes(t, taken) /\ Continue
     ELSE IF Peer(f).at = "left"
     THEN Becomes(t, [c EXCEPT !.state = "closing"]) /\ Continue
     ELSE Becomes(t, [c EXCEPT !.ev_flags = "read"]) /\ Stop(t)
  /\ client' = IF c.rbuf = <<>> /\ Peer(f).net # <<>> THEN [client EXCEPT ![owner[f]].net = Tail(@)]
                                                      ELSE client
  /\ UNCHANGED <<refs, owner>>

\* The upload is stored, answered and let go of (complete_nread_ascii).
conn_nread(t) ==
  LET f == loop[t].fd
      c == conns[f]
  IN
  /\ Driving(t, "nread")
  /\ IF c.rlbytes = 0
     THEN /\ Becomes(t, [out_string(c, c.item) EXCEPT !.item = None])
          /\ refs' = [refs EXCEPT ![f] = @ - 1]
          /\ Continue /\ UNCHANGED kernel
     ELSE Fetch(t, [c EXCEPT !.rlbytes = 0])
  /\ Elsewhere

conn_swallow(t) ==
  LET c == conns[loop[t].fd] IN
  /\ Driving(t, "swallow")
  /\ IF c.sbytes = 0
     THEN Becomes(t, [c EXCEPT !.state = "new_cmd"]) /\ Continue /\ UNCHANGED refs /\ UNCHANGED kernel
     ELSE Fetch(t, [c EXCEPT !.sbytes = 0])
  /\ Elsewhere

conn_release_items(conn) == [conn EXCEPT !.item = None, !.ileft = 0]

\* The references it returns.
Held(conn) == conn.ileft + (IF conn.item = None THEN 0 ELSE 1)

\* Mutant: without room for the reply the connection goes on all the same.
transmit_lossy(t, sent, freed) ==
  LET f == loop[t].fd IN
  /\ Becomes(t, [sent EXCEPT !.out = None])
  /\ refs' = [refs EXCEPT ![f] = @ - freed]
  /\ Continue
  /\ client' = IF Len(Peer(f).sock) < SocketRoom
               THEN [client EXCEPT ![owner[f]].sock = Append(@, conns[f].out)] ELSE client
  /\ UNCHANGED owner

\* transmit: if there is room for the reply it is sent, and the connection becomes as in
\* "sent", with "freed" references returned.  A client that is gone has it sent to nowhere or
\* gets the connection closed.
transmit(t, sent, freed) ==
  LET f == loop[t].fd
      room == Len(Peer(f).sock) < SocketRoom
  IN
  /\ \/ /\ Peer(f).at = "left" \/ room
        /\ Becomes(t, [sent EXCEPT !.out = None])
        /\ refs' = [refs EXCEPT ![f] = @ - freed]
        /\ Continue
     \/ /\ Peer(f).at = "left"
        /\ Becomes(t, [conns[f] EXCEPT !.state = "closing"])
        /\ Continue /\ UNCHANGED refs
     \/ /\ Peer(f).at # "left" /\ ~room
        /\ Becomes(t, [conns[f] EXCEPT !.ev_flags = "write"])
        /\ Stop(t) /\ UNCHANGED refs
  /\ client' = IF room THEN [client EXCEPT ![owner[f]].sock = Append(@, conns[f].out)] ELSE client
  /\ UNCHANGED owner

\* conn_write: the string of out_string.
conn_write(t) ==
  LET c == conns[loop[t].fd] IN
  /\ Driving(t, "write")
  /\ transmit(t, [c EXCEPT !.state = c.write_and_go], 0)
  /\ Elsewhere

\* conn_mwrite: the items of a get.
conn_mwrite(t) ==
  LET c == conns[loop[t].fd] IN
  /\ Driving(t, "mwrite")
  /\ transmit(t, [conn_release_items(c) EXCEPT !.state = "new_cmd"], Held(c))
  /\ Elsewhere

(***************************************************************************)
(* conn_close                                                              *)
(***************************************************************************)
Closing(t, at) == loop[t] # None /\ loop[t].at = at
Proceed(t, at) == loop' = [loop EXCEPT ![t].at = at]

\* Mutant: what a command holds is not let go of.
conn_cleanup_leaky(t) ==
  /\ Driving(t, "closing")
  /\ Becomes(t, Closed)
  /\ Proceed(t, "cleaned")
  /\ Elsewhere /\ UNCHANGED refs /\ UNCHANGED kernel

\* event_del, conn_cleanup.  What else the connection holds is reset by conn_new.
conn_cleanup(t) ==
  LET f == loop[t].fd
      c == conns[f]
  IN
  /\ Driving(t, "closing")
  /\ LET after == conn_release_items(c) IN
       Becomes(t, [Closed EXCEPT !.item = after.item, !.ileft = after.ileft])
  /\ refs' = [refs EXCEPT ![f] = @ - Held(c)]
  /\ Proceed(t, "cleaned")
  /\ Elsewhere /\ UNCHANGED kernel

\* From here on the descriptor may be that of another connection.
conn_close(t) ==
  /\ Closing(t, "cleaned")
  /\ close(loop[t].fd)
  /\ Proceed(t, "closed")
  /\ Elsewhere /\ UNCHANGED <<conns, refs>>

\* Mutant: the connection is marked as closed after its descriptor has been.
conn_close_late(t) ==
  /\ Closing(t, "closed")
  /\ allow_new_conns' = TRUE
  /\ Becomes(t, Closed)
  /\ Proceed(t, "allowed")
  /\ UNCHANGED <<curr_conns, new_conn_queue, active, refs>> /\ UNCHANGED accepting /\ UNCHANGED kernel

conn_close_allow(t) ==
  /\ Closing(t, "closed")
  /\ allow_new_conns' = TRUE
  /\ Proceed(t, "allowed")
  /\ UNCHANGED <<curr_conns, new_conn_queue, conns, active, refs>> /\ UNCHANGED accepting /\ UNCHANGED kernel

\* Mutant: the connection still counts.
conn_close_count_kept(t) ==
  /\ Closing(t, "allowed")
  /\ Stop(t)
  /\ UNCHANGED curr_conns
  /\ UNCHANGED <<allow_new_conns, new_conn_queue, conns, active, refs>> /\ UNCHANGED accepting /\ UNCHANGED kernel

conn_close_count(t) ==
  /\ Closing(t, "allowed")
  /\ curr_conns' = curr_conns - 1
  /\ Stop(t)
  /\ UNCHANGED <<allow_new_conns, new_conn_queue, conns, active, refs>> /\ UNCHANGED accepting /\ UNCHANGED kernel

-----------------------------------------------------------------------------
drive_machine(t) ==
  \/ conn_read(t) \/ conn_parse_cmd(t) \/ conn_new_cmd(t)
  \/ conn_nread(t) \/ conn_swallow(t) \/ conn_write(t) \/ conn_mwrite(t)
  \/ conn_cleanup(t) \/ conn_close(t) \/ conn_close_allow(t) \/ conn_close_count(t)

server == <<maxconns_fast, listener, allow_new_conns, curr_conns, last_thread, new_conn_queue,
            conns, active, loop, refs, owner>>

Listener == (\E i \in Clients : accept(i)) \/ OutOfDescriptors \/ stop_accepting \/ maxconns_handler

Worker(t) ==
  event_base_loop(t) \/ thread_libevent_process(t) \/ (\E f \in Fds : event_handler(t, f)) \/ drive_machine(t)

Client(i) == (Connect(i) \/ Send(i) \/ Receive(i) \/ Leave(i)) /\ UNCHANGED server

Next == Listener \/ (\E t \in Threads : Worker(t)) \/ (\E i \in Clients : Client(i))

\* Every thread runs.  Clients go on reading what has arrived, which is all that is asked of
\* them.
Fairness ==
  /\ WF_vars(Listener)
  /\ \A t \in Threads : WF_vars(Worker(t))
  /\ \A i \in Clients : WF_vars(Receive(i) /\ UNCHANGED server)

Spec == Init /\ [][Next]_vars /\ Fairness
-----------------------------------------------------------------------------
Live(f) == conns[f].state # "closed"
Driven(f) == \E t \in Threads : loop[t] # None /\ loop[t].fd = f /\ loop[t].at = "drive"

States == {"closed", "read", "parse_cmd", "new_cmd", "nread", "swallow", "write", "mwrite", "closing"}

Piece == [of : Nat, part : {"half", "end", "data"}]

Connection ==
  [state : States, thread : Threads \cup {None}, ev_flags : {"none", "read", "write"}, rbuf : Seq(Piece),
   rlbytes : {0, 1}, sbytes : {0, 1}, write_and_go : {"new_cmd", "swallow"}, noreply : BOOLEAN,
   item : Nat \cup {None}, ileft : {0, 1}, out : Nat \cup {None}]

Call == [fd : Fds, nreqs : 0..ReqsPerEvent, at : {"drive", "cleaned", "closed", "allowed"}]

ASSUME NoneIsNoCall == None \notin Call

ClientRecord ==
  [at : {"new", "backlog", "open", "left", "over"}, sent : Seq(AllKinds), rest : Seq(Piece), net : Seq(Piece),
   sock : Seq(Nat), got : Seq(Nat)]

TypeOK ==
  /\ maxconns_fast \in BOOLEAN
  /\ listener \in [listening : BOOLEAN, timer : BOOLEAN, full : BOOLEAN]
  /\ allow_new_conns \in BOOLEAN
  /\ curr_conns \in Int
  /\ last_thread \in Threads
  /\ new_conn_queue \in [Threads -> Seq(Fds)]
  /\ conns \in [Fds -> Connection]
  /\ active \in [Threads -> SUBSET (Fds \cup {Pipe})]
  /\ loop \in [Threads -> Call \cup {None}]
  /\ refs \in [Fds -> Int]
  /\ owner \in [Fds -> Clients \cup {None}]
  /\ client \in [Clients -> ClientRecord]

Places(f) == UNION {{<<t, n>> : n \in {m \in DOMAIN new_conn_queue[t] : new_conn_queue[t][m] = f}} : t \in Threads}
Cleaners(f) == {t \in Threads : loop[t] # None /\ loop[t].fd = f /\ loop[t].at = "cleaned"}

\* An open socket is waiting in one place of one queue, or has a connection, which only its
\* own thread drives or is to be called for, or one thread is about to close it: none is
\* forgotten, none is driven by two threads or after its end (where drive_machine aborts).
DescriptorsAccounted ==
  /\ \A f \in Fds : owner[f] # None <=> Places(f) # {} \/ Live(f) \/ Cleaners(f) # {}
  /\ \A f \in Fds :
       /\ \A p, q \in Places(f) : p = q
       /\ \A t, u \in Cleaners(f) : t = u
       /\ Places(f) # {} => ~Live(f) /\ Cleaners(f) = {}
       /\ Live(f) => Cleaners(f) = {}
  /\ \A t \in Threads : loop[t] # None /\ loop[t].at = "drive" =>
       Live(loop[t].fd) /\ conns[loop[t].fd].thread = t
  /\ \A t \in Threads : \A f \in active[t] \ {Pipe} : Live(f) /\ conns[f].thread = t

\* The count that turns clients away is that of the connections and of those being closed,
\* which one thread changes while the listener reads it.
ConnsCounted ==
  /\ TypeOK
  /\ curr_conns = Cardinality({f \in Fds : Live(f)})
                   + Cardinality({t \in Threads : loop[t] # None /\ loop[t].at # "drive"})

\* Every reference to an item that a command takes belongs to a connection that will give it
\* back, whatever ends the connection and wherever a command stops.
ItemsHeld == \A f \in Fds : refs[f] = Held(conns[f])

\* A connection no thread is at waits for the event that lets it go on: it has no command in
\* its buffer unless it waits for the socket to be writable, nor data of an upload.
Wakeable ==
  \A f \in Fds : Live(f) /\ ~Driven(f) =>
    \/ conns[f].ev_flags = "write" /\ conns[f].state \in {"new_cmd", "write", "mwrite"}
    \/ /\ conns[f].ev_flags = "read" /\ conns[f].state \in {"new_cmd", "read", "nread", "swallow"}
       /\ Ends(conns[f].rbuf) = {}

Owing(kind) == kind \in {"get", "set"}

\* Replies come in the order of their requests, none twice, and none is left out before another.
\* There are no more errors than uploads that ask for no reply.
InOrder(replies, sent) ==
  /\ \A m, n \in DOMAIN replies :
       m < n /\ Error \notin {replies[m], replies[n]} => replies[m] < replies[n]
  /\ \A n \in DOMAIN replies : replies[n] # Error =>
       /\ replies[n] \in DOMAIN sent /\ Owing(sent[replies[n]])
       /\ \A m \in 1..replies[n] : Owing(sent[m]) => \E j \in DOMAIN replies : replies[j] = m
  /\ Cardinality({n \in DOMAIN replies : replies[n] = Error})
       <= Cardinality({n \in DOMAIN sent : sent[n] = "set noreply"})

\* Clients that do not wait for replies get them in the order of their requests, none left
\* out, none twice.  Only a refused upload without reply makes errors: its data is not
\* swallowed but taken for a command.
RepliesInOrder == \A i \in Clients : InOrder(client[i].got \o client[i].sock, client[i].sent)

\* A request that has been sent in full on an open connection is answered, or else the
\* connection is over, as it is in the end when the client has gone.
RequestsAnswered ==
  /\ \A i \in Clients, n \in 1..MaxRequests :
       LET sent == n <= Len(client[i].sent) /\ (n < Len(client[i].sent) \/ client[i].rest = <<>>)
           owed == n <= Len(client[i].sent) /\ Owing(client[i].sent[n])
       IN
       (client[i].at = "open" /\ sent /\ owed)
         ~> (client[i].at \in {"left", "over"} \/ n \in ToSet(client[i].got))
  /\ \A i \in Clients : client[i].at = "left" ~> client[i].at = "over"
=============================================================================
