----------------------------- MODULE BinaryProtocol -----------------------------
(***************************************************************************)
(* A connection that speaks the binary protocol (memcached.c): its client  *)
(* sends requests without waiting, the worker cuts the stream of bytes     *)
(* into headers, keys and values, runs the commands and answers them.      *)
(*                                                                         *)
(* An action is a turn of the loop in drive_machine; waiting for input is  *)
(* not a step.  See Connections for events, threads, full sockets and the  *)
(* turns given to other connections, Items for what commands do to items.  *)
(*                                                                         *)
(* When it is closed, the connection (conns[sfd]) is there for the next    *)
(* client that gets its descriptor, with what conn_new does not reset.     *)
(*                                                                         *)
(* Abstractions.  The stream is counted in pieces: a header is two, extras *)
(* and key are one, a value is any number, less than a word.  A piece has  *)
(* a place in it.  Commands that are the same to the connection are one:   *)
(* get stands for getk, touch for gat and gatk, set for add and replace,   *)
(* append for prepend, incr for decr.  An answer of several packets is     *)
(* one.  A client of the text protocol may have the descriptor in between: *)
(* what it leaves is of the same kind.  What lies within a value does not  *)
(* look like a header.                                                     *)
(***************************************************************************)
EXTENDS Integers, Sequences

CONSTANTS
  Requests,       \* what the client may ask for
  Word,           \* 2^32, the number of values of an unsigned int, in pieces
  None,
  MaxRequests     \* bound: requests of a client

Commands == {"get", "touch", "set", "append", "delete", "incr", "noop", "version", "flush", "stat",
             "quit", "sasl_list", "sasl_auth", "sasl_step", "unknown"}

\* quiet is the variant whose name ends in Q; key and value are lengths in pieces, as the header
\* gives them: the body may be too short for the key.  "long" is the name of a mechanism above
\* MAX_SASL_MECH_LEN.
Request == [cmd : Commands, quiet : BOOLEAN, key : {0, 1}, value : Int, long : BOOLEAN]

ASSUME RequestsAssumption ==
  /\ Requests \subseteq Request
  /\ \A r \in Requests : r.key + r.value \in 0..(Word - 1)
  /\ \A r \in Requests : r.quiet => r.cmd \in {"get", "touch", "set", "append", "delete", "incr", "flush", "quit"}
  /\ Word \in Nat
  /\ MaxRequests \in Nat
  /\ None \notin Nat

VARIABLES
  sasl,           \* settings.sasl
  mayFail,        \* whether the process may be out of memory
  sent,           \* the requests the client has sent
  ends,           \* where in the stream each of them ends
  left,           \* whether the client has closed its end
  conn,
  got,            \* the answers sent
  refs            \* references to items that the connection's commands have taken

vars == <<sasl, mayFail, sent, ends, left, conn, got, refs>>

-----------------------------------------------------------------------------
Sasl == {"sasl_list", "sasl_auth", "sasl_step"}

\* "of" numbers the last request whose header was read (c->binary_header, c->cmd), pos is
\* where in the stream reading goes on, rbytes how much from there is in the buffer; "out" is
\* the answer being sent, "item" whether one is held.
Calloced ==
  [state |-> "new_cmd", substate |-> "none", of |-> 0, noreply |-> FALSE, pos |-> 0,
   rbytes |-> 0, rlbytes |-> 0, sbytes |-> 0, write_and_go |-> "new_cmd", item |-> FALSE, out |-> None,
   authenticated |-> FALSE]

Init ==
  /\ sasl \in BOOLEAN /\ mayFail \in BOOLEAN
  /\ sent = <<>> /\ ends = <<>> /\ left = FALSE
  /\ conn = Calloced
  /\ got = <<>>
  /\ refs = 0

(***************************************************************************)
(* The client                                                              *)
(***************************************************************************)
Header == 2
Size(r) == Header + r.key + r.value
End(n) == IF n = 0 THEN 0 ELSE ends[n]

Send(r) ==
  /\ ~left /\ Len(sent) < MaxRequests
  /\ sent' = Append(sent, r)
  /\ ends' = Append(ends, End(Len(sent)) + Size(r))
  /\ UNCHANGED <<sasl, mayFail, left, conn, got, refs>>

Leave ==
  /\ ~left
  /\ left' = TRUE
  /\ UNCHANGED <<sasl, mayFail, sent, ends, conn, got, refs>>

\* The next client gets the descriptor, and with it the connection.  What was to be read is
\* reset; what was to be swallowed is not.
conn_new ==
  /\ conn.state = "closed"
  /\ conn' = [Calloced EXCEPT !.substate = conn.substate, !.sbytes = conn.sbytes]
  /\ sent' = <<>> /\ ends' = <<>> /\ left' = FALSE /\ got' = <<>>
  /\ UNCHANGED <<sasl, mayFail, refs>>

(***************************************************************************)
(* Answers.  The operators on connections give what becomes of c.          *)
(***************************************************************************)
Req(c) == sent[c.of]

\* The int that a length becomes.
AsInt(length) == IF 2 * length < Word THEN length ELSE length - Word
vlen(c) == AsInt(Req(c).value)

Reply(c, status) == [of |-> c.of, status |-> status]

Answer(c, status) ==
  [c EXCEPT !.out = Reply(c, status), !.state = "mwrite", !.write_and_go = "new_cmd"]

\* An error is told in quiet mode too.  Where nothing is to be swallowed sbytes stays as it is.
write_bin_error(c, status, swallow) ==
  IF swallow > 0 THEN [Answer(c, status) EXCEPT !.sbytes = swallow, !.write_and_go = "swallow"]
                 ELSE Answer(c, status)

out_of_memory(c) == write_bin_error(c, "ENOMEM", 0)

\* Mutant: the answer of a quiet command is sent.
write_bin_response_loud(c) == Answer(c, "ok")

\* Gets that find their item do not come here.
write_bin_response(c) ==
  IF c.noreply THEN [c EXCEPT !.state = "new_cmd"] ELSE Answer(c, "ok")

\* Some refusals go on to swallow in any case: what sbytes says.
SwallowAfter(c, status, swallow) == [write_bin_error(c, status, swallow) EXCEPT !.write_and_go = "swallow"]

handle_binary_protocol_error(c) == [write_bin_error(c, "EINVAL", 0) EXCEPT !.write_and_go = "closing"]

(***************************************************************************)
(* Commands: [conn |-> what becomes of c, taken |-> references taken].     *)
(***************************************************************************)
Becomes(c) == [conn |-> c, taken |-> 0]
Without(failure) == IF mayFail THEN {failure} ELSE {}
Unless(succeeds, c) == {Becomes(succeeds), Becomes(write_bin_error(c, "error", 0))}

\* Key and extras are read behind the header; for a long key the buffer has to grow.
bin_read_key(c, substate) ==
  {Becomes([c EXCEPT !.substate = substate, !.rlbytes = Req(c).key, !.state = "nread"])}
    \cup Without(Becomes([c EXCEPT !.state = "closing"]))

\* The list of mechanisms, as every exchange, begins with init_sasl_conn.
init_sasl_conn(c) == [c EXCEPT !.authenticated = FALSE]

bin_list_sasl_mechs(c) ==
  IF ~sasl THEN {Becomes(write_bin_error(c, "unknown", vlen(c)))}
  ELSE LET fresh == init_sasl_conn(c)
       IN  {Becomes(write_bin_response(fresh)), Becomes(write_bin_error(fresh, "auth_error", 0))}

authenticated(c) == Req(c).cmd \in Sasl \cup {"version"} \/ c.authenticated

\* The lengths a command takes; any others are a protocol error.  Most commands do not look at
\* all of them.
Fits(r) ==
  CASE r.cmd \in {"noop", "version", "quit", "sasl_list"} -> r.key = 0 /\ r.value = 0
    [] r.cmd \in {"get", "delete", "incr"} -> r.key = 1 /\ r.value = 0
    [] r.cmd = "set" -> r.key = 1 /\ r.value >= 0
    [] r.cmd \in {"touch", "append", "sasl_auth", "sasl_step"} -> r.key = 1
    [] r.cmd = "flush" -> r.value = 0
    [] OTHER -> TRUE

\* Without an answer the connection is closed at once.
quit(c) ==
  IF c.noreply THEN [c EXCEPT !.state = "closing"]
               ELSE [write_bin_response(c) EXCEPT !.write_and_go = "closing"]

\* From the header of the request c.of.
dispatch_bin_command(c) ==
  LET r == Req(c)
      told == [c EXCEPT !.noreply = r.quiet]
  IN
  CASE sasl /\ ~authenticated(c) ->
         {Becomes([write_bin_error(c, "auth_error", 0) EXCEPT !.write_and_go = "closing"])}
    [] (~sasl \/ authenticated(c)) /\ ~Fits(r) -> {Becomes(handle_binary_protocol_error(told))}
    [] OTHER ->
         CASE r.cmd \in {"noop", "version"} -> {Becomes(write_bin_response(told))}
           [] r.cmd = "quit" -> {Becomes(quit(told))}
           [] r.cmd = "sasl_list" -> bin_list_sasl_mechs(told)
           [] r.cmd = "unknown" -> {Becomes(write_bin_error(told, "unknown", AsInt(r.key + r.value)))}
           [] OTHER -> bin_read_key(told, "key")

\* A hit holds the item until it has been sent; a quiet miss says nothing.
process_bin_get_or_touch(c) ==
  {[conn |-> [Answer(c, "ok") EXCEPT !.item = TRUE], taken |-> 1],
   Becomes(IF c.noreply THEN [c EXCEPT !.state = "new_cmd"] ELSE write_bin_error(c, "error", 0))}

\* An item of its own receives what is to follow, a negative number of pieces also.
Upload(c, substate) ==
  [conn |-> [c EXCEPT !.item = TRUE, !.rlbytes = vlen(c), !.state = "nread", !.substate = substate],
   taken |-> 1]

\* A value may be too large for an item; one of a negative length is, unless it is so little
\* below zero that the item's header makes up for it.
TooLarge(c, status) == IF Req(c).value > 0 THEN {Becomes(SwallowAfter(c, status, vlen(c)))} ELSE {}

\* Mutant: of a value that is too large nothing is swallowed.
process_bin_update_kept(c) ==
  {Upload(c, "value")}
    \cup (IF Req(c).value > 0 THEN {Becomes(write_bin_error(c, "E2BIG", 0))} ELSE {})
    \cup Without(Becomes([out_of_memory(c) EXCEPT !.write_and_go = "swallow"]))

\* The value is received, or refused and swallowed.
process_bin_update(c) ==
  {Upload(c, "value")} \cup TooLarge(c, "E2BIG")
    \cup Without(Becomes([out_of_memory(c) EXCEPT !.write_and_go = "swallow"]))

\* An item that cannot be had, for its size also, is a lack of memory here.
process_bin_sasl_auth(c) ==
  IF ~sasl THEN {Becomes(write_bin_error(c, "unknown", vlen(c)))}
  ELSE IF Req(c).long THEN {Becomes(SwallowAfter(c, "EINVAL", vlen(c)))}
  ELSE {Upload(c, "auth_data")} \cup TooLarge(c, "ENOMEM")
         \cup Without(Becomes(SwallowAfter(c, "ENOMEM", vlen(c))))

\* Mutant: the item is let go of, but the connection does not forget it.
complete_update_bin_kept(c) ==
  {[u EXCEPT !.taken = -1] : u \in Unless(write_bin_response(c), c)}

\* store_item, and the upload is let go of.
complete_update_bin(c) ==
  LET stored == [c EXCEPT !.item = FALSE] IN
  {[u EXCEPT !.taken = -1] : u \in Unless(write_bin_response(stored), stored)}

\* Mutant: an exchange that goes on is taken for a login.
process_bin_complete_sasl_auth_early(c) ==
  LET fresh == init_sasl_conn(c) IN
  {Becomes(write_bin_response([fresh EXCEPT !.authenticated = TRUE])),
   Becomes(Answer([fresh EXCEPT !.authenticated = TRUE], "continue")),
   Becomes(write_bin_error(fresh, "auth_error", 0))}

\* What the library says of the exchange.  The item is let go of when the answer is sent.
process_bin_complete_sasl_auth(c) ==
  LET fresh == init_sasl_conn(c) IN
  {Becomes(write_bin_response([fresh EXCEPT !.authenticated = TRUE])),
   Becomes(Answer(fresh, "continue")),
   Becomes(write_bin_error(fresh, "auth_error", 0))}

complete_incr_bin(c) == Unless(write_bin_response(c), c) \cup Without(Becomes(out_of_memory(c)))

process_bin_delete(c) == Unless(write_bin_response(c), c)

process_bin_flush(c) == Unless(write_bin_response(c), c)

process_bin_stat(c) == Unless(Answer(c, "ok"), c) \cup Without(Becomes(out_of_memory(c)))

\* What was to be read is there.
complete_nread_binary(c) ==
  CASE c.substate = "value" -> complete_update_bin(c)
    [] c.substate = "auth_data" -> process_bin_complete_sasl_auth(c)
    [] OTHER ->
         CASE Req(c).cmd \in {"get", "touch"} -> process_bin_get_or_touch(c)
           [] Req(c).cmd \in {"set", "append"} -> process_bin_update(c)
           [] Req(c).cmd = "delete" -> process_bin_delete(c)
           [] Req(c).cmd = "incr" -> complete_incr_bin(c)
           [] Req(c).cmd = "flush" -> process_bin_flush(c)
           [] Req(c).cmd = "stat" -> process_bin_stat(c)
           [] OTHER -> process_bin_sasl_auth(c)

(***************************************************************************)
(* drive_machine                                                           *)
(***************************************************************************)
\* What the connection does not change, and what is changed by few of its steps.
Machine == <<sasl, mayFail, sent, ends, left>>

\* What has arrived and has not been read from the socket.
Unread == End(Len(sent)) - conn.pos - conn.rbytes

\* The client is gone and all it sent has been read.
EndOfStream == Unread = 0 /\ left

\* read(2) gives some of what has arrived.  If the buffer cannot grow, what is in it is lost.
try_read_network ==
  /\ conn.state = "read"
  /\ \/ \E n \in 1..Unread : conn' = [conn EXCEPT !.rbytes = @ + n, !.state = "parse_cmd"]
     \/ /\ mayFail /\ Unread > 0
        /\ conn' = [out_of_memory(conn) EXCEPT !.pos = @ + conn.rbytes, !.rbytes = 0, !.write_and_go = "closing"]
     \/ EndOfStream /\ conn' = [conn EXCEPT !.state = "closing"]
  /\ UNCHANGED Machine /\ UNCHANGED <<got, refs>>

\* The requests that begin where reading goes on: one or none.
Beginning == {n \in 1..Len(sent) : End(n - 1) = conn.pos}

\* A header, or bytes that are none: their magic number is wrong.
try_read_command ==
  /\ conn.state = "parse_cmd"
  /\ \/ /\ conn.rbytes < Header
        /\ conn' = [conn EXCEPT !.state = "read"]
        /\ UNCHANGED refs
     \/ /\ conn.rbytes >= Header /\ Beginning = {}
        /\ conn' = [conn EXCEPT !.state = "closing"]
        /\ UNCHANGED refs
     \/ /\ conn.rbytes >= Header
        /\ \E n \in Beginning :
             \E b \in dispatch_bin_command([conn EXCEPT !.of = n, !.pos = @ + Header, !.rbytes = @ - Header]) :
               conn' = b.conn /\ refs' = refs + b.taken
  /\ UNCHANGED Machine /\ UNCHANGED got

Held(c) == IF c.item THEN 1 ELSE 0

reset_cmd_handler ==
  /\ conn.state = "new_cmd"
  /\ conn' = [conn EXCEPT !.item = FALSE, !.substate = "none",
                          !.state = IF conn.rbytes = 0 THEN "read" ELSE "parse_cmd"]
  /\ refs' = refs - Held(conn)
  /\ UNCHANGED Machine /\ UNCHANGED got

\* n pieces are taken, those in the buffer first.
Take(c, n) ==
  [c EXCEPT !.pos = @ + n, !.rbytes = IF n < @ THEN @ - n ELSE 0]

\* How many may be taken at once when so many are wanted.
Takes(wanted) ==
  IF conn.rbytes = 0 THEN {n \in 1..wanted : n <= Unread}
  ELSE IF wanted < conn.rbytes THEN {wanted} ELSE {conn.rbytes}

Ends == conn.rbytes = 0 /\ EndOfStream /\ conn' = [conn EXCEPT !.state = "closing"]

conn_nread ==
  /\ conn.state = "nread"
  /\ \/ /\ conn.rlbytes = 0
        /\ \E b \in complete_nread_binary(conn) : conn' = b.conn /\ refs' = refs + b.taken
     \/ conn.rlbytes < 0 /\ conn' = [conn EXCEPT !.state = "closing"] /\ UNCHANGED refs
     \/ /\ conn.rlbytes > 0
        /\ Ends \/ \E n \in Takes(conn.rlbytes) : conn' = Take([conn EXCEPT !.rlbytes = @ - n], n)
        /\ UNCHANGED refs
  /\ UNCHANGED Machine /\ UNCHANGED got

conn_swallow ==
  /\ conn.state = "swallow"
  /\ \/ conn.sbytes = 0 /\ conn' = [conn EXCEPT !.state = "new_cmd"]
     \/ /\ conn.sbytes > 0
        /\ Ends \/ \E n \in Takes(conn.sbytes) : conn' = Take([conn EXCEPT !.sbytes = @ - n], n)
  /\ UNCHANGED Machine /\ UNCHANGED <<got, refs>>

\* Mutant: after an answer the connection waits, whatever it has in its buffer.
conn_mwrite_waits ==
  /\ conn.state = "mwrite"
  /\ conn' = [conn EXCEPT !.out = None, !.item = FALSE,
                          !.state = IF conn.write_and_go = "new_cmd" THEN "read" ELSE conn.write_and_go]
  /\ got' = Append(got, conn.out)
  /\ refs' = refs - Held(conn)
  /\ UNCHANGED Machine

\* The answer is sent, or the client is gone.
conn_mwrite ==
  /\ conn.state = "mwrite"
  /\ \/ /\ conn' = [conn EXCEPT !.out = None, !.item = FALSE, !.state = conn.write_and_go]
        /\ got' = Append(got, conn.out)
        /\ refs' = refs - Held(conn)
     \/ /\ left
        /\ conn' = [conn EXCEPT !.out = None, !.state = "closing"]
        /\ UNCHANGED <<got, refs>>
  /\ UNCHANGED Machine

conn_close ==
  /\ conn.state = "closing"
  /\ conn' = [conn EXCEPT !.item = FALSE, !.state = "closed"]
  /\ refs' = refs - Held(conn)
  /\ UNCHANGED Machine /\ UNCHANGED got

drive_machine ==
  \/ try_read_network \/ try_read_command \/ reset_cmd_handler \/ conn_nread \/ conn_swallow
  \/ conn_mwrite \/ conn_close

Next == (\E r \in Requests : Send(r)) \/ Leave \/ conn_new \/ drive_machine

\* The worker runs (see Connections); nothing is asked of the clients.
Spec == Init /\ [][Next]_vars /\ WF_vars(drive_machine)
-----------------------------------------------------------------------------
Statuses == {"ok", "error", "ENOMEM", "EINVAL", "E2BIG", "unknown", "auth_error", "continue"}
Replies == [of : Nat, status : Statuses]

Connection ==
  [state : {"read", "parse_cmd", "new_cmd", "nread", "swallow", "mwrite", "closing", "closed"},
   substate : {"none", "key", "value", "auth_data"}, of : Nat, noreply : BOOLEAN, pos : Nat,
   rbytes : Nat, rlbytes : Int, sbytes : Nat, write_and_go : {"new_cmd", "swallow", "closing"},
   item : BOOLEAN, out : Replies \cup {None}, authenticated : BOOLEAN]

\* The fields of a connection keep their types: what is in the buffer and what is to be
\* swallowed is never negative, and an answer is sent exactly where there is one.
TypeOK ==
  /\ sasl \in BOOLEAN /\ mayFail \in BOOLEAN /\ left \in BOOLEAN
  /\ sent \in Seq(Requests) /\ ends \in Seq(Nat) /\ got \in Seq(Replies)
  /\ conn \in Connection
  /\ refs \in Int

BetweenCommands == conn.state \in {"new_cmd", "read", "parse_cmd"}

\* What a client must keep to, as the server does not see to it: the body is as long as the
\* command's parts and shorter than 2^31, stat and touch have no value, and a login by a
\* mechanism with too long a name brings data.
Proper(r) ==
  /\ 0 <= r.value /\ 2 * (r.key + r.value) < Word
  /\ r.cmd \in {"stat", "touch"} => r.value = 0
  /\ r.cmd \in {"sasl_auth", "sasl_step"} /\ r.long /\ sasl => r.value # 0

ProperUpTo(n) == \A m \in 1..n : Proper(sent[m])

\* Between two commands reading goes on where the last request ends: the key and the value of
\* every request are read or swallowed in full, whether it was served or refused and at which
\* point, however the stream was cut when it arrived, and whatever the clients before left to be
\* swallowed; as long as there is memory (see out_of_memory) and the client is proper.
InStep ==
  ~mayFail /\ ProperUpTo(conn.of) /\ BetweenCommands => conn.pos = End(conn.of) /\ conn.of <= Len(sent)

Answered == {got[i].of : i \in DOMAIN got}

\* A proper client that sends without waiting can tell by an answer that all before it are
\* done: the answers come in the order of the requests, none twice; none is left out but those of
\* quiet requests, and a quiet request says nothing of its success unless it is a get or gat that
\* hits, nothing of its failure if it is one that misses.  The clients before may have been any.
AnswersInTurn == ~mayFail /\ ProperUpTo(conn.of) =>
  /\ \A i, j \in DOMAIN got : i < j => got[i].of < got[j].of
  /\ \A n \in 1..conn.of : ~sent[n].quiet /\ (n < conn.of \/ BetweenCommands) => n \in Answered
  /\ \A i \in DOMAIN got :
       LET r == sent[got[i].of] IN
       r.quiet /\ Fits(r) /\ got[i].status # "auth_error" =>
         (got[i].status = "ok" <=> r.cmd \in {"get", "touch"})

\* The references taken for an item are given back, and given back once, however the command
\* that took them ends: by an answer, by the client's going, or without memory.
ItemHeld == refs = Held(conn)

\* An exchange of the login that has come to something; the last one logged the client in.
Exchange(a) == a.status \in {"ok", "continue", "auth_error"} /\ sent[a.of].cmd \in Sasl
LogsIn(a) == a.status = "ok" /\ sent[a.of].cmd \in {"sasl_auth", "sasl_step"}
LoggedIn(answers) ==
  \E i \in DOMAIN answers :
    LogsIn(answers[i]) /\ \A j \in DOMAIN answers : i < j => ~Exchange(answers[j])

\* It is answered that a login is needed, and that is the end.
Refused ==
  /\ conn.state \in {"mwrite", "closing", "closed"}
  /\ conn.state = "mwrite" => conn.out.status = "auth_error" /\ conn.write_and_go = "closing"

\* With SASL, a command that needs it is run only when the last exchange that was answered
\* before, the listing of the mechanisms among them, has logged the client in; any other ends
\* the connection.
AuthenticatedOnly ==
  sasl /\ conn.of # 0 => Req(conn).cmd \in Sasl \cup {"version"} \/ LoggedIn(got) \/ Refused

\* With memory, every request of a proper client that wants an answer is answered, or the
\* connection is closed, whatever the clients before left.  It is closed in the end when the client
\* has gone, whatever it was doing, and be the client proper or not.
RequestsAnswered ==
  /\ \A n \in 1..MaxRequests :
       (~mayFail /\ n <= Len(sent) /\ ~sent[n].quiet /\ ProperUpTo(n)) ~> (n \in Answered \/ conn.state = "closed")
  /\ left ~> conn.state = "closed"
=============================================================================
