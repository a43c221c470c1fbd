------------------------- MODULE BinaryProtocol_proofs -------------------------
(***************************************************************************)
(* What is proved of BinaryProtocol for any clients one after another, any *)
(* requests, any number of them and values of any length.                  *)
(***************************************************************************)
EXTENDS BinaryProtocol, TLAPS

-----------------------------------------------------------------------------
(***************************************************************************)
(* The inductive invariant.                                                *)
(***************************************************************************)
\* Requests follow one another in the stream.
Increasing == \A m, n \in 0..Len(sent) : m < n => End(m) < End(n)

Stream ==
  /\ Len(ends) = Len(sent)
  /\ \A n \in 1..Len(sent) : ends[n] = End(n - 1) + Size(sent[n])
  /\ Increasing

\* Where a connection may hold an item, and must.
Holds(c) ==
  /\ c.state \in {"read", "parse_cmd", "swallow", "closed"} => ~c.item
  /\ c.state = "nread" => c.substate # "none" /\ (c.item <=> c.substate # "key")
  /\ c.state = "mwrite" => c.out \in Replies

\* The request it is at; reading has gone on from where that begins.
Placed(c) == c.of \in 0..Len(sent) /\ (c.of # 0 => End(c.of - 1) < c.pos)

\* What has a key to be read.
Keyed == {"get", "touch", "set", "append", "delete", "incr", "flush", "stat", "sasl_auth", "sasl_step"}

\* One that is being read has the lengths its command takes.
Serves(c) ==
  /\ Placed(c)
  /\ c.state = "nread" => c.of # 0 /\ Fits(Req(c)) /\ Req(c).cmd \in Keyed

\* With what is still to be read or swallowed the request ends.  sbytes counts only where it is
\* going to be swallowed.
Located(c) ==
  /\ c.state \in {"new_cmd", "read", "parse_cmd"} => c.pos = End(c.of)
  /\ c.state = "nread" => c.pos + c.rlbytes + (IF c.substate = "key" THEN Req(c).value ELSE 0) = End(c.of)
  /\ c.state = "mwrite" /\ c.write_and_go = "new_cmd" => c.pos = End(c.of)
  /\ c.state = "mwrite" /\ c.write_and_go = "swallow" => c.pos + c.sbytes = End(c.of)
  /\ c.state = "swallow" => c.pos + c.sbytes = End(c.of)

\* There is memory, and the client has been proper so far.
Trusted(c) == ~mayFail /\ ProperUpTo(c.of)

Sound(c) == c \in Connection /\ Holds(c) /\ Serves(c) /\ (Trusted(c) => Located(c))

IInv == TypeOK /\ Stream /\ Sound(conn) /\ refs = Held(conn)

-----------------------------------------------------------------------------
(***************************************************************************)
(* Answers.                                                                *)
(***************************************************************************)
\* A connection that has read its request up to a rest.
At(c, rest) ==
  /\ c \in Connection /\ Placed(c) /\ rest \in Int
  /\ Trusted(c) => rest >= 0 /\ c.pos + rest = End(c.of)

Same(c, d) == d.item = c.item /\ d.of = c.of

LEMMA SameTrust ==
  ASSUME NEW c, NEW d, d.of = c.of
  PROVE  Trusted(d) <=> Trusted(c)
BY DEF Trusted, ProperUpTo

LEMMA SamePlace ==
  ASSUME NEW c, NEW d, Placed(c), d.of = c.of, d.pos = c.pos
  PROVE  Placed(d)
BY DEF Placed

LEMMA AnswerFields ==
  ASSUME NEW c \in Connection, NEW status \in Statuses
  PROVE  /\ Answer(c, status) \in Connection /\ Answer(c, status).out \in Replies
         /\ Answer(c, status).state = "mwrite" /\ Answer(c, status).write_and_go = "new_cmd"
         /\ Answer(c, status).pos = c.pos /\ Answer(c, status).of = c.of
         /\ Answer(c, status).sbytes = c.sbytes /\ Answer(c, status).item = c.item
BY DEF Connection, Answer, Reply, Replies

LEMMA AnswerSound ==
  ASSUME NEW c, NEW status \in Statuses, At(c, 0)
  PROVE  Sound(Answer(c, status)) /\ Same(c, Answer(c, status))
<1> DEFINE d == Answer(c, status)
<1>1. /\ d \in Connection /\ d.out \in Replies /\ d.state = "mwrite" /\ d.write_and_go = "new_cmd"
      /\ d.pos = c.pos /\ d.of = c.of /\ d.sbytes = c.sbytes /\ d.item = c.item
  BY AnswerFields DEF At
<1> HIDE DEF d
<1>2. c.pos \in Nat
  BY DEF At, Connection
<1>3. Sound(d) /\ Same(c, d)
  BY <1>1, <1>2, SameTrust, SamePlace DEF At, Sound, Holds, Serves, Located, Same
<1> QED
  BY <1>3 DEF d

LEMMA ErrorSound ==
  ASSUME NEW c, NEW status \in Statuses, NEW swallow, At(c, swallow)
  PROVE  Sound(write_bin_error(c, status, swallow)) /\ Same(c, write_bin_error(c, status, swallow))
<1>1. c \in Connection /\ swallow \in Int /\ c.pos \in Nat
  BY DEF At, Connection
<1>2. CASE swallow <= 0
  <2>1. At(c, 0)
    BY <1>1, <1>2 DEF At
  <2> QED
    BY <1>1, <1>2, <2>1, AnswerSound DEF write_bin_error
<1>3. CASE swallow > 0
  <2> DEFINE e == Answer(c, status)
             d == [e EXCEPT !.sbytes = swallow, !.write_and_go = "swallow"]
  <2>1. write_bin_error(c, status, swallow) = d
    BY <1>3 DEF write_bin_error
  <2>2. /\ e \in Connection /\ e.out \in Replies /\ e.state = "mwrite"
        /\ e.pos = c.pos /\ e.of = c.of /\ e.item = c.item
    BY <1>1, AnswerFields
  <2> HIDE DEF e
  <2>3. swallow \in Nat
    BY <1>1, <1>3
  <2>4. /\ d \in Connection /\ d.out \in Replies
        /\ d.state = "mwrite" /\ d.write_and_go = "swallow" /\ d.sbytes = swallow
        /\ d.pos = c.pos /\ d.of = c.of /\ d.item = c.item
    BY <2>2, <2>3 DEF Connection
  <2> HIDE DEF d
  <2> QED
    BY <1>1, <2>1, <2>4, SameTrust, SamePlace DEF At, Sound, Holds, Serves, Located, Same
<1> QED
  BY <1>1, <1>2, <1>3

LEMMA ResponseSound ==
  ASSUME NEW c, At(c, 0)
  PROVE  Sound(write_bin_response(c)) /\ Same(c, write_bin_response(c))
<1>1. CASE ~c.noreply
  BY <1>1, AnswerSound DEF write_bin_response, Statuses
<1>2. CASE c.noreply
  <2> DEFINE d == [c EXCEPT !.state = "new_cmd"]
  <2>1. /\ d \in Connection /\ d.state = "new_cmd"
        /\ d.pos = c.pos /\ d.of = c.of /\ d.item = c.item
    BY DEF At, Connection
  <2>2. write_bin_response(c) = d
    BY <1>2 DEF write_bin_response
  <2>3. c.pos \in Nat
    BY DEF At, Connection
  <2> HIDE DEF d
  <2> QED
    BY <2>1, <2>2, <2>3, SameTrust, SamePlace DEF At, Sound, Holds, Serves, Located, Same
<1> QED
  BY <1>1, <1>2

\* Without memory nothing is said of where reading goes on.
LEMMA NoMemorySound ==
  ASSUME NEW c \in Connection, Placed(c), mayFail,
         NEW d, NEW go \in {"new_cmd", "swallow", "closing"},
         d = [out_of_memory(c) EXCEPT !.write_and_go = go]
  PROVE  Sound(d) /\ Sound(out_of_memory(c)) /\ Same(c, d) /\ Same(c, out_of_memory(c))
<1>1. out_of_memory(c) = Answer(c, "ENOMEM")
  BY DEF out_of_memory, write_bin_error
<1> DEFINE e == out_of_memory(c)
<1>2. /\ e \in Connection /\ e.out \in Replies /\ e.state = "mwrite" /\ e.of = c.of /\ e.item = c.item
      /\ e.pos = c.pos
  <2>1. "ENOMEM" \in Statuses
    BY DEF Statuses
  <2> QED
    BY <2>1, <1>1, AnswerFields
<1> HIDE DEF e
<1>3. /\ d \in Connection /\ d.out \in Replies /\ d.state = "mwrite" /\ d.of = c.of /\ d.item = c.item
      /\ d.pos = c.pos
  BY <1>2 DEF e, Connection
<1>4. Placed(d) /\ Placed(e)
  BY <1>2, <1>3, SamePlace
<1> QED
  BY <1>2, <1>3, <1>4 DEF e, Sound, Holds, Serves, Same, Trusted

-----------------------------------------------------------------------------
(***************************************************************************)
(* Commands.  An outcome is balanced: a reference is taken with the item   *)
(* the connection remembers.                                               *)
(***************************************************************************)
Balanced(c, b) == Sound(b.conn) /\ b.taken = Held(b.conn) - Held(c)

LEMMA SameBalanced ==
  ASSUME NEW c, NEW d, Sound(d), Same(c, d)
  PROVE  Balanced(c, Becomes(d))
<1>1. Held(d) = Held(c) /\ Held(c) \in {0, 1}
  BY DEF Same, Held
<1>2. Becomes(d).conn = d /\ Becomes(d).taken = 0
  BY DEF Becomes
<1> QED
  BY <1>1, <1>2 DEF Balanced

LEMMA UnlessBalanced ==
  ASSUME NEW c, At(c, 0), NEW d, Sound(d), Same(c, d), NEW b \in Unless(d, c)
  PROVE  Balanced(c, b)
<1>1. "error" \in Statuses
  BY DEF Statuses
<1>2. Balanced(c, Becomes(d)) /\ Balanced(c, Becomes(write_bin_error(c, "error", 0)))
  BY <1>1, ErrorSound, SameBalanced
<1> QED
  BY <1>2 DEF Unless

LEMMA NoMemoryBalanced ==
  ASSUME NEW c \in Connection, Placed(c), NEW go \in {"new_cmd", "swallow", "closing"}
  PROVE  /\ \A b \in Without(Becomes(out_of_memory(c))) : Balanced(c, b)
         /\ \A b \in Without(Becomes([out_of_memory(c) EXCEPT !.write_and_go = go])) : Balanced(c, b)
<1>1. SUFFICES ASSUME mayFail
               PROVE  /\ Balanced(c, Becomes(out_of_memory(c)))
                      /\ Balanced(c, Becomes([out_of_memory(c) EXCEPT !.write_and_go = go]))
  BY DEF Without
<1> DEFINE d == [out_of_memory(c) EXCEPT !.write_and_go = go]
<1>2. Sound(d) /\ Sound(out_of_memory(c)) /\ Same(c, d) /\ Same(c, out_of_memory(c))
  BY <1>1, NoMemorySound
<1> QED
  BY <1>2, SameBalanced

\* What a command finds when it has read its key: a request with the lengths it takes.
KeyRead(c) ==
  /\ sent \in Seq(Requests)
  /\ c \in Connection /\ Placed(c) /\ c.of # 0 /\ ~c.item /\ Fits(Req(c))
  /\ Req(c) \in Requests /\ Req(c).cmd \in Keyed
  /\ Trusted(c) => c.pos + Req(c).value = End(c.of)

LEMMA RequestLengths ==
  ASSUME NEW r \in Requests
  PROVE  /\ r \in Request /\ r.value \in Int /\ r.key \in {0, 1} /\ r.key + r.value \in Nat
         /\ AsInt(r.value) \in Int /\ AsInt(r.key + r.value) \in Int
<1>1. r \in Request /\ r.value \in Int /\ r.key \in {0, 1} /\ Word \in Nat
  BY RequestsAssumption DEF Request
<1>2. r.key + r.value \in 0..(Word - 1)
  BY RequestsAssumption
<1> QED
  BY <1>1, <1>2 DEF AsInt

\* The lengths of a request are told as they are.
LEMMA ProperLengths ==
  ASSUME NEW c, c \in Connection, c.of # 0, Trusted(c), Req(c) \in Requests
  PROVE  /\ Proper(Req(c)) /\ Req(c).value \in Nat /\ vlen(c) = Req(c).value
         /\ AsInt(Req(c).key + Req(c).value) = Req(c).key + Req(c).value
<1>1. Proper(Req(c))
  BY DEF Trusted, ProperUpTo, Connection, Req
<1> DEFINE k == Req(c).key
           v == Req(c).value
<1>2. k \in {0, 1} /\ v \in Int /\ 0 <= v /\ 2 * (k + v) < Word /\ Word \in Nat
  BY <1>1, RequestLengths, RequestsAssumption DEF Proper
<1>3. vlen(c) = AsInt(v)
  BY DEF vlen
<1> HIDE DEF k, v
<1>4. AsInt(v) = v /\ AsInt(k + v) = k + v
  BY <1>2 DEF AsInt
<1> QED
  BY <1>1, <1>2, <1>3, <1>4 DEF k, v

LEMMA WithoutValue ==
  ASSUME NEW c, KeyRead(c), Trusted(c) => Req(c).value = 0
  PROVE  At(c, 0)
BY DEF KeyRead, At

LEMMA GetBalanced ==
  ASSUME NEW c, KeyRead(c), Trusted(c) => Req(c).value = 0, NEW b \in process_bin_get_or_touch(c)
  PROVE  Balanced(c, b)
<1>1. At(c, 0) /\ {"ok", "error"} \subseteq Statuses
  BY WithoutValue DEF Statuses
<1>2. CASE b = [conn |-> [Answer(c, "ok") EXCEPT !.item = TRUE], taken |-> 1]
  <2> DEFINE e == Answer(c, "ok")
             d == [e EXCEPT !.item = TRUE]
  <2>1. Sound(e) /\ e.state = "mwrite" /\ e \in Connection
    BY <1>1, AnswerSound, AnswerFields DEF At
  <2> HIDE DEF e
  <2>2. /\ d \in Connection /\ d.state = e.state /\ d.item /\ d.out = e.out /\ d.of = e.of
        /\ d.sbytes = e.sbytes /\ d.pos = e.pos /\ d.write_and_go = e.write_and_go
    BY <2>1 DEF Connection
  <2> HIDE DEF d
  <2>3. Sound(d)
    BY <2>1, <2>2, SameTrust, SamePlace DEF Sound, Holds, Serves, Located
  <2>4. Held(d) = 1 /\ Held(c) = 0
    BY <2>2 DEF Held, KeyRead
  <2>5. b.conn = d /\ b.taken = 1
    BY <1>2 DEF d, e
  <2> QED
    BY <2>3, <2>4, <2>5 DEF Balanced
<1>3. CASE b = Becomes(write_bin_error(c, "error", 0))
  BY <1>1, <1>3, ErrorSound, SameBalanced
<1>4. CASE b = Becomes([c EXCEPT !.state = "new_cmd"]) /\ c.noreply
  <2>1. [c EXCEPT !.state = "new_cmd"] = write_bin_response(c)
    BY <1>4 DEF write_bin_response
  <2> QED
    BY <1>1, <1>4, <2>1, ResponseSound, SameBalanced
<1> QED
  BY <1>2, <1>3, <1>4 DEF process_bin_get_or_touch

LEMMA UploadBalanced ==
  ASSUME NEW c, KeyRead(c), NEW substate \in {"value", "auth_data"}
  PROVE  Balanced(c, Upload(c, substate))
<1> DEFINE b == Upload(c, substate)
           d == b.conn
<1>1. c \in Connection /\ vlen(c) \in Int /\ c.pos \in Nat
  BY RequestLengths DEF KeyRead, vlen, Connection
<1>2. /\ d \in Connection /\ d.item /\ d.rlbytes = vlen(c) /\ d.state = "nread" /\ d.substate = substate
      /\ d.pos = c.pos /\ d.of = c.of /\ b.taken = 1
  BY <1>1 DEF Upload, Connection
<1>3. b.conn = d
  OBVIOUS
<1> HIDE DEF d, b
<1>4. Req(d) = Req(c)
  BY <1>2 DEF Req
<1>5. Holds(d) /\ Serves(d)
  BY <1>2, <1>4, SamePlace DEF Holds, Serves, KeyRead
<1>6. ASSUME Trusted(d) PROVE Located(d)
  <2>1. Trusted(c)
    BY <1>2, <1>6, SameTrust
  <2>2. vlen(c) = Req(c).value /\ Req(c).value \in Nat /\ c.pos + Req(c).value = End(c.of)
    BY <2>1, ProperLengths DEF KeyRead
  <2> QED
    BY <1>1, <1>2, <2>2 DEF Located
<1>7. Held(d) = 1 /\ Held(c) = 0
  BY <1>2 DEF Held, KeyRead
<1>8. Balanced(c, b)
  BY <1>2, <1>3, <1>5, <1>6, <1>7 DEF Balanced, Sound
<1> QED
  BY <1>8 DEF b

\* What a refusal leaves to be swallowed.
LEMMA KeyReadAt ==
  ASSUME NEW c, KeyRead(c)
  PROVE  At(c, vlen(c)) /\ (Trusted(c) => vlen(c) = Req(c).value /\ Req(c).value \in Nat)
<1>1. vlen(c) \in Int /\ c \in Connection /\ Placed(c)
  BY RequestLengths DEF KeyRead, vlen
<1>2. Trusted(c) => vlen(c) = Req(c).value /\ Req(c).value \in Nat
  BY ProperLengths DEF KeyRead
<1> QED
  BY <1>1, <1>2 DEF KeyRead, At

\* An error after which sbytes pieces are swallowed: to be trusted when it is the error that has
\* set them.
LEMMA SwallowSound ==
  ASSUME NEW c, NEW status \in Statuses, NEW swallow, At(c, swallow), Trusted(c) => swallow > 0
  PROVE  Sound(SwallowAfter(c, status, swallow)) /\ Same(c, SwallowAfter(c, status, swallow))
<1> DEFINE e == write_bin_error(c, status, swallow)
           d == [e EXCEPT !.write_and_go = "swallow"]
<1>1. Sound(e) /\ Same(c, e) /\ e.state = "mwrite" /\ e.pos = c.pos
      /\ (swallow > 0 => e.sbytes = swallow)
  <2>1. c \in Connection /\ swallow \in Int
    BY DEF At
  <2>2. /\ Answer(c, status) \in Connection /\ Answer(c, status).state = "mwrite"
        /\ Answer(c, status).pos = c.pos
    BY <2>1, AnswerFields
  <2>3. e.state = "mwrite" /\ e.pos = c.pos /\ (swallow > 0 => e.sbytes = swallow)
    BY <2>1, <2>2 DEF write_bin_error, Connection
  <2> QED
    BY <2>3, ErrorSound
<1>2. SwallowAfter(c, status, swallow) = d
  BY DEF SwallowAfter
<1> HIDE DEF e
<1>3. /\ d \in Connection /\ d.state = "mwrite" /\ d.write_and_go = "swallow" /\ d.out = e.out
      /\ d.pos = e.pos /\ d.of = e.of /\ d.item = e.item /\ d.sbytes = e.sbytes
  BY <1>1 DEF Sound, Connection
<1> HIDE DEF d
<1>4. d.of = c.of /\ (Trusted(d) => Trusted(c)) /\ Placed(d)
  BY <1>1, <1>3, SameTrust, SamePlace DEF Same, Sound, Serves
<1>5. Trusted(c) => c.pos + d.sbytes = End(c.of)
  BY <1>1, <1>3 DEF At
<1>6. Holds(d) /\ Serves(d) /\ (Trusted(d) => Located(d))
  BY <1>1, <1>3, <1>4, <1>5 DEF Sound, Holds, Serves, Located
<1>7. Sound(d) /\ Same(c, d)
  BY <1>1, <1>3, <1>6 DEF Sound, Same
<1> QED
  BY <1>2, <1>7

LEMMA TooLargeBalanced ==
  ASSUME NEW c, KeyRead(c), NEW status \in Statuses, NEW b \in TooLarge(c, status)
  PROVE  Balanced(c, b)
<1>1. Req(c).value > 0 /\ b = Becomes(SwallowAfter(c, status, vlen(c)))
  BY DEF TooLarge
<1>2. At(c, vlen(c)) /\ (Trusted(c) => vlen(c) > 0)
  BY <1>1, KeyReadAt
<1> QED
  BY <1>1, <1>2, SwallowSound, SameBalanced

LEMMA UpdateBalanced ==
  ASSUME NEW c, KeyRead(c), NEW b \in process_bin_update(c)
  PROVE  Balanced(c, b)
<1>1. "E2BIG" \in Statuses /\ c \in Connection /\ Placed(c) /\ "swallow" \in {"new_cmd", "swallow", "closing"}
  BY DEF KeyRead, Statuses
<1>2. CASE b = Upload(c, "value")
  BY <1>2, UploadBalanced
<1>3. CASE b \in TooLarge(c, "E2BIG")
  BY <1>1, <1>3, TooLargeBalanced
<1>4. CASE b \in Without(Becomes([out_of_memory(c) EXCEPT !.write_and_go = "swallow"]))
  BY <1>1, <1>4, NoMemoryBalanced
<1> QED
  BY <1>2, <1>3, <1>4 DEF process_bin_update

LEMMA SaslAuthBalanced ==
  ASSUME NEW c, KeyRead(c), Req(c).cmd \in {"sasl_auth", "sasl_step"}, NEW b \in process_bin_sasl_auth(c)
  PROVE  Balanced(c, b)
<1>1. At(c, vlen(c)) /\ {"unknown", "EINVAL", "ENOMEM"} \subseteq Statuses
  BY KeyReadAt DEF Statuses
<1>2. CASE b = Becomes(write_bin_error(c, "unknown", vlen(c)))
  BY <1>1, <1>2, ErrorSound, SameBalanced
<1>3. CASE b = Upload(c, "auth_data")
  BY <1>3, UploadBalanced
<1>4. CASE b \in TooLarge(c, "ENOMEM")
  BY <1>1, <1>4, TooLargeBalanced
<1>5. CASE sasl /\ Req(c).long /\ b = Becomes(SwallowAfter(c, "EINVAL", vlen(c)))
  <2>1. Trusted(c) => vlen(c) > 0
    <3>1. ASSUME Trusted(c) PROVE Req(c).value # 0
      BY <1>5, <3>1, ProperLengths DEF Proper, KeyRead
    <3> QED
      BY <3>1, KeyReadAt
  <2> QED
    BY <1>1, <1>5, <2>1, SwallowSound, SameBalanced
<1>6. CASE b \in Without(Becomes(SwallowAfter(c, "ENOMEM", vlen(c))))
  <2>1. mayFail /\ b = Becomes(SwallowAfter(c, "ENOMEM", vlen(c)))
    BY <1>6 DEF Without
  <2>2. ~Trusted(c)
    BY <2>1 DEF Trusted
  <2> QED
    BY <1>1, <2>1, <2>2, SwallowSound, SameBalanced
<1> QED
  BY <1>2, <1>3, <1>4, <1>5, <1>6 DEF process_bin_sasl_auth

LEMMA CompleteUpdateBalanced ==
  ASSUME NEW c, At(c, 0), c.item, NEW b \in complete_update_bin(c)
  PROVE  Balanced(c, b)
<1> DEFINE e == [c EXCEPT !.item = FALSE]
<1>1. e \in Connection /\ ~e.item /\ e.of = c.of /\ e.pos = c.pos
  BY DEF At, Connection
<1>2. PICK u \in Unless(write_bin_response(e), e) : b = [u EXCEPT !.taken = -1]
  BY DEF complete_update_bin
<1> HIDE DEF e
<1>3. At(e, 0)
  BY <1>1, SameTrust, SamePlace DEF At
<1>4. Balanced(e, u)
  BY <1>2, <1>3, ResponseSound, UnlessBalanced
<1>5. \E d : u = Becomes(d)
  BY <1>2 DEF Unless
<1>6. b.conn = u.conn /\ b.taken = -1 /\ u.taken = 0
  BY <1>2, <1>5 DEF Becomes
<1>7. Held(e) = 0 /\ Held(c) = 1 /\ Held(u.conn) \in {0, 1}
  BY <1>1 DEF Held
<1> QED
  BY <1>4, <1>6, <1>7 DEF Balanced

\* Changes of the login and of the mode of answering matter to nothing here.
LEMMA LoginAt ==
  ASSUME NEW c, NEW rest, At(c, rest), NEW a \in BOOLEAN
  PROVE  LET d == [c EXCEPT !.authenticated = a] IN At(d, rest) /\ Same(c, d)
<1> DEFINE d == [c EXCEPT !.authenticated = a]
<1>1. /\ d \in Connection /\ d.of = c.of /\ d.pos = c.pos /\ d.item = c.item
  BY DEF At, Connection
<1> HIDE DEF d
<1>2. At(d, rest) /\ Same(c, d)
  BY <1>1, SameTrust, SamePlace DEF At, Same
<1> QED
  BY <1>2 DEF d

LEMMA CompleteSaslBalanced ==
  ASSUME NEW c, At(c, 0), NEW b \in process_bin_complete_sasl_auth(c)
  PROVE  Balanced(c, b)
<1> DEFINE e == init_sasl_conn(c)
           f == [e EXCEPT !.authenticated = TRUE]
<1>1. At(e, 0) /\ Same(c, e)
  BY LoginAt DEF init_sasl_conn
<1>2. b \in {Becomes(write_bin_response(f)), Becomes(Answer(e, "continue")), Becomes(write_bin_error(e, "auth_error", 0))}
  BY DEF process_bin_complete_sasl_auth
<1> HIDE DEF e
<1>3. At(f, 0) /\ Same(e, f)
  BY <1>1, LoginAt
<1> HIDE DEF f
<1>4. {"continue", "auth_error"} \subseteq Statuses
  BY DEF Statuses
<1>5. \E d : b = Becomes(d) /\ Sound(d) /\ (Same(e, d) \/ Same(f, d))
  BY <1>1, <1>2, <1>3, <1>4, ResponseSound, AnswerSound, ErrorSound
<1>6. PICK d : b = Becomes(d) /\ Sound(d) /\ (Same(e, d) \/ Same(f, d))
  BY <1>5
<1>7. Same(c, d)
  BY <1>1, <1>3, <1>6 DEF Same
<1> QED
  BY <1>6, <1>7, SameBalanced

\* Commands that have nothing more to read.
LEMMA SimpleBalanced ==
  ASSUME NEW c, At(c, 0),
         NEW b \in complete_incr_bin(c) \cup process_bin_delete(c) \cup process_bin_flush(c) \cup process_bin_stat(c)
  PROVE  Balanced(c, b)
<1>1. c \in Connection /\ Placed(c) /\ "ok" \in Statuses /\ "swallow" \in {"new_cmd", "swallow", "closing"}
  BY DEF At, Statuses
<1>2. CASE b \in Unless(write_bin_response(c), c)
  BY <1>2, ResponseSound, UnlessBalanced
<1>3. CASE b \in Unless(Answer(c, "ok"), c)
  BY <1>1, <1>3, AnswerSound, UnlessBalanced
<1>4. CASE b \in Without(Becomes(out_of_memory(c)))
  BY <1>1, <1>4, NoMemoryBalanced
<1> QED
  BY <1>2, <1>3, <1>4 DEF complete_incr_bin, process_bin_delete, process_bin_flush, process_bin_stat

LEMMA CompleteBalanced ==
  ASSUME NEW c, sent \in Seq(Requests), Sound(c), c.state = "nread", c.rlbytes = 0,
         NEW b \in complete_nread_binary(c)
  PROVE  Balanced(c, b)
<1>1. /\ c \in Connection /\ Placed(c) /\ c.of # 0 /\ Req(c) \in Requests /\ Fits(Req(c))
      /\ c.substate \in {"key", "value", "auth_data"} /\ (c.item <=> c.substate # "key")
      /\ c.pos \in Nat /\ Req(c).value \in Int /\ Req(c).cmd \in Keyed
  <2>1. c \in Connection /\ Placed(c) /\ c.of \in 1..Len(sent) /\ Fits(Req(c)) /\ Req(c).cmd \in Keyed
    BY DEF Sound, Serves, Placed
  <2>2. c.substate \in {"key", "value", "auth_data"} /\ (c.item <=> c.substate # "key") /\ c.pos \in Nat
    BY <2>1 DEF Sound, Holds, Connection
  <2>3. Req(c) \in Requests
    BY <2>1 DEF Req
  <2> QED
    BY <2>1, <2>2, <2>3, RequestLengths
<1>2. CASE c.substate # "key"
  <2>1. At(c, 0) /\ c.item
    BY <1>1, <1>2 DEF At, Sound, Located
  <2> QED
    BY <1>1, <1>2, <2>1, CompleteUpdateBalanced, CompleteSaslBalanced DEF complete_nread_binary
<1>3. CASE c.substate = "key"
  <2>1. KeyRead(c)
    BY <1>1, <1>3 DEF KeyRead, Sound, Located
  <2>2. CASE Req(c).cmd \in {"get", "touch", "delete", "incr", "flush", "stat"}
    <3>1. ASSUME Trusted(c) PROVE Req(c).value = 0
      BY <1>1, <2>2, <3>1, ProperLengths DEF Fits, Proper
    <3>2. At(c, 0)
      BY <2>1, <3>1, WithoutValue
    <3> QED
      BY <1>3, <2>1, <2>2, <3>1, <3>2, GetBalanced, SimpleBalanced DEF complete_nread_binary
  <2>3. CASE Req(c).cmd \in {"set", "append"}
    BY <1>3, <2>1, <2>3, UpdateBalanced DEF complete_nread_binary
  <2>4. CASE Req(c).cmd \in {"sasl_auth", "sasl_step"}
    BY <1>3, <2>1, <2>4, SaslAuthBalanced DEF complete_nread_binary
  <2> QED
    BY <1>1, <2>2, <2>3, <2>4 DEF Keyed
<1> QED
  BY <1>2, <1>3

\* Closing asks nothing of where reading goes on.
LEMMA ClosingSound ==
  ASSUME NEW c \in Connection, Placed(c), NEW status \in Statuses
  PROVE  LET d == [write_bin_error(c, status, 0) EXCEPT !.write_and_go = "closing"]
             e == [c EXCEPT !.state = "closing"]
         IN  Sound(d) /\ Same(c, d) /\ Sound(e) /\ Same(c, e)
<1> DEFINE a == write_bin_error(c, status, 0)
           d == [a EXCEPT !.write_and_go = "closing"]
           e == [c EXCEPT !.state = "closing"]
<1>1. /\ a \in Connection /\ a.out \in Replies /\ a.state = "mwrite" /\ a.of = c.of /\ a.pos = c.pos
      /\ a.item = c.item
  BY AnswerFields DEF write_bin_error
<1> HIDE DEF a
<1>2. /\ d \in Connection /\ d.out \in Replies /\ d.state = "mwrite" /\ d.write_and_go = "closing"
      /\ d.of = c.of /\ d.pos = c.pos /\ d.item = c.item
  BY <1>1 DEF Connection
<1>3. e \in Connection /\ e.state = "closing" /\ e.of = c.of /\ e.pos = c.pos /\ e.item = c.item
  BY DEF Connection
<1> HIDE DEF d, e
<1>4. Placed(d) /\ Placed(e)
  BY <1>2, <1>3, SamePlace
<1>5. Sound(d) /\ Same(c, d) /\ Sound(e) /\ Same(c, e)
  BY <1>2, <1>3, <1>4 DEF Sound, Holds, Serves, Located, Same
<1> QED
  BY <1>5 DEF d, e, a

\* What a command finds when its header has been read.
HeaderRead(c) ==
  /\ sent \in Seq(Requests)
  /\ c \in Connection /\ Placed(c) /\ c.of # 0 /\ ~c.item
  /\ Req(c) \in Requests
  /\ Trusted(c) => c.pos + Req(c).key + Req(c).value = End(c.of)

LEMMA ReadKeyBalanced ==
  ASSUME NEW c, HeaderRead(c), Fits(Req(c)), Req(c).cmd \in Keyed, NEW b \in bin_read_key(c, "key")
  PROVE  Balanced(c, b)
<1> DEFINE k == Req(c).key
           d == [c EXCEPT !.substate = "key", !.rlbytes = k, !.state = "nread"]
           e == [c EXCEPT !.state = "closing"]
<1>1. c \in Connection /\ Placed(c) /\ k \in Int /\ Req(c).value \in Int /\ c.pos \in Nat
  BY RequestLengths DEF HeaderRead, Connection
<1>2. b = Becomes(d) \/ b = Becomes(e)
  BY DEF bin_read_key, Without
<1>3. Sound(e) /\ Same(c, e)
  <2>1. "ok" \in Statuses
    BY DEF Statuses
  <2> HIDE DEF d
  <2> QED
    BY <1>1, <2>1, ClosingSound
<1>4. k = Req(c).key
  OBVIOUS
<1> HIDE DEF k
<1>5. /\ d \in Connection /\ d.state = "nread" /\ d.substate = "key" /\ d.rlbytes = k
      /\ d.of = c.of /\ d.pos = c.pos /\ d.item = c.item
  BY <1>1 DEF Connection
<1> HIDE DEF d, e
<1>6. Req(d) = Req(c)
  BY <1>5 DEF Req
<1>7. Holds(d) /\ Serves(d)
  BY <1>1, <1>5, <1>6, SamePlace DEF Holds, Serves, HeaderRead
<1>8. ASSUME Trusted(d) PROVE Located(d)
  <2>1. Trusted(c)
    BY <1>5, <1>8, SameTrust
  <2> QED
    BY <1>1, <1>4, <1>5, <1>6, <2>1 DEF Located, HeaderRead
<1>9. Sound(d) /\ Same(c, d)
  BY <1>5, <1>7, <1>8 DEF Sound, Same
<1> QED
  BY <1>2, <1>3, <1>9, SameBalanced

LEMMA ListBalanced ==
  ASSUME NEW c, At(c, 0), Req(c) \in Requests, Req(c).value = 0, NEW b \in bin_list_sasl_mechs(c)
  PROVE  Balanced(c, b)
<1> DEFINE e == init_sasl_conn(c)
<1>1. At(e, 0) /\ Same(c, e)
  BY LoginAt DEF init_sasl_conn
<1>2. b \in {Becomes(write_bin_error(c, "unknown", 0)), Becomes(write_bin_response(e)), Becomes(write_bin_error(e, "auth_error", 0))}
  <2>1. Word \in Nat /\ Word > 0
    BY RequestsAssumption
  <2>2. vlen(c) = 0
    BY <2>1 DEF vlen, AsInt
  <2> QED
    BY <2>2 DEF bin_list_sasl_mechs
<1> HIDE DEF e
<1>3. {"unknown", "auth_error"} \subseteq Statuses
  BY DEF Statuses
<1>4. PICK d : b = Becomes(d) /\ Sound(d) /\ (Same(c, d) \/ Same(e, d))
  BY <1>1, <1>2, <1>3, ResponseSound, ErrorSound
<1>5. Same(c, d)
  BY <1>1, <1>4 DEF Same
<1> QED
  BY <1>4, <1>5, SameBalanced

LEMMA QuitSound ==
  ASSUME NEW c, At(c, 0)
  PROVE  Sound(quit(c)) /\ Same(c, quit(c))
<1>1. c \in Connection /\ Placed(c) /\ "ok" \in Statuses
  BY DEF At, Statuses
<1>2. CASE c.noreply
  BY <1>1, <1>2, ClosingSound DEF quit
<1>3. CASE ~c.noreply
  <2>1. quit(c) = [write_bin_error(c, "ok", 0) EXCEPT !.write_and_go = "closing"]
    BY <1>3 DEF quit, write_bin_response, write_bin_error
  <2> QED
    BY <1>1, <2>1, ClosingSound
<1> QED
  BY <1>2, <1>3

LEMMA DispatchBalanced ==
  ASSUME NEW c, HeaderRead(c), NEW b \in dispatch_bin_command(c)
  PROVE  Sound(b.conn) /\ b.taken = Held(b.conn)
<1> DEFINE r == Req(c)
           d == [c EXCEPT !.noreply = r.quiet]
<1>1. /\ r \in Requests /\ r.key \in {0, 1} /\ r.value \in Int /\ Placed(c) /\ c.of # 0
      /\ c \in Connection /\ c.pos \in Nat /\ r.quiet \in BOOLEAN /\ r.cmd \in Commands
  BY RequestLengths DEF HeaderRead, Connection, Request
<1>2. /\ d \in Connection /\ d.of = c.of /\ d.pos = c.pos /\ d.item = c.item
      /\ Placed(d) /\ (Trusted(d) => Trusted(c))
  <2>1. d \in Connection /\ d.of = c.of /\ d.pos = c.pos /\ d.item = c.item
    BY <1>1 DEF Connection
  <2> HIDE DEF d
  <2> QED
    BY <1>1, <2>1, SameTrust, SamePlace
<1>3. Req(d) = r
  BY <1>2 DEF Req
<1>4. {"auth_error", "EINVAL", "unknown"} \subseteq Statuses
  BY DEF Statuses
<1>5. Held(c) = 0 /\ Held(d) = 0
  BY <1>2 DEF Held, HeaderRead
<1>6. CASE b = Becomes([write_bin_error(c, "auth_error", 0) EXCEPT !.write_and_go = "closing"])
  <2>1. Balanced(c, b)
    BY <1>1, <1>4, <1>6, ClosingSound, SameBalanced
  <2> QED
    BY <1>5, <2>1 DEF Balanced, Held
<1> SUFFICES ASSUME b # Becomes([write_bin_error(c, "auth_error", 0) EXCEPT !.write_and_go = "closing"])
             PROVE  Balanced(d, b)
  BY <1>5, <1>6 DEF Balanced, Held
<1>7. CASE b = Becomes(handle_binary_protocol_error(d))
  BY <1>2, <1>4, <1>7, ClosingSound, SameBalanced DEF handle_binary_protocol_error
<1>8. CASE /\ Fits(r)
           /\ \/ r.cmd \in {"noop", "version"} /\ b = Becomes(write_bin_response(d))
              \/ r.cmd = "quit" /\ b = Becomes(quit(d))
              \/ r.cmd = "sasl_list" /\ b \in bin_list_sasl_mechs(d)
  <2>1. r.key = 0 /\ r.value = 0
    BY <1>8 DEF Fits
  <2>2. At(d, 0) /\ Req(d).value = 0 /\ Req(d) \in Requests
    BY <1>1, <1>2, <1>3, <2>1 DEF At, HeaderRead
  <2> HIDE DEF d
  <2> QED
    BY <1>8, <2>2, ResponseSound, QuitSound, ListBalanced, SameBalanced
<1>9. CASE b = Becomes(write_bin_error(d, "unknown", AsInt(r.key + r.value)))
  <2>1. AsInt(r.key + r.value) \in Int /\ c.pos + r.key + r.value = c.pos + (r.key + r.value)
    BY <1>1, RequestLengths
  <2>2. ASSUME Trusted(c)
        PROVE  AsInt(r.key + r.value) >= 0 /\ c.pos + AsInt(r.key + r.value) = End(c.of)
    <3>1. AsInt(r.key + r.value) = r.key + r.value /\ r.key + r.value \in Nat
      BY <1>1, <2>2, ProperLengths, RequestLengths
    <3> QED
      BY <2>1, <2>2, <3>1 DEF HeaderRead
  <2>3. At(d, AsInt(r.key + r.value))
    BY <1>1, <1>2, <2>1, <2>2 DEF At
  <2> QED
    BY <1>4, <1>9, <2>3, ErrorSound, SameBalanced
<1>10. CASE Fits(r) /\ r.cmd \in Keyed /\ b \in bin_read_key(d, "key")
  <2>1. HeaderRead(d)
    BY <1>1, <1>2, <1>3 DEF HeaderRead
  <2> QED
    BY <1>3, <1>10, <2>1, ReadKeyBalanced
<1>11. r.cmd \in Keyed \/ r.cmd \in {"noop", "version", "quit", "sasl_list", "unknown"}
  BY <1>1 DEF Commands, Keyed
<1> QED
  BY <1>7, <1>8, <1>9, <1>10, <1>11 DEF dispatch_bin_command

-----------------------------------------------------------------------------
(***************************************************************************)
(* Steps.                                                                  *)
(***************************************************************************)
LEMMA EndIsNat ==
  ASSUME TypeOK, Stream, NEW n \in 0..Len(sent)
  PROVE  End(n) \in Nat
BY DEF TypeOK, Stream, End

\* Reading on, a connection stays behind where its request begins.
LEMMA LaterPlace ==
  ASSUME TypeOK, Stream, NEW c, NEW d, Placed(c), c.pos \in Nat, NEW n \in Nat,
         d.of = c.of, d.pos = c.pos + n
  PROVE  Placed(d)
<1>1. c.of # 0 => c.of - 1 \in 0..Len(sent)
  BY DEF Placed, TypeOK
<1>2. c.of # 0 => End(c.of - 1) \in Nat
  BY <1>1, EndIsNat
<1> QED
  BY <1>2 DEF Placed

\* What the machine's steps have to show.
LEMMA Preserved ==
  ASSUME IInv, UNCHANGED <<sasl, mayFail, sent, ends>>, left' \in BOOLEAN, got' \in Seq(Replies),
         NEW d, conn' = d, Sound(d), refs' = Held(d)
  PROVE  IInv'
<1>1. d \in Connection /\ refs' \in Int
  BY DEF Sound, Held
<1>2. TypeOK'
  BY <1>1 DEF IInv, TypeOK
<1>3. Stream'
  <2>1. Increasing'
    BY DEF IInv, Stream, Increasing, End
  <2> QED
    BY <2>1 DEF IInv, Stream, End
<1>4. Sound(conn)'
  <2>1. Trusted(conn)' => Trusted(d)
    BY DEF Trusted, ProperUpTo, Proper
  <2> QED
    BY <2>1 DEF Sound, Holds, Serves, Placed, Located, Req, End
<1>5. (refs = Held(conn))'
  BY DEF Held
<1> QED
  BY <1>2, <1>3, <1>4, <1>5 DEF IInv

LEMMA InitInv == Init => IInv
<1> SUFFICES ASSUME Init PROVE IInv
  OBVIOUS
<1>1. TypeOK
  <2>1. conn \in Connection
    BY DEF Init, Calloced, Connection
  <2>2. sent \in Seq(Requests) /\ ends \in Seq(Nat) /\ got \in Seq(Replies)
    BY DEF Init
  <2>3. sasl \in BOOLEAN /\ mayFail \in BOOLEAN /\ left \in BOOLEAN
    BY Zenon DEF Init
  <2>4. refs = 0
    BY Zenon DEF Init
  <2> QED
    BY <2>1, <2>2, <2>3, <2>4 DEF TypeOK
<1>2. Stream
  BY DEF Init, Stream, Increasing
<1>3. Sound(conn)
  BY <1>1 DEF Init, Calloced, TypeOK, Sound, Holds, Serves, Placed, Located, End
<1>4. refs = Held(conn)
  BY DEF Init, Calloced, Held
<1> QED
  BY <1>1, <1>2, <1>3, <1>4 DEF IInv

\* A further request does not make up for one that was not proper.
LEMMA SendTrust ==
  ASSUME IInv, NEW r \in Requests, Send(r), Trusted(conn)'
  PROVE  Trusted(conn)
<1>1. sent' = Append(sent, r) /\ UNCHANGED <<sasl, mayFail, conn>> /\ sent \in Seq(Requests) /\ conn.of \in 0..Len(sent)
  BY DEF IInv, TypeOK, Send, Sound, Serves, Placed
<1>2. ASSUME NEW m \in 1..conn.of PROVE Proper(sent[m])
  <2>1. sent'[m] = sent[m]
    BY <1>1, <1>2
  <2>2. Proper(sent[m])'
    BY <1>1, <1>2 DEF Trusted, ProperUpTo
  <2> QED
    BY <1>1, <2>1, <2>2 DEF Proper
<1> QED
  BY <1>1, <1>2 DEF Trusted, ProperUpTo

LEMMA SendInv ==
  ASSUME IInv, NEW r \in Requests, Send(r)
  PROVE  IInv'
<1> DEFINE x == End(Len(sent)) + Size(r)
<1>1. /\ sent \in Seq(Requests) /\ ends \in Seq(Nat) /\ Len(ends) = Len(sent) /\ Len(sent) \in Nat
      /\ sent' = Append(sent, r) /\ ends' = Append(ends, x) /\ UNCHANGED <<sasl, mayFail, left, conn, got, refs>>
  BY DEF IInv, TypeOK, Stream, Send
<1>2. x \in Nat /\ End(Len(sent)) \in Nat /\ Size(r) \in Nat /\ Size(r) > 0
  <2>1. End(Len(sent)) \in Nat
    BY <1>1, EndIsNat DEF IInv
  <2>2. Size(r) \in Nat /\ Size(r) > 0
    BY RequestLengths DEF Size, Header
  <2> QED
    BY <2>1, <2>2
<1> HIDE DEF x
<1>3. /\ Len(sent') = Len(sent) + 1 /\ Len(ends') = Len(sent) + 1
      /\ \A n \in 1..Len(sent) : sent'[n] = sent[n] /\ ends'[n] = ends[n]
      /\ sent'[Len(sent) + 1] = r /\ ends'[Len(sent) + 1] = x
  BY <1>1, <1>2
<1>4. \A n \in 0..Len(sent) : End(n)' = End(n)
  BY <1>1, <1>3 DEF End
<1>5. TypeOK'
  BY <1>1, <1>2 DEF IInv, TypeOK
<1>6. Increasing'
  <2> DEFINE later(n) == IF n = 0 THEN 0 ELSE ends'[n]
             last == Len(sent)
  <2>1. \A n \in 0..last : later(n) = End(n) /\ End(n) \in Nat
    BY <1>1, <1>3, EndIsNat DEF End, IInv
  <2>2. later(last + 1) = End(last) + Size(r) /\ last \in Nat
    BY <1>1, <1>3 DEF x
  <2>3. SUFFICES ASSUME NEW m \in 0..(last + 1), NEW n \in 0..(last + 1), m < n
                 PROVE  later(m) < later(n)
    BY <1>3 DEF Increasing, End
  <2> HIDE DEF later
  <2>4. \A i, j \in 0..last : i < j => End(i) < End(j)
    BY DEF IInv, Stream, Increasing
  <2>5. End(last) \in Nat
    BY <1>2
  <2> HIDE DEF last
  <2>6. CASE n \in 0..last
    BY <2>1, <2>2, <2>3, <2>4, <2>6
  <2>7. CASE n = last + 1
    <3>1. m \in 0..last /\ last \in 0..last
      BY <2>2, <2>3, <2>7
    <3>2. m = last \/ m < last
      BY <2>2, <3>1
    <3>3. later(m) = End(m) /\ End(m) \in Nat
      BY <2>1, <3>1
    <3>4. End(m) <= End(last)
      BY <2>4, <2>5, <3>1, <3>2, <3>3
    <3>5. later(n) = End(last) + Size(r)
      BY <2>2, <2>7
    <3> QED
      BY <1>2, <2>5, <3>3, <3>4, <3>5
  <2> QED
    BY <2>2, <2>3, <2>6, <2>7
<1>7. Stream'
  <2>1. SUFFICES ASSUME NEW n \in 1..(Len(sent) + 1)
                 PROVE  ends'[n] = End(n - 1)' + Size(sent'[n])
    BY <1>3, <1>6 DEF Stream, Size, Header
  <2>2. End(n - 1)' = End(n - 1)
    BY <1>1, <1>4
  <2>3. CASE n = Len(sent) + 1
    <3>1. n - 1 = Len(sent)
      BY <1>1, <2>3
    <3> QED
      BY <1>3, <2>2, <2>3, <3>1 DEF x
  <2>4. CASE n \in 1..Len(sent)
    BY <1>3, <2>2, <2>4 DEF IInv, Stream
  <2> QED
    BY <1>1, <2>3, <2>4
<1>8. Sound(conn)'
  <2>1. Placed(conn) /\ conn.of \in 0..Len(sent) /\ Sound(conn) /\ conn \in Connection
    BY DEF IInv, Sound, Serves, Placed
  <2>2. conn.of # 0 => Req(conn)' = Req(conn)
    BY <1>1, <1>3, <2>1 DEF Req
  <2>3. End(conn.of)' = End(conn.of) /\ (conn.of # 0 => End(conn.of - 1)' = End(conn.of - 1))
    <3>1. conn'.of = conn.of /\ (conn.of # 0 => conn.of - 1 \in 0..Len(sent))
      BY <1>1, <2>1
    <3> QED
      BY <1>4, <2>1, <3>1
  <2>4. Holds(conn)'
    BY <1>1, <2>1 DEF Sound, Holds
  <2>5. Placed(conn)'
    BY <1>1, <1>3, <2>1, <2>3 DEF Placed
  <2>6. Serves(conn)'
    BY <1>1, <2>1, <2>2, <2>5 DEF Sound, Serves
  <2>7. ASSUME Trusted(conn)' PROVE Located(conn)'
    <3>1. Trusted(conn)
      BY <2>7, SendTrust
    <3> QED
      BY <1>1, <2>1, <2>2, <2>3, <3>1 DEF Sound, Serves, Located
  <2> QED
    BY <1>1, <2>1, <2>4, <2>6, <2>7 DEF Sound
<1>9. (refs = Held(conn))'
  BY <1>1 DEF IInv, Held
<1> QED
  BY <1>5, <1>7, <1>8, <1>9 DEF IInv

LEMMA LeaveInv ==
  ASSUME IInv, Leave
  PROVE  IInv'
<1> DEFINE d == conn
<1>1. Sound(d) /\ conn' = d /\ refs' = Held(d) /\ left' \in BOOLEAN /\ got' \in Seq(Replies)
      /\ UNCHANGED <<sasl, mayFail, sent, ends>>
  BY DEF IInv, TypeOK, Leave
<1> QED
  BY <1>1, Preserved

\* What a client leaves is of no account as long as nothing is to be swallowed.
LEMMA NewConnInv ==
  ASSUME IInv, conn_new
  PROVE  IInv'
<1> DEFINE d == [Calloced EXCEPT !.substate = conn.substate, !.sbytes = conn.sbytes]
<1>1. /\ sent' = <<>> /\ ends' = <<>> /\ left' = FALSE /\ got' = <<>> /\ conn' = d
      /\ UNCHANGED <<sasl, mayFail, refs>> /\ conn.state = "closed"
  BY DEF conn_new
<1>2. conn \in Connection /\ refs = 0
  BY <1>1 DEF IInv, TypeOK, Sound, Holds, Held
<1>3. d \in Connection /\ d.state = "new_cmd" /\ d.of = 0 /\ d.pos = 0 /\ ~d.item
  <2> DEFINE e == Calloced
             sub == conn.substate
             sb == conn.sbytes
  <2>1. e \in Connection /\ e.state = "new_cmd" /\ e.of = 0 /\ e.pos = 0 /\ ~e.item
    BY DEF Calloced, Connection
  <2>2. sub \in {"none", "key", "value", "auth_data"} /\ sb \in Nat
    BY <1>2 DEF Connection
  <2> HIDE DEF e, sub, sb
  <2>3. LET c == [e EXCEPT !.substate = sub, !.sbytes = sb]
        IN  c \in Connection /\ c.state = "new_cmd" /\ c.of = 0 /\ c.pos = 0 /\ ~c.item
    BY <2>1, <2>2 DEF Connection
  <2> QED
    BY <2>3 DEF e, sub, sb
<1> HIDE DEF d
<1>4. TypeOK'
  <2>1. sent' \in Seq(Requests) /\ ends' \in Seq(Nat) /\ got' \in Seq(Replies)
    BY <1>1
  <2>2. sasl' \in BOOLEAN /\ mayFail' \in BOOLEAN /\ left' \in BOOLEAN
    BY <1>1, Zenon DEF IInv, TypeOK
  <2> QED
    BY <1>1, <1>2, <1>3, <2>1, <2>2 DEF TypeOK
<1>5. Len(sent') = 0
  BY <1>1
<1>6. Stream'
  BY <1>1, <1>5 DEF Stream, Increasing
<1>7. Sound(conn)'
  BY <1>1, <1>3, <1>5 DEF Sound, Holds, Serves, Placed, Located, End
<1>8. (refs = Held(conn))'
  BY <1>1, <1>2, <1>3 DEF Held
<1> QED
  BY <1>4, <1>6, <1>7, <1>8 DEF IInv

LEMMA NetworkInv ==
  ASSUME IInv, try_read_network
  PROVE  IInv'
<1>1. /\ UNCHANGED <<sasl, mayFail, sent, ends>> /\ left' \in BOOLEAN /\ got' \in Seq(Replies) /\ refs' = refs
      /\ conn.state = "read" /\ Sound(conn) /\ conn \in Connection /\ refs = Held(conn)
  BY DEF IInv, TypeOK, try_read_network, Machine
<1>2. ~conn.item /\ refs = 0
  BY <1>1 DEF Sound, Holds, Held
<1>3. Unread \in Int
  <2>1. End(Len(sent)) \in Nat
    BY EndIsNat DEF IInv, TypeOK
  <2> QED
    BY <1>1, <2>1 DEF Unread, Connection
<1>4. ASSUME NEW n \in 1..Unread, conn' = [conn EXCEPT !.rbytes = @ + n, !.state = "parse_cmd"]
      PROVE  IInv'
  <2> DEFINE m == conn.rbytes + n
             d == [conn EXCEPT !.rbytes = m, !.state = "parse_cmd"]
  <2>1. m \in Nat
    BY <1>1, <1>3 DEF Connection
  <2>2. conn' = d
    BY <1>1, <1>4 DEF Connection
  <2> HIDE DEF m
  <2>3. /\ d \in Connection /\ d.state = "parse_cmd" /\ d.item = conn.item /\ d.of = conn.of
        /\ d.pos = conn.pos
    BY <1>1, <2>1 DEF Connection
  <2> HIDE DEF d
  <2>4. Sound(d) /\ Held(d) = 0
    BY <1>1, <1>2, <2>3, SameTrust, SamePlace DEF Sound, Holds, Serves, Located, Held
  <2> QED
    BY <1>1, <1>2, <2>2, <2>4, Preserved
<1>5. ASSUME mayFail, conn' = [out_of_memory(conn) EXCEPT !.pos = @ + conn.rbytes, !.rbytes = 0, !.write_and_go = "closing"]
      PROVE  IInv'
  <2> DEFINE e == out_of_memory(conn)
             m == e.pos + conn.rbytes
             d == [e EXCEPT !.pos = m, !.rbytes = 0, !.write_and_go = "closing"]
  <2>1. /\ e \in Connection /\ e.out \in Replies /\ e.state = "mwrite" /\ e.of = conn.of /\ e.item = conn.item
        /\ e.pos = conn.pos
    <3>1. "ENOMEM" \in Statuses
      BY DEF Statuses
    <3> QED
      BY <1>1, <3>1, AnswerFields DEF out_of_memory, write_bin_error
  <2>2. conn' = d
    BY <1>5, <2>1 DEF Connection
  <2> HIDE DEF e
  <2>3. m \in Nat /\ m = conn.pos + conn.rbytes /\ conn.pos \in Nat /\ conn.rbytes \in Nat
    BY <1>1, <2>1 DEF Connection
  <2> HIDE DEF m
  <2>4. /\ d \in Connection /\ d.state = "mwrite" /\ d.write_and_go = "closing" /\ d.item = conn.item
        /\ d.of = conn.of /\ d.out \in Replies /\ d.pos = m
    BY <1>1, <2>1, <2>3 DEF Connection
  <2> HIDE DEF d
  <2>5. Placed(d)
    BY <1>1, <2>3, <2>4, LaterPlace DEF IInv, Sound, Serves
  <2>6. Sound(d) /\ Held(d) = 0
    BY <1>2, <1>5, <2>4, <2>5 DEF Sound, Holds, Serves, Trusted, Held
  <2> QED
    BY <1>1, <1>2, <2>2, <2>6, Preserved
<1>6. ASSUME conn' = [conn EXCEPT !.state = "closing"]
      PROVE  IInv'
  <2>1. Sound([conn EXCEPT !.state = "closing"]) /\ Same(conn, [conn EXCEPT !.state = "closing"])
    <3>1. "ok" \in Statuses /\ Placed(conn)
      BY <1>1 DEF Statuses, Sound, Serves
    <3> QED
      BY <1>1, <3>1, ClosingSound
  <2>2. Held([conn EXCEPT !.state = "closing"]) = 0
    BY <1>2, <2>1 DEF Same, Held
  <2> QED
    BY <1>1, <1>2, <1>6, <2>1, <2>2, Preserved
<1> QED
  BY <1>4, <1>5, <1>6 DEF try_read_network

LEMMA CommandInv ==
  ASSUME IInv, try_read_command
  PROVE  IInv'
<1>1. /\ UNCHANGED <<sasl, mayFail, sent, ends>> /\ left' \in BOOLEAN /\ got' \in Seq(Replies)
      /\ conn.state = "parse_cmd" /\ Sound(conn) /\ conn \in Connection /\ refs = Held(conn)
  BY DEF IInv, TypeOK, try_read_command, Machine
<1>2. ~conn.item /\ refs = 0
  BY <1>1 DEF Sound, Holds, Held
<1>3. ASSUME NEW st \in {"read", "closing"}, conn' = [conn EXCEPT !.state = st], refs' = refs
      PROVE  IInv'
  <2> DEFINE d == [conn EXCEPT !.state = st]
  <2>1. /\ d \in Connection /\ d.state = st /\ d.item = conn.item /\ d.of = conn.of
        /\ d.pos = conn.pos
    BY <1>1 DEF Connection
  <2>2. conn' = d
    BY <1>3
  <2> HIDE DEF d
  <2>3. Sound(d) /\ Held(d) = 0
    BY <1>1, <1>2, <2>1, SameTrust, SamePlace DEF Sound, Holds, Serves, Located, Held
  <2> QED
    BY <1>1, <1>2, <1>3, <2>2, <2>3, Preserved
<1>4. ASSUME conn.rbytes >= Header, NEW n \in Beginning,
             NEW b \in dispatch_bin_command([conn EXCEPT !.of = n, !.pos = @ + Header, !.rbytes = @ - Header]),
             conn' = b.conn, refs' = refs + b.taken
      PROVE  IInv'
  <2> DEFINE pos == conn.pos + Header
             rbytes == conn.rbytes - Header
             c == [conn EXCEPT !.of = n, !.pos = pos, !.rbytes = rbytes]
  <2>1. pos \in Nat /\ rbytes \in Nat /\ pos = conn.pos + 2
    BY <1>1, <1>4 DEF Header, Connection
  <2>2. b \in dispatch_bin_command(c)
    BY <1>1, <1>4 DEF Connection
  <2>3. /\ sent \in Seq(Requests) /\ Len(sent) \in Nat /\ n \in 1..Len(sent) /\ n \in Nat /\ End(n - 1) = conn.pos
        /\ Len(ends) = Len(sent) /\ conn.pos \in Nat /\ sent[n] \in Requests
    BY <1>1 DEF IInv, TypeOK, Stream, Beginning, Connection
  <2> HIDE DEF pos, rbytes
  <2>4. c \in Connection /\ c.of = n /\ c.pos = pos /\ c.item = conn.item
    BY <1>1, <2>1, <2>3 DEF Connection
  <2> HIDE DEF c
  <2>5. Req(c) = sent[n]
    BY <2>4 DEF Req
  <2>6. End(n) = conn.pos + Size(sent[n])
    BY <2>3 DEF IInv, Stream, End
  <2>7. sent[n].key \in Int /\ sent[n].value \in Int
    BY <2>3, RequestLengths
  <2>8. pos + sent[n].key + sent[n].value = End(n)
    <3> DEFINE k == sent[n].key
               v == sent[n].value
    <3>1. End(n) = conn.pos + (2 + k + v)
      BY <2>6 DEF Size, Header
    <3>2. k \in Int /\ v \in Int
      BY <2>7
    <3> HIDE DEF k, v
    <3>3. \A i, j, e, x, y \in Int : j = i + 2 /\ e = i + (2 + x + y) => j + x + y = e
      OBVIOUS
    <3>4. End(n) \in Int /\ pos \in Int /\ conn.pos \in Int
      <4>1. n \in 0..Len(sent)
        BY <2>3
      <4> QED
        BY <2>1, <2>3, <4>1, EndIsNat DEF IInv
    <3>5. pos + k + v = End(n)
      BY <2>1, <3>1, <3>2, <3>3, <3>4
    <3> QED
      BY <3>5 DEF k, v
  <2>9. HeaderRead(c)
    BY <1>2, <2>1, <2>3, <2>4, <2>5, <2>8 DEF HeaderRead, Placed
  <2>10. Sound(b.conn) /\ b.taken = Held(b.conn)
    BY <2>2, <2>9, DispatchBalanced
  <2>11. refs' = Held(b.conn)
    BY <1>2, <1>4, <2>10 DEF Held
  <2> QED
    BY <1>1, <1>4, <2>10, <2>11, Preserved
<1> QED
  BY <1>3, <1>4 DEF try_read_command

\* The connection lets go of its item, if it holds one.
LEMMA LetGoInv ==
  ASSUME IInv, UNCHANGED <<sasl, mayFail, sent, ends>>, left' \in BOOLEAN, got' \in Seq(Replies),
         NEW d, conn' = d, Sound(d), ~d.item, refs' = refs - Held(conn)
  PROVE  IInv'
<1>1. refs' = Held(d)
  BY DEF IInv, Held
<1> QED
  BY <1>1, Preserved

LEMMA ResetInv ==
  ASSUME IInv, reset_cmd_handler
  PROVE  IInv'
<1> DEFINE st == IF conn.rbytes = 0 THEN "read" ELSE "parse_cmd"
           d == [conn EXCEPT !.item = FALSE, !.substate = "none", !.state = st]
<1>1. /\ UNCHANGED <<sasl, mayFail, sent, ends>> /\ left' \in BOOLEAN /\ got' \in Seq(Replies)
      /\ conn.state = "new_cmd" /\ Sound(conn) /\ conn \in Connection
      /\ conn' = d /\ refs' = refs - Held(conn)
  BY DEF IInv, TypeOK, reset_cmd_handler, Machine
<1>2. st \in {"read", "parse_cmd"}
  OBVIOUS
<1> HIDE DEF st
<1>3. /\ d \in Connection /\ d.state = st /\ ~d.item /\ d.of = conn.of
      /\ d.pos = conn.pos
  BY <1>1, <1>2 DEF Connection
<1> HIDE DEF d
<1>4. Sound(d)
  BY <1>1, <1>2, <1>3, SameTrust, SamePlace DEF Sound, Holds, Serves, Located
<1> QED
  BY <1>1, <1>3, <1>4, LetGoInv

LEMMA CloseInv ==
  ASSUME IInv, conn_close
  PROVE  IInv'
<1> DEFINE d == [conn EXCEPT !.item = FALSE, !.state = "closed"]
<1>1. /\ UNCHANGED <<sasl, mayFail, sent, ends>> /\ left' \in BOOLEAN /\ got' \in Seq(Replies)
      /\ Sound(conn) /\ conn \in Connection /\ conn' = d /\ refs' = refs - Held(conn)
  BY DEF IInv, TypeOK, conn_close, Machine
<1>2. /\ d \in Connection /\ d.state = "closed" /\ ~d.item /\ d.of = conn.of /\ d.pos = conn.pos
  BY <1>1 DEF Connection
<1> HIDE DEF d
<1>3. Sound(d)
  BY <1>1, <1>2, SamePlace DEF Sound, Holds, Serves, Located
<1> QED
  BY <1>1, <1>2, <1>3, LetGoInv

LEMMA WriteInv ==
  ASSUME IInv, conn_mwrite
  PROVE  IInv'
<1>1. /\ UNCHANGED <<sasl, mayFail, sent, ends>> /\ left' \in BOOLEAN /\ got \in Seq(Replies)
      /\ conn.state = "mwrite" /\ Sound(conn) /\ conn \in Connection /\ refs = Held(conn)
      /\ conn.out \in Replies
  BY DEF IInv, TypeOK, conn_mwrite, Machine, Sound, Holds
<1>2. ASSUME conn' = [conn EXCEPT !.out = None, !.item = FALSE, !.state = conn.write_and_go],
             got' = Append(got, conn.out), refs' = refs - Held(conn)
      PROVE  IInv'
  <2> DEFINE d == [conn EXCEPT !.out = None, !.item = FALSE, !.state = conn.write_and_go]
  <2>1. conn.write_and_go \in {"new_cmd", "swallow", "closing"}
    BY <1>1 DEF Connection
  <2>2. /\ d \in Connection /\ d.state = conn.write_and_go /\ ~d.item /\ d.of = conn.of
        /\ d.pos = conn.pos /\ d.sbytes = conn.sbytes
    BY <1>1, <2>1 DEF Connection
  <2>3. conn' = d /\ got' \in Seq(Replies)
    BY <1>1, <1>2
  <2> HIDE DEF d
  <2>4. Sound(d)
    BY <1>1, <2>1, <2>2, SameTrust, SamePlace DEF Sound, Holds, Serves, Located
  <2> QED
    BY <1>1, <1>2, <2>2, <2>3, <2>4, LetGoInv
<1>3. ASSUME conn' = [conn EXCEPT !.out = None, !.state = "closing"], got' = got, refs' = refs
      PROVE  IInv'
  <2> DEFINE d == [conn EXCEPT !.out = None, !.state = "closing"]
  <2>1. d \in Connection /\ d.state = "closing" /\ d.item = conn.item /\ d.of = conn.of /\ d.pos = conn.pos
    BY <1>1 DEF Connection
  <2>2. conn' = d
    BY <1>3
  <2> HIDE DEF d
  <2>3. Sound(d) /\ refs' = Held(d)
    BY <1>1, <1>3, <2>1, SamePlace DEF Sound, Holds, Serves, Located, Held
  <2> QED
    BY <1>1, <1>3, <2>2, <2>3, Preserved
<1> QED
  BY <1>2, <1>3 DEF conn_mwrite

LEMMA TakesBounds ==
  ASSUME conn.rbytes \in Nat, NEW wanted \in Nat, wanted > 0, NEW n \in Takes(wanted)
  PROVE  n \in 1..wanted
BY DEF Takes

LEMMA TakeFields ==
  ASSUME NEW c \in Connection, NEW n \in Nat
  PROVE  /\ Take(c, n) \in Connection /\ Take(c, n).pos = c.pos + n
         /\ Take(c, n).state = c.state /\ Take(c, n).substate = c.substate /\ Take(c, n).of = c.of
         /\ Take(c, n).item = c.item /\ Take(c, n).rlbytes = c.rlbytes /\ Take(c, n).sbytes = c.sbytes
<1> DEFINE pos == c.pos + n
           rbytes == IF n < c.rbytes THEN c.rbytes - n ELSE 0
           d == [c EXCEPT !.pos = pos, !.rbytes = rbytes]
<1>1. Take(c, n) = d
  BY DEF Take, Connection
<1>2. pos \in Nat /\ rbytes \in Nat
  BY DEF Connection
<1>3. pos = c.pos + n
  OBVIOUS
<1> HIDE DEF pos, rbytes
<1>4. /\ d \in Connection /\ d.pos = pos /\ d.state = c.state /\ d.substate = c.substate /\ d.of = c.of
      /\ d.item = c.item /\ d.rlbytes = c.rlbytes /\ d.sbytes = c.sbytes
  BY <1>2 DEF Connection
<1> QED
  BY <1>1, <1>3, <1>4

\* The client is gone while something is read or swallowed.
LEMMA EndsInv ==
  ASSUME IInv, UNCHANGED <<sasl, mayFail, sent, ends>>, left' \in BOOLEAN, got' \in Seq(Replies),
         Ends, refs' = refs
  PROVE  IInv'
<1> DEFINE d == [conn EXCEPT !.state = "closing"]
<1>1. "ok" \in Statuses /\ conn \in Connection /\ Placed(conn)
  BY DEF IInv, Sound, Serves, Statuses
<1>2. Sound(d) /\ Same(conn, d)
  BY <1>1, ClosingSound
<1>3. conn' = d
  BY DEF Ends
<1> HIDE DEF d
<1>4. refs' = Held(d)
  BY <1>2 DEF IInv, Same, Held
<1> QED
  BY <1>2, <1>3, <1>4, Preserved

LEMMA ReadInv ==
  ASSUME IInv, conn_nread
  PROVE  IInv'
<1>1. /\ UNCHANGED <<sasl, mayFail, sent, ends>> /\ left' \in BOOLEAN /\ got' \in Seq(Replies)
      /\ conn.state = "nread" /\ Sound(conn) /\ conn \in Connection /\ refs = Held(conn)
      /\ conn.rlbytes \in Int /\ conn.rbytes \in Nat /\ conn.pos \in Nat /\ sent \in Seq(Requests)
      /\ TypeOK /\ Stream /\ Placed(conn)
  BY DEF IInv, TypeOK, conn_nread, Machine, Connection, Sound, Serves
<1>2. ASSUME conn.rlbytes = 0, NEW b \in complete_nread_binary(conn), conn' = b.conn, refs' = refs + b.taken
      PROVE  IInv'
  <2>1. Sound(b.conn) /\ b.taken = Held(b.conn) - Held(conn)
    BY <1>1, <1>2, CompleteBalanced DEF Balanced
  <2>2. refs' = Held(b.conn)
    BY <1>1, <1>2, <2>1 DEF Held
  <2> QED
    BY <1>1, <1>2, <2>1, <2>2, Preserved
<1>3. ASSUME Ends, refs' = refs
      PROVE  IInv'
  BY <1>1, <1>3, EndsInv
<1>4. ASSUME conn.rlbytes > 0, NEW n \in Takes(conn.rlbytes), refs' = refs,
             conn' = Take([conn EXCEPT !.rlbytes = @ - n], n)
      PROVE  IInv'
  <2> DEFINE rest == conn.rlbytes - n
             c == [conn EXCEPT !.rlbytes = rest]
             d == Take(c, n)
  <2>1. n \in 1..conn.rlbytes /\ n \in Nat
    <3>1. conn.rlbytes \in Nat
      BY <1>1, <1>4
    <3> QED
      BY <1>1, <1>4, <3>1, TakesBounds
  <2>2. conn' = d
    BY <1>1, <1>4 DEF Connection
  <2>3. rest \in Int /\ rest + n = conn.rlbytes
    BY <1>1, <2>1
  <2> HIDE DEF rest
  <2>4. /\ c \in Connection /\ c.pos = conn.pos /\ c.state = "nread" /\ c.substate = conn.substate
        /\ c.of = conn.of /\ c.item = conn.item /\ c.rlbytes = rest
    BY <1>1, <2>3 DEF Connection
  <2> HIDE DEF c
  <2>5. /\ d \in Connection /\ d.pos = conn.pos + n /\ d.state = "nread" /\ d.substate = conn.substate
        /\ d.of = conn.of /\ d.item = conn.item /\ d.rlbytes = rest
    BY <2>1, <2>4, TakeFields
  <2> HIDE DEF d
  <2>6. Req(d) = Req(conn) /\ Placed(d)
    BY <1>1, <2>1, <2>5, LaterPlace DEF Req
  <2>7. Holds(d) /\ Serves(d)
    BY <1>1, <2>5, <2>6 DEF Sound, Holds, Serves
  <2>8. ASSUME Trusted(d) PROVE Located(d)
    <3>1. (conn.pos + n) + rest = conn.pos + conn.rlbytes
      BY <1>1, <2>1, <2>3
    <3>2. Trusted(conn)
      BY <2>5, <2>8, SameTrust
    <3> QED
      BY <1>1, <2>5, <2>6, <3>1, <3>2 DEF Sound, Located
  <2>9. Held(d) = Held(conn)
    BY <2>5 DEF Held
  <2> QED
    BY <1>1, <1>4, <2>2, <2>5, <2>7, <2>8, <2>9, Preserved DEF Sound
<1>5. ASSUME conn' = [conn EXCEPT !.state = "closing"], refs' = refs
      PROVE  IInv'
  <2> DEFINE d == [conn EXCEPT !.state = "closing"]
  <2>1. d \in Connection /\ d.state = "closing" /\ d.item = conn.item /\ d.of = conn.of /\ d.pos = conn.pos
    BY <1>1 DEF Connection
  <2>2. conn' = d
    BY <1>5
  <2> HIDE DEF d
  <2>3. Sound(d) /\ refs' = Held(d)
    BY <1>1, <1>5, <2>1, SamePlace DEF Sound, Holds, Serves, Located, Held
  <2> QED
    BY <1>1, <2>2, <2>3, Preserved
<1> QED
  BY <1>2, <1>3, <1>4, <1>5 DEF conn_nread

LEMMA SwallowInv ==
  ASSUME IInv, conn_swallow
  PROVE  IInv'
<1>1. /\ UNCHANGED <<sasl, mayFail, sent, ends>> /\ left' \in BOOLEAN /\ got' \in Seq(Replies) /\ refs' = refs
      /\ conn.state = "swallow" /\ Sound(conn) /\ conn \in Connection /\ refs = Held(conn)
      /\ conn.sbytes \in Nat /\ conn.rbytes \in Nat /\ conn.pos \in Nat
      /\ TypeOK /\ Stream /\ Placed(conn)
  BY DEF IInv, TypeOK, conn_swallow, Machine, Connection, Sound, Serves
<1>2. ASSUME conn.sbytes = 0, conn' = [conn EXCEPT !.state = "new_cmd"]
      PROVE  IInv'
  <2> DEFINE d == [conn EXCEPT !.state = "new_cmd"]
  <2>1. /\ d \in Connection /\ d.state = "new_cmd" /\ d.item = conn.item /\ d.of = conn.of
        /\ d.pos = conn.pos /\ d.sbytes = 0
    BY <1>1, <1>2 DEF Connection
  <2>2. conn' = d
    BY <1>2
  <2> HIDE DEF d
  <2>3. Sound(d) /\ Held(d) = Held(conn)
    BY <1>1, <1>2, <2>1, SameTrust, SamePlace DEF Sound, Holds, Serves, Located, Held
  <2> QED
    BY <1>1, <2>2, <2>3, Preserved
<1>3. ASSUME Ends
      PROVE  IInv'
  BY <1>1, <1>3, EndsInv
<1>4. ASSUME conn.sbytes > 0, NEW n \in Takes(conn.sbytes),
             conn' = Take([conn EXCEPT !.sbytes = @ - n], n)
      PROVE  IInv'
  <2> DEFINE rest == conn.sbytes - n
             c == [conn EXCEPT !.sbytes = rest]
             d == Take(c, n)
  <2>1. n \in 1..conn.sbytes /\ n \in Nat
    BY <1>1, <1>4, TakesBounds
  <2>2. conn' = d
    BY <1>1, <1>4 DEF Connection
  <2>3. rest \in Nat /\ (conn.pos + n) + rest = conn.pos + conn.sbytes
    BY <1>1, <2>1
  <2> HIDE DEF rest
  <2>4. /\ c \in Connection /\ c.pos = conn.pos /\ c.state = "swallow"
        /\ c.of = conn.of /\ c.item = conn.item /\ c.sbytes = rest
    BY <1>1, <2>3 DEF Connection
  <2> HIDE DEF c
  <2>5. /\ d \in Connection /\ d.pos = conn.pos + n /\ d.state = "swallow"
        /\ d.of = conn.of /\ d.item = conn.item /\ d.sbytes = rest
    BY <2>1, <2>4, TakeFields
  <2> HIDE DEF d
  <2>6. Placed(d) /\ (Trusted(d) => Trusted(conn))
    BY <1>1, <2>1, <2>5, LaterPlace, SameTrust
  <2>7. Sound(d) /\ Held(d) = Held(conn)
    BY <1>1, <2>3, <2>5, <2>6 DEF Sound, Holds, Serves, Located, Held
  <2> QED
    BY <1>1, <2>2, <2>7, Preserved
<1> QED
  BY <1>2, <1>3, <1>4 DEF conn_swallow

LEMMA NextInv == IInv /\ [Next]_vars => IInv'
<1> SUFFICES ASSUME IInv, [Next]_vars PROVE IInv'
  OBVIOUS
<1>1. CASE UNCHANGED vars
  <2> DEFINE d == conn
  <2>1. Sound(d) /\ conn' = d /\ refs' = Held(d) /\ left' \in BOOLEAN /\ got' \in Seq(Replies)
        /\ UNCHANGED <<sasl, mayFail, sent, ends>>
    BY <1>1 DEF IInv, TypeOK, vars
  <2> QED
    BY <2>1, Preserved
<1>2. CASE \E r \in Requests : Send(r)
  BY <1>2, SendInv
<1>3. CASE Leave
  BY <1>3, LeaveInv
<1>4. CASE conn_new
  BY <1>4, NewConnInv
<1>5. CASE drive_machine
  BY <1>5, NetworkInv, CommandInv, ResetInv, ReadInv, SwallowInv, WriteInv, CloseInv DEF drive_machine
<1> QED
  BY <1>1, <1>2, <1>3, <1>4, <1>5 DEF Next

LEMMA Invariance == Spec => []IInv
BY InitInv, NextInv, PTL DEF Spec

-----------------------------------------------------------------------------
(***************************************************************************)
(* Theorems.                                                               *)
(***************************************************************************)
\* The state of a connection (its fields in memcached.h) has its type.
THEOREM TypeCorrect == Spec => []TypeOK
<1>1. IInv => TypeOK
  BY DEF IInv
<1> QED
  BY <1>1, Invariance, PTL

\* However commands end, also without memory, the references they took to items
\* (item_get, item_alloc) are held by the connection or given back (item_remove), once.
THEOREM ItemHeldHolds == Spec => []ItemHeld
<1>1. IInv => ItemHeld
  BY DEF IInv, ItemHeld
<1> QED
  BY <1>1, Invariance, PTL

\* Unless the process runs out of memory, drive_machine is at the end of a request whenever it
\* looks for the next, however the stream was cut and whichever requests were refused, as long
\* as the client keeps to Proper: also on a connection that conn_new has taken over, with bytes
\* to be swallowed, from a client that did not.
THEOREM InStepHolds == Spec => []InStep
<1>1. IInv => InStep
  <2> SUFFICES ASSUME IInv, ~mayFail, ProperUpTo(conn.of), BetweenCommands
               PROVE  conn.pos = End(conn.of) /\ conn.of <= Len(sent)
    BY DEF InStep
  <2>1. Sound(conn) /\ conn.of \in 0..Len(sent) /\ Len(sent) \in Nat
    BY DEF IInv, TypeOK, Sound, Serves, Placed
  <2> QED
    BY <2>1 DEF Sound, Located, BetweenCommands, Trusted
<1> QED
  BY <1>1, Invariance, PTL
-----------------------------------------------------------------------------
(***************************************************************************)
(* What the answers tell: no command that needs a login is run without one *)
(* (AuthenticatedOnly), and a client can tell by the answers which of its  *)
(* requests are done, and how (AnswersInTurn).                             *)
(***************************************************************************)

-----------------------------------------------------------------------------
(***************************************************************************)
(* The login: the inductive invariant.                                     *)
(***************************************************************************)
\* An answer is to a request, unless it tells that there was no memory to read one.
Known(a) == a.of \in 1..Len(sent) \/ a.status = "ENOMEM"

\* The answer being sent counts: the exchange has been decided.
Answers == IF conn.state = "mwrite" THEN Append(got, conn.out) ELSE got

\* What has a key, or a value, to be read.
Reads(c) ==
  c.state = "nread" =>
    /\ c.substate = "key" => Req(c).cmd \in Keyed
    /\ c.substate = "value" => Req(c).cmd \in {"set", "append"}
    /\ c.substate = "auth_data" => Req(c).cmd \in {"sasl_auth", "sasl_step"}
    /\ c.noreply => Req(c).quiet

Over(c) == c.state \in {"closing", "closed"}

LInv ==
  /\ \A i \in DOMAIN got : Known(got[i])
  /\ conn.state = "mwrite" => Known(conn.out) /\ conn.out.of = conn.of
  /\ Reads(conn)
  /\ sasl /\ conn.authenticated /\ ~Over(conn) => LoggedIn(Answers)
  /\ AuthenticatedOnly

-----------------------------------------------------------------------------
(***************************************************************************)
(* What a command says.                                                    *)
(***************************************************************************)
Says(c, d, status) ==
  /\ d \in Connection
  /\ d.state = "mwrite" /\ d.out = [of |-> c.of, status |-> status]
  /\ d.of = c.of /\ d.authenticated = c.authenticated

LEMMA AnswerSays ==
  ASSUME NEW c \in Connection, NEW status \in Statuses
  PROVE  Says(c, Answer(c, status), status)
BY DEF Connection, Answer, Reply, Replies, Says

\* A connection that says something says it also when it is to go on in another way.
LEMMA GoesOn ==
  ASSUME NEW c, NEW d, NEW status, Says(c, d, status),
         NEW go \in {"new_cmd", "swallow", "closing"}
  PROVE  Says(c, [d EXCEPT !.write_and_go = go], status)
         /\ [d EXCEPT !.write_and_go = go].write_and_go = go
BY DEF Connection, Says

LEMMA ErrorSays ==
  ASSUME NEW c \in Connection, NEW status \in Statuses, NEW swallow \in Int
  PROVE  Says(c, write_bin_error(c, status, swallow), status)
<1> DEFINE e == Answer(c, status)
           d == [e EXCEPT !.sbytes = swallow]
<1>1. Says(c, e, status)
  BY AnswerSays
<1> HIDE DEF e
<1>2. CASE swallow <= 0
  BY <1>1, <1>2 DEF e, write_bin_error
<1>3. CASE swallow > 0
  <2>1. swallow \in Nat
    BY <1>3
  <2>2. Says(c, d, status)
    BY <1>1, <2>1 DEF Connection, Says
  <2> HIDE DEF d
  <2>3. Says(c, [d EXCEPT !.write_and_go = "swallow"], status)
    BY <2>2, GoesOn
  <2>4. [d EXCEPT !.write_and_go = "swallow"] = [e EXCEPT !.sbytes = swallow, !.write_and_go = "swallow"]
    BY <1>1 DEF d, Connection, Says
  <2> QED
    BY <1>3, <2>3, <2>4 DEF e, write_bin_error
<1> QED
  BY <1>2, <1>3

LEMMA SwallowSays ==
  ASSUME NEW c \in Connection, NEW status \in Statuses, NEW swallow \in Int
  PROVE  Says(c, SwallowAfter(c, status, swallow), status)
<1>1. Says(c, write_bin_error(c, status, swallow), status) /\ "swallow" \in {"new_cmd", "swallow", "closing"}
  BY ErrorSays
<1> QED
  BY <1>1, GoesOn DEF SwallowAfter

LEMMA NoMemorySays ==
  ASSUME NEW c \in Connection
  PROVE  Says(c, out_of_memory(c), "ENOMEM")
BY ErrorSays DEF out_of_memory, Statuses

(***************************************************************************)
(* What becomes of the login.                                              *)
(***************************************************************************)
\* From c to d a login is gained by the answer that says so, and kept only by an answer that
\* is not of an exchange.
Logged(c, d) ==
  /\ d.of = c.of
  /\ d.state = "mwrite" =>
       /\ d.out.of = d.of
       /\ d.of = 0 => d.out.status = "ENOMEM"
       /\ Exchange(d.out) /\ d.authenticated => LogsIn(d.out)
  /\ d.authenticated => c.authenticated \/ (d.state = "mwrite" /\ LogsIn(d.out))
  /\ Reads(d)

LEMMA SaysLogged ==
  ASSUME NEW c, NEW d, NEW status, Says(c, d, status), c.of # 0 \/ status = "ENOMEM",
         status \notin {"ok", "continue", "auth_error"} \/ Req(c).cmd \notin Sasl \/ ~c.authenticated
  PROVE  Logged(c, d)
BY DEF Says, Logged, Exchange, Req, Reads

LEMMA NewCommandLogged ==
  ASSUME NEW c \in Connection, NEW st \in {"new_cmd", "closing"}
  PROVE  Logged(c, [c EXCEPT !.state = st])
BY DEF Connection, Logged, Reads

LEMMA ResponseLogged ==
  ASSUME NEW c \in Connection, c.of # 0, Req(c).cmd \notin Sasl \/ ~c.authenticated
  PROVE  Logged(c, write_bin_response(c))
<1>1. "ok" \in Statuses
  BY DEF Statuses
<1> QED
  BY <1>1, AnswerSays, SaysLogged, NewCommandLogged DEF write_bin_response

\* One that has been changed in what is of no matter here.
LEMMA LoggedFrom ==
  ASSUME NEW c, NEW e, NEW d, Logged(e, d), e.of = c.of, e.authenticated => c.authenticated
  PROVE  Logged(c, d)
BY DEF Logged

LEMMA UnlessLogged ==
  ASSUME NEW c \in Connection, c.of # 0, NEW d, Logged(c, d), NEW b \in Unless(d, c)
  PROVE  Logged(c, b.conn)
<1>1. "error" \in Statuses /\ 0 \in Int
  BY DEF Statuses
<1>2. Logged(c, write_bin_error(c, "error", 0))
  BY <1>1, ErrorSays, SaysLogged
<1>3. b.conn = d \/ b.conn = write_bin_error(c, "error", 0)
  BY DEF Unless, Becomes
<1> QED
  BY <1>2, <1>3

LEMMA NoMemoryLogged ==
  ASSUME NEW c \in Connection, NEW go \in {"new_cmd", "swallow", "closing"},
         NEW b \in Without(Becomes(out_of_memory(c)))
                     \cup Without(Becomes([out_of_memory(c) EXCEPT !.write_and_go = go]))
  PROVE  Logged(c, b.conn)
<1>1. Says(c, out_of_memory(c), "ENOMEM")
  BY NoMemorySays
<1>2. Says(c, [out_of_memory(c) EXCEPT !.write_and_go = go], "ENOMEM")
  BY <1>1, GoesOn
<1>3. b.conn = out_of_memory(c) \/ b.conn = [out_of_memory(c) EXCEPT !.write_and_go = go]
  BY DEF Without, Becomes
<1> QED
  BY <1>1, <1>2, <1>3, SaysLogged

-----------------------------------------------------------------------------
(***************************************************************************)
(* Commands that have read what they wanted.                               *)
(***************************************************************************)
Reading(c) ==
  /\ c \in Connection /\ c.state = "nread" /\ c.of # 0 /\ Reads(c)
  /\ Req(c) \in Requests

LEMMA GetLogged ==
  ASSUME NEW c, Reading(c), Req(c).cmd \notin Sasl, NEW b \in process_bin_get_or_touch(c)
  PROVE  Logged(c, b.conn)
<1>1. c \in Connection /\ c.of # 0 /\ "ok" \in Statuses /\ "error" \in Statuses /\ 0 \in Int
  BY DEF Reading, Statuses
<1> DEFINE e == Answer(c, "ok")
           d == [e EXCEPT !.item = TRUE]
<1>2. Says(c, e, "ok")
  BY <1>1, AnswerSays
<1> HIDE DEF e
<1>3. Says(c, d, "ok")
  BY <1>2 DEF Connection, Says
<1> HIDE DEF d
<1>4. Logged(c, d) /\ Logged(c, write_bin_error(c, "error", 0)) /\ Logged(c, [c EXCEPT !.state = "new_cmd"])
  BY <1>1, <1>3, ErrorSays, SaysLogged, NewCommandLogged
<1>5. b.conn \in {d, write_bin_error(c, "error", 0), [c EXCEPT !.state = "new_cmd"]}
  BY DEF process_bin_get_or_touch, Becomes, d, e
<1> QED
  BY <1>4, <1>5

LEMMA UploadLogged ==
  ASSUME NEW c, Reading(c), NEW substate \in {"value", "auth_data"},
         substate = "value" => Req(c).cmd \in {"set", "append"},
         substate = "auth_data" => Req(c).cmd \in {"sasl_auth", "sasl_step"}
  PROVE  Logged(c, Upload(c, substate).conn)
<1> DEFINE d == Upload(c, substate).conn
<1>1. /\ d.state = "nread" /\ d.substate = substate /\ d.of = c.of /\ d.authenticated = c.authenticated
      /\ d.noreply = c.noreply
  BY DEF Reading, Upload, Connection
<1> HIDE DEF d
<1>2. Req(d) = Req(c)
  BY <1>1 DEF Req
<1>3. Logged(c, d)
  BY <1>1, <1>2 DEF Reading, Logged, Reads
<1> QED
  BY <1>3 DEF d

LEMMA TooLargeLogged ==
  ASSUME NEW c, Reading(c), NEW status \in {"E2BIG", "ENOMEM"}, NEW b \in TooLarge(c, status)
  PROVE  Logged(c, b.conn)
<1>1. c \in Connection /\ c.of # 0 /\ status \in Statuses /\ vlen(c) \in Int
  BY RequestLengths DEF Reading, Statuses, vlen
<1>2. b.conn = SwallowAfter(c, status, vlen(c))
  BY DEF TooLarge, Becomes
<1> QED
  BY <1>1, <1>2, SwallowSays, SaysLogged

LEMMA UpdateLogged ==
  ASSUME NEW c, Reading(c), Req(c).cmd \in {"set", "append"}, NEW b \in process_bin_update(c)
  PROVE  Logged(c, b.conn)
<1>1. c \in Connection /\ "swallow" \in {"new_cmd", "swallow", "closing"}
  BY DEF Reading
<1>2. CASE b = Upload(c, "value")
  BY <1>2, UploadLogged
<1>3. CASE b \in TooLarge(c, "E2BIG")
  BY <1>3, TooLargeLogged
<1>4. CASE b \in Without(Becomes([out_of_memory(c) EXCEPT !.write_and_go = "swallow"]))
  BY <1>1, <1>4, NoMemoryLogged
<1> QED
  BY <1>2, <1>3, <1>4 DEF process_bin_update

LEMMA SaslAuthLogged ==
  ASSUME NEW c, Reading(c), Req(c).cmd \in {"sasl_auth", "sasl_step"}, NEW b \in process_bin_sasl_auth(c)
  PROVE  Logged(c, b.conn)
<1>1. /\ c \in Connection /\ c.of # 0 /\ {"unknown", "EINVAL", "ENOMEM"} \subseteq Statuses
      /\ vlen(c) \in Int
  BY RequestLengths DEF Reading, Statuses, vlen
<1>2. Logged(c, write_bin_error(c, "unknown", vlen(c)))
  BY <1>1, ErrorSays, SaysLogged
<1>3. Logged(c, Upload(c, "auth_data").conn)
  BY UploadLogged
<1>4. ASSUME NEW status \in {"EINVAL", "ENOMEM"}
      PROVE  Logged(c, SwallowAfter(c, status, vlen(c)))
  BY <1>1, SwallowSays, SaysLogged
<1>5. CASE b \in TooLarge(c, "ENOMEM")
  BY <1>5, TooLargeLogged
<1>6. CASE b \notin TooLarge(c, "ENOMEM")
  <2>1. b.conn \in {write_bin_error(c, "unknown", vlen(c)), Upload(c, "auth_data").conn,
                    SwallowAfter(c, "EINVAL", vlen(c)), SwallowAfter(c, "ENOMEM", vlen(c))}
    BY <1>6 DEF process_bin_sasl_auth, Without, Becomes
  <2> QED
    BY <1>2, <1>3, <1>4, <2>1
<1> QED
  BY <1>5, <1>6

LEMMA CompleteUpdateLogged ==
  ASSUME NEW c, Reading(c), Req(c).cmd \in {"set", "append"}, NEW b \in complete_update_bin(c)
  PROVE  Logged(c, b.conn)
<1> DEFINE e == [c EXCEPT !.item = FALSE]
<1>1. e \in Connection /\ e.of = c.of /\ e.authenticated = c.authenticated /\ c.of # 0
  BY DEF Reading, Connection
<1>2. PICK u \in Unless(write_bin_response(e), e) : b = [u EXCEPT !.taken = -1]
  BY DEF complete_update_bin
<1> HIDE DEF e
<1>3. Req(e).cmd \notin Sasl
  BY <1>1 DEF Req, Sasl
<1>4. Logged(e, u.conn)
  BY <1>1, <1>2, <1>3, ResponseLogged, UnlessLogged
<1>5. b.conn = u.conn
  BY <1>2 DEF Unless, Becomes
<1> QED
  BY <1>1, <1>4, <1>5, LoggedFrom

LEMMA SimpleLogged ==
  ASSUME NEW c, Reading(c), Req(c).cmd \notin Sasl,
         NEW b \in complete_incr_bin(c) \cup process_bin_delete(c) \cup process_bin_flush(c) \cup process_bin_stat(c)
  PROVE  Logged(c, b.conn)
<1>1. c \in Connection /\ c.of # 0 /\ "ok" \in Statuses /\ "swallow" \in {"new_cmd", "swallow", "closing"}
  BY DEF Reading, Statuses
<1>2. CASE b \in Unless(write_bin_response(c), c)
  BY <1>1, <1>2, ResponseLogged, UnlessLogged
<1>3. CASE b \in Unless(Answer(c, "ok"), c)
  BY <1>1, <1>3, AnswerSays, SaysLogged, UnlessLogged
<1>4. CASE b \in Without(Becomes(out_of_memory(c)))
  BY <1>1, <1>4, NoMemoryLogged
<1> QED
  BY <1>2, <1>3, <1>4 DEF complete_incr_bin, process_bin_delete, process_bin_flush, process_bin_stat

\* An exchange forgets the login before, and gives a new one only with its answer "ok".
LEMMA CompleteSaslLogged ==
  ASSUME NEW c, Reading(c), c.substate = "auth_data", NEW b \in process_bin_complete_sasl_auth(c)
  PROVE  Logged(c, b.conn)
<1> DEFINE e == init_sasl_conn(c)
           f == [e EXCEPT !.authenticated = TRUE]
<1>1. /\ c \in Connection /\ c.of # 0 /\ Req(c).cmd \in {"sasl_auth", "sasl_step"}
      /\ {"ok", "continue", "auth_error"} \subseteq Statuses /\ 0 \in Int
  BY DEF Reading, Reads, Statuses
<1>2. ~c.noreply
  <2>1. ~Req(c).quiet
    BY <1>1, RequestsAssumption DEF Reading
  <2> QED
    BY <2>1 DEF Reading, Reads
<1>3. e \in Connection /\ e.of = c.of /\ ~e.authenticated /\ e.noreply = c.noreply
  BY <1>1 DEF init_sasl_conn, Connection
<1>4. b \in {Becomes(write_bin_response(f)), Becomes(Answer(e, "continue")), Becomes(write_bin_error(e, "auth_error", 0))}
  BY DEF process_bin_complete_sasl_auth
<1> HIDE DEF e
<1>5. f \in Connection /\ f.of = c.of /\ f.authenticated /\ f.noreply = c.noreply
  BY <1>3 DEF Connection
<1> HIDE DEF f
<1>6. Says(f, write_bin_response(f), "ok")
  BY <1>1, <1>2, <1>5, AnswerSays DEF write_bin_response
<1>7. Logged(c, write_bin_response(f))
  BY <1>1, <1>5, <1>6 DEF Says, Logged, LogsIn, Req, Reads
<1>8. Logged(e, Answer(e, "continue")) /\ Logged(e, write_bin_error(e, "auth_error", 0))
  BY <1>1, <1>3, AnswerSays, ErrorSays, SaysLogged
<1>9. b.conn = write_bin_response(f) \/ Logged(e, b.conn)
  BY <1>4, <1>8 DEF Becomes
<1> QED
  BY <1>3, <1>7, <1>9, LoggedFrom

LEMMA CompleteLogged ==
  ASSUME NEW c, Reading(c), c.substate # "none", NEW b \in complete_nread_binary(c)
  PROVE  Logged(c, b.conn)
<1>1. c.substate \in {"key", "value", "auth_data"}
  BY DEF Reading, Connection
<1>2. CASE c.substate = "value"
  BY <1>2, CompleteUpdateLogged DEF complete_nread_binary, Reading, Reads
<1>3. CASE c.substate = "auth_data"
  BY <1>3, CompleteSaslLogged DEF complete_nread_binary
<1>4. CASE c.substate = "key"
  <2>1. Req(c).cmd \in Keyed
    BY <1>4 DEF Reading, Reads
  <2>2. CASE Req(c).cmd \in {"get", "touch", "delete", "incr", "flush", "stat"}
    <3>1. Req(c).cmd \notin Sasl
      BY <2>2 DEF Sasl
    <3> QED
      BY <1>4, <2>2, <3>1, GetLogged, SimpleLogged DEF complete_nread_binary
  <2>3. CASE Req(c).cmd \in {"set", "append"}
    BY <1>4, <2>3, UpdateLogged DEF complete_nread_binary
  <2>4. CASE Req(c).cmd \in {"sasl_auth", "sasl_step"}
    BY <1>4, <2>4, SaslAuthLogged DEF complete_nread_binary
  <2> QED
    BY <2>1, <2>2, <2>3, <2>4 DEF Keyed
<1> QED
  BY <1>1, <1>2, <1>3, <1>4

-----------------------------------------------------------------------------
(***************************************************************************)
(* Requests whose header has been read.                                    *)
(***************************************************************************)
RefusedBy(d) == d.state = "mwrite" /\ d.out.status = "auth_error" /\ d.write_and_go = "closing"

Dispatching(c) == c \in Connection /\ c.of # 0 /\ Req(c) \in Requests

LEMMA ReadKeyLogged ==
  ASSUME NEW c, Dispatching(c), c.noreply = Req(c).quiet,
         Req(c).cmd \in Keyed, NEW b \in bin_read_key(c, "key")
  PROVE  Logged(c, b.conn)
<1> DEFINE k == Req(c).key
           d == [c EXCEPT !.substate = "key", !.rlbytes = k, !.state = "nread"]
<1>1. c \in Connection
  BY DEF Dispatching
<1>2. b.conn = d \/ b.conn = [c EXCEPT !.state = "closing"]
  BY DEF bin_read_key, Without, Becomes
<1>3. /\ d.state = "nread" /\ d.substate = "key" /\ d.of = c.of /\ d.authenticated = c.authenticated
      /\ d.noreply = c.noreply
  BY <1>1 DEF Connection
<1> HIDE DEF d
<1>4. Req(d) = Req(c)
  BY <1>3 DEF Req
<1>5. Logged(c, d)
  BY <1>3, <1>4 DEF Logged, Reads
<1> QED
  BY <1>1, <1>2, <1>5, NewCommandLogged

LEMMA ListLogged ==
  ASSUME NEW c, Dispatching(c), NEW b \in bin_list_sasl_mechs(c)
  PROVE  Logged(c, b.conn)
<1> DEFINE e == init_sasl_conn(c)
<1>1. /\ c \in Connection /\ c.of # 0 /\ {"unknown", "auth_error"} \subseteq Statuses
      /\ vlen(c) \in Int /\ 0 \in Int
  BY RequestLengths DEF Dispatching, Statuses, vlen
<1>2. e \in Connection /\ e.of = c.of /\ ~e.authenticated
  BY <1>1 DEF init_sasl_conn, Connection
<1>3. b.conn \in {write_bin_error(c, "unknown", vlen(c)), write_bin_response(e), write_bin_error(e, "auth_error", 0)}
  BY DEF bin_list_sasl_mechs, Becomes
<1> HIDE DEF e
<1>4. Logged(c, write_bin_error(c, "unknown", vlen(c)))
  BY <1>1, ErrorSays, SaysLogged
<1>5. Logged(e, write_bin_response(e)) /\ Logged(e, write_bin_error(e, "auth_error", 0))
  BY <1>1, <1>2, ResponseLogged, ErrorSays, SaysLogged
<1> QED
  BY <1>2, <1>3, <1>4, <1>5, LoggedFrom

LEMMA QuitLogged ==
  ASSUME NEW c, Dispatching(c), Req(c).cmd = "quit"
  PROVE  Logged(c, quit(c))
<1>1. c \in Connection /\ c.of # 0 /\ Req(c).cmd \notin Sasl /\ "ok" \in Statuses
  BY DEF Dispatching, Sasl, Statuses
<1>2. CASE c.noreply
  BY <1>1, <1>2, NewCommandLogged DEF quit
<1>3. CASE ~c.noreply
  <2>1. Says(c, write_bin_response(c), "ok")
    BY <1>1, <1>3, AnswerSays DEF write_bin_response
  <2>2. Says(c, [write_bin_response(c) EXCEPT !.write_and_go = "closing"], "ok")
    BY <2>1, GoesOn
  <2> QED
    BY <1>1, <1>3, <2>2, SaysLogged DEF quit
<1> QED
  BY <1>2, <1>3

LEMMA DispatchLogged ==
  ASSUME NEW c, Dispatching(c), NEW b \in dispatch_bin_command(c)
  PROVE  Logged(c, b.conn) /\ (sasl => authenticated(c) \/ RefusedBy(b.conn))
<1> DEFINE r == Req(c)
           d == [c EXCEPT !.noreply = r.quiet]
           refusal == [write_bin_error(c, "auth_error", 0) EXCEPT !.write_and_go = "closing"]
<1>1. /\ c \in Connection /\ c.of # 0 /\ r \in Requests /\ r.quiet \in BOOLEAN /\ r.cmd \in Commands
      /\ {"auth_error", "EINVAL", "unknown"} \subseteq Statuses /\ 0 \in Int
      /\ "closing" \in {"new_cmd", "swallow", "closing"}
  BY RequestLengths DEF Dispatching, Statuses, Request
<1>2. d \in Connection /\ d.of = c.of /\ d.authenticated = c.authenticated /\ d.noreply = r.quiet
  BY <1>1 DEF Connection
<1>3. Req(d) = r /\ Dispatching(d)
  BY <1>1, <1>2 DEF Req, Dispatching
<1> HIDE DEF d
<1>4. CASE sasl /\ ~authenticated(c)
  <2>1. Says(c, write_bin_error(c, "auth_error", 0), "auth_error")
    BY <1>1, ErrorSays
  <2>2. Says(c, refusal, "auth_error") /\ refusal.write_and_go = "closing"
    BY <1>1, <2>1, GoesOn
  <2>3. b.conn = refusal
    BY <1>4 DEF dispatch_bin_command, Becomes
  <2> HIDE DEF refusal
  <2>4. ~c.authenticated
    BY <1>4 DEF authenticated
  <2>5. Logged(c, refusal) /\ RefusedBy(refusal)
    BY <1>1, <2>2, <2>4, SaysLogged DEF Says, RefusedBy
  <2> QED
    BY <2>3, <2>5
<1>5. CASE ~(sasl /\ ~authenticated(c))
  <2>1. SUFFICES Logged(d, b.conn)
    BY <1>2, <1>5, LoggedFrom
  <2>2. CASE b = Becomes(handle_binary_protocol_error(d))
    <3>1. Says(d, handle_binary_protocol_error(d), "EINVAL")
      BY <1>1, <1>2, ErrorSays, GoesOn DEF handle_binary_protocol_error
    <3> QED
      BY <1>1, <1>2, <2>2, <3>1, SaysLogged DEF Becomes
  <2>3. CASE r.cmd \in {"noop", "version"} /\ b = Becomes(write_bin_response(d))
    <3>1. Req(d).cmd \notin Sasl
      BY <1>3, <2>3 DEF Sasl
    <3> QED
      BY <1>1, <1>2, <2>3, <3>1, ResponseLogged DEF Becomes
  <2>4. CASE r.cmd = "quit" /\ b = Becomes(quit(d))
    BY <1>3, <2>4, QuitLogged DEF Becomes
  <2>5. CASE b \in bin_list_sasl_mechs(d)
    BY <1>3, <2>5, ListLogged
  <2>6. CASE b = Becomes(write_bin_error(d, "unknown", AsInt(r.key + r.value)))
    <3>1. AsInt(r.key + r.value) \in Int
      BY <1>1, RequestLengths
    <3> HIDE DEF r
    <3>2. Says(d, write_bin_error(d, "unknown", AsInt(r.key + r.value)), "unknown")
      BY <1>1, <1>2, <3>1, ErrorSays
    <3> QED
      BY <1>1, <1>2, <2>6, <3>2, SaysLogged DEF Becomes
  <2>7. CASE /\ r.cmd \notin {"noop", "version", "quit", "sasl_list", "unknown"}
             /\ b \in bin_read_key(d, "key")
    <3>1. r.cmd \in Keyed
      BY <1>1, <2>7 DEF Commands, Keyed
    <3> QED
      BY <1>2, <1>3, <2>7, <3>1, ReadKeyLogged
  <2> QED
    BY <1>5, <2>2, <2>3, <2>4, <2>5, <2>6, <2>7 DEF dispatch_bin_command, d
<1> QED
  BY <1>4, <1>5

-----------------------------------------------------------------------------
(***************************************************************************)
(* Steps.                                                                  *)
(***************************************************************************)
LEMMA LoggedInAppend ==
  ASSUME NEW answers \in Seq(Replies), NEW a \in Replies
  PROVE  /\ LoggedIn(answers) /\ ~Exchange(a) => LoggedIn(Append(answers, a))
         /\ LogsIn(a) => LoggedIn(Append(answers, a))
<1> DEFINE all == Append(answers, a)
           n == Len(answers)
<1>1. /\ n \in Nat /\ DOMAIN answers = 1..n /\ DOMAIN all = 1..(n + 1)
      /\ all[n + 1] = a /\ \A i \in 1..n : all[i] = answers[i]
  OBVIOUS
<1> HIDE DEF all, n
<1>2. ASSUME LoggedIn(answers), ~Exchange(a) PROVE LoggedIn(all)
  <2>1. PICK i \in 1..n : LogsIn(answers[i]) /\ \A j \in 1..n : i < j => ~Exchange(answers[j])
    BY <1>1, <1>2 DEF LoggedIn
  <2>2. i \in DOMAIN all /\ LogsIn(all[i])
    BY <1>1, <2>1
  <2>3. ASSUME NEW j \in DOMAIN all, i < j PROVE ~Exchange(all[j])
    <3>1. j \in 1..n \/ j = n + 1
      BY <1>1
    <3> QED
      BY <1>1, <1>2, <2>1, <2>3, <3>1
  <2> QED
    BY <2>2, <2>3 DEF LoggedIn
<1>3. ASSUME LogsIn(a) PROVE LoggedIn(all)
  <2>1. n + 1 \in DOMAIN all /\ LogsIn(all[n + 1])
    BY <1>1, <1>3
  <2>2. \A j \in DOMAIN all : ~(n + 1 < j)
    BY <1>1
  <2> QED
    BY <2>1, <2>2 DEF LoggedIn
<1> QED
  BY <1>2, <1>3 DEF all

\* Nothing has been answered in this step, and d is what has become of the connection.
LEMMA Keeps ==
  ASSUME TypeOK, LInv, UNCHANGED <<sasl, sent, got>>, conn.state # "mwrite", ~Over(conn),
         NEW c, c.authenticated => conn.authenticated,
         NEW d, conn' = d, Logged(c, d), Sound(d),
         sasl /\ d.of # 0 => Req(d).cmd \in Sasl \cup {"version"} \/ LoggedIn(got) \/ RefusedBy(d)
  PROVE  LInv'
<1>1. Answers = got
  BY DEF Answers
<1>2. d.of \in 0..Len(sent) /\ (d.state = "mwrite" => d.out \in Replies) /\ got \in Seq(Replies)
  BY DEF Sound, Serves, Placed, Holds, TypeOK
<1>3. (\A i \in DOMAIN got : Known(got[i]))'
  BY DEF LInv, Known
<1>4. (conn.state = "mwrite" => Known(conn.out) /\ conn.out.of = conn.of)'
  BY <1>2 DEF Logged, Known
<1>5. Reads(conn)'
  BY DEF Logged, Reads, Req
<1>6. ASSUME sasl, d.authenticated, ~Over(d) PROVE LoggedIn(Answers)'
  <2>1. CASE d.state = "mwrite"
    <3>1. Answers' = Append(got, d.out)
      BY <2>1 DEF Answers
    <3>2. CASE LogsIn(d.out)
      <4>1. LoggedIn(Append(got, d.out))
        BY <1>2, <2>1, <3>2, LoggedInAppend
      <4> QED
        BY <3>1, <4>1 DEF LoggedIn, LogsIn, Exchange
    <3>3. CASE ~LogsIn(d.out)
      <4>1. ~Exchange(d.out) /\ LoggedIn(got)
        BY <1>1, <1>6, <2>1, <3>3 DEF Logged, LInv
      <4>2. LoggedIn(Append(got, d.out))
        BY <1>2, <2>1, <4>1, LoggedInAppend
      <4> QED
        BY <3>1, <4>2 DEF LoggedIn, LogsIn, Exchange
    <3> QED
      BY <3>2, <3>3
  <2>2. CASE d.state # "mwrite"
    <3>1. Answers' = got
      BY <2>2 DEF Answers
    <3>2. LoggedIn(got)
      BY <1>1, <1>6, <2>2 DEF Logged, LInv
    <3> QED
      BY <3>1, <3>2 DEF LoggedIn, LogsIn, Exchange
  <2> QED
    BY <2>1, <2>2
<1>7. AuthenticatedOnly'
  <2>1. SUFFICES ASSUME sasl, d.of # 0
                 PROVE  (Req(conn).cmd \in Sasl \cup {"version"} \/ LoggedIn(got) \/ Refused)'
    BY DEF AuthenticatedOnly
  <2>2. CASE Req(d).cmd \in Sasl \cup {"version"}
    BY <2>2 DEF Req
  <2>3. CASE LoggedIn(got)
    BY <2>3 DEF LoggedIn, LogsIn, Exchange
  <2>4. CASE RefusedBy(d)
    BY <2>4 DEF RefusedBy, Refused
  <2> QED
    BY <2>1, <2>2, <2>3, <2>4
<1> QED
  BY <1>3, <1>4, <1>5, <1>6, <1>7 DEF LInv, Over

\* The request being served stays the same.
LEMMA Continues ==
  ASSUME TypeOK, LInv, UNCHANGED <<sasl, sent, got>>, conn.state # "mwrite", ~Over(conn),
         NEW d, conn' = d, Logged(conn, d), Sound(d)
  PROVE  LInv'
<1>1. ~Refused
  BY DEF Refused, Over
<1>2. Req(d) = Req(conn) /\ d.of = conn.of
  BY DEF Logged, Req
<1>3. sasl /\ d.of # 0 => Req(d).cmd \in Sasl \cup {"version"} \/ LoggedIn(got)
  BY <1>1, <1>2 DEF LInv, AuthenticatedOnly
<1> QED
  BY <1>3, Keeps

\* A connection that closes has no more to answer for.
LEMMA Closes ==
  ASSUME LInv, UNCHANGED <<sent, got>>, conn'.state \in {"closing", "closed"}
  PROVE  LInv'
<1>1. (\A i \in DOMAIN got : Known(got[i]))'
  BY DEF LInv, Known
<1>2. Reads(conn)' /\ Over(conn)' /\ AuthenticatedOnly'
  BY DEF Reads, Over, AuthenticatedOnly, Refused
<1> QED
  BY <1>1, <1>2 DEF LInv

LEMMA BecomesSound ==
  ASSUME IInv', UNCHANGED <<sasl, mayFail, sent, ends>>, NEW d, conn' = d
  PROVE  Sound(d)
<1>1. Trusted(d) => Trusted(conn)'
  BY DEF Trusted, ProperUpTo, Proper
<1> QED
  BY <1>1 DEF IInv, Sound, Holds, Serves, Placed, Located, Req, End

LEMMA InitLogin == Init => LInv
<1> SUFFICES ASSUME Init PROVE LInv
  OBVIOUS
<1>1. got = <<>> /\ conn.state = "new_cmd" /\ ~conn.authenticated /\ conn.of = 0
  BY DEF Init, Calloced
<1>2. DOMAIN got = {}
  BY <1>1
<1> QED
  BY <1>1, <1>2 DEF LInv, Reads, AuthenticatedOnly

\* The login of a client before counts no more.
LEMMA NewConnLogin ==
  ASSUME conn_new
  PROVE  LInv'
<1>1. got' = <<>> /\ conn'.state = "new_cmd" /\ ~conn'.authenticated /\ conn'.of = 0
  BY DEF conn_new, Calloced
<1>2. DOMAIN got' = {}
  BY <1>1
<1> QED
  BY <1>1, <1>2 DEF LInv, Reads, AuthenticatedOnly

\* A further request changes nothing in what the answers are to.
LEMMA SendLogin ==
  ASSUME IInv, LInv, NEW r \in Requests, Send(r)
  PROVE  LInv'
<1>1. /\ sent \in Seq(Requests) /\ Len(sent) \in Nat /\ got \in Seq(Replies)
      /\ sent' = Append(sent, r) /\ UNCHANGED <<sasl, conn, got>>
  BY DEF IInv, TypeOK, Send
<1>2. Len(sent') = Len(sent) + 1 /\ \A n \in 1..Len(sent) : sent'[n] = sent[n]
  BY <1>1
<1>3. conn.of \in 0..Len(sent) /\ (conn.state = "nread" => conn.of # 0)
  BY DEF IInv, Sound, Serves, Placed
<1>4. conn.of # 0 => Req(conn)' = Req(conn)
  BY <1>1, <1>2, <1>3 DEF Req
<1>5. ASSUME NEW a, Known(a) PROVE Known(a)' /\ (Exchange(a)' <=> Exchange(a)) /\ (LogsIn(a)' <=> LogsIn(a))
  BY <1>1, <1>2, <1>5 DEF Known, Exchange, LogsIn
<1>6. ASSUME NEW answers, \A i \in DOMAIN answers : Known(answers[i]), LoggedIn(answers)
      PROVE  LoggedIn(answers)'
  BY <1>5, <1>6 DEF LoggedIn
<1>7. (\A i \in DOMAIN got : Known(got[i]))' /\ (conn.state = "mwrite" => Known(conn.out) /\ conn.out.of = conn.of)'
  BY <1>1, <1>5 DEF LInv
<1>8. Reads(conn)'
  BY <1>1, <1>3, <1>4 DEF LInv, Reads
<1>9. Answers' = Answers /\ \A i \in DOMAIN Answers : Known(Answers[i])
  <2>1. CASE conn.state # "mwrite"
    BY <1>1, <2>1 DEF Answers, LInv
  <2>2. CASE conn.state = "mwrite"
    <3>1. Answers' = Answers /\ Answers = Append(got, conn.out) /\ Known(conn.out)
      BY <1>1, <2>2 DEF Answers, LInv
    <3>2. ASSUME NEW i \in DOMAIN Append(got, conn.out) PROVE Known(Append(got, conn.out)[i])
      <4>1. (i \in DOMAIN got /\ Append(got, conn.out)[i] = got[i]) \/ Append(got, conn.out)[i] = conn.out
        BY <1>1
      <4> QED
        BY <3>1, <4>1 DEF LInv
    <3> QED
      BY <3>1, <3>2
  <2> QED
    BY <2>1, <2>2
<1>10. (sasl /\ conn.authenticated /\ ~Over(conn) => LoggedIn(Answers))'
  <2>1. SUFFICES ASSUME sasl, conn.authenticated, ~Over(conn) PROVE LoggedIn(Answers)'
    BY <1>1 DEF Over
  <2>2. LoggedIn(Answers)
    BY <2>1 DEF LInv
  <2> DEFINE answers == Answers
  <2>3. answers' = answers /\ (\A i \in DOMAIN answers : Known(answers[i])) /\ LoggedIn(answers)
    BY <1>9, <2>2
  <2> HIDE DEF answers
  <2>4. ASSUME NEW i \in DOMAIN answers
        PROVE  (Exchange(answers[i])' <=> Exchange(answers[i])) /\ (LogsIn(answers[i])' <=> LogsIn(answers[i]))
    BY <2>3, <1>5
  <2>5. LoggedIn(answers)'
    BY <2>3, <2>4 DEF LoggedIn
  <2> QED
    BY <2>5 DEF answers
<1>11. AuthenticatedOnly'
  <2>1. SUFFICES ASSUME sasl, conn.of # 0
                 PROVE  (Req(conn).cmd \in Sasl \cup {"version"} \/ LoggedIn(got) \/ Refused)'
    BY <1>1 DEF AuthenticatedOnly
  <2>2. CASE Req(conn).cmd \in Sasl \cup {"version"}
    BY <1>4, <2>1, <2>2
  <2>3. CASE Refused
    BY <1>1, <2>3 DEF Refused
  <2>4. CASE LoggedIn(got)
    <3>1. \A i \in DOMAIN got : Known(got[i])
      BY DEF LInv
    <3>2. ASSUME NEW i \in DOMAIN got
          PROVE  (Exchange(got[i])' <=> Exchange(got[i])) /\ (LogsIn(got[i])' <=> LogsIn(got[i]))
      BY <1>1, <1>5, <3>1
    <3> QED
      BY <1>1, <2>4, <3>2 DEF LoggedIn
  <2> QED
    BY <2>1, <2>2, <2>3, <2>4 DEF LInv, AuthenticatedOnly
<1> QED
  BY <1>7, <1>8, <1>10, <1>11 DEF LInv

LEMMA NetworkLogin ==
  ASSUME IInv, IInv', LInv, try_read_network
  PROVE  LInv'
<1>1. /\ TypeOK /\ conn \in Connection /\ UNCHANGED <<sasl, mayFail, sent, ends, got>>
      /\ conn.state = "read" /\ ~Over(conn)
  BY DEF IInv, TypeOK, try_read_network, Machine, Over
<1>2. ASSUME NEW n \in 1..Unread, conn' = [conn EXCEPT !.rbytes = @ + n, !.state = "parse_cmd"]
      PROVE  LInv'
  <2> DEFINE m == conn.rbytes + n
             d == [conn EXCEPT !.rbytes = m, !.state = "parse_cmd"]
  <2>1. conn' = d
    BY <1>1, <1>2 DEF Connection
  <2> HIDE DEF m
  <2>2. Logged(conn, d)
    BY <1>1 DEF Connection, Logged, Reads
  <2> HIDE DEF d
  <2> QED
    BY <1>1, <2>1, <2>2, BecomesSound, Continues
<1>3. ASSUME conn' = [out_of_memory(conn) EXCEPT !.pos = @ + conn.rbytes, !.rbytes = 0, !.write_and_go = "closing"]
      PROVE  LInv'
  <2> DEFINE e == out_of_memory(conn)
             m == e.pos + conn.rbytes
             d == [e EXCEPT !.pos = m, !.rbytes = 0, !.write_and_go = "closing"]
  <2>1. Says(conn, e, "ENOMEM")
    BY <1>1, NoMemorySays
  <2>2. conn' = d
    BY <1>3, <2>1 DEF Says, Connection
  <2>3. d = conn'
    BY <2>2
  <2>4. d \in Connection
    BY <2>3, BecomesSound, <1>1 DEF Sound
  <2> HIDE DEF e
  <2> HIDE DEF m
  <2>5. Says(conn, d, "ENOMEM")
    BY <2>1, <2>4 DEF Says, Connection
  <2> HIDE DEF d
  <2>6. Logged(conn, d)
    BY <2>5, SaysLogged
  <2> QED
    BY <1>1, <2>2, <2>6, BecomesSound, Continues
<1>4. ASSUME conn' = [conn EXCEPT !.state = "closing"]
      PROVE  LInv'
  BY <1>1, <1>4, Closes DEF Connection
<1> QED
  BY <1>2, <1>3, <1>4 DEF try_read_network

\* Here a command is let in, or not.
LEMMA CommandLogin ==
  ASSUME IInv, IInv', LInv, try_read_command
  PROVE  LInv'
<1>1. /\ TypeOK /\ conn \in Connection /\ UNCHANGED <<sasl, mayFail, sent, ends, got>>
      /\ conn.state = "parse_cmd" /\ ~Over(conn) /\ sent \in Seq(Requests) /\ Len(sent) \in Nat
  <2>1. UNCHANGED <<sasl, mayFail, sent, ends, got>> /\ conn.state = "parse_cmd"
    BY DEF try_read_command, Machine
  <2> QED
    BY <2>1 DEF IInv, TypeOK, Over
<1>2. ASSUME conn' = [conn EXCEPT !.state = "closing"]
      PROVE  LInv'
  BY <1>1, <1>2, Closes DEF Connection
<1>3. ASSUME conn' = [conn EXCEPT !.state = "read"]
      PROVE  LInv'
  <2> DEFINE d == [conn EXCEPT !.state = "read"]
  <2>1. Logged(conn, d)
    BY <1>1 DEF Connection, Logged, Reads
  <2>2. conn' = d
    BY <1>3
  <2> HIDE DEF d
  <2> QED
    BY <1>1, <2>1, <2>2, BecomesSound, Continues
<1>4. ASSUME conn.rbytes >= Header, NEW n \in Beginning,
             NEW b \in dispatch_bin_command([conn EXCEPT !.of = n, !.pos = @ + Header, !.rbytes = @ - Header]),
             conn' = b.conn
      PROVE  LInv'
  <2> DEFINE pos == conn.pos + Header
             rbytes == conn.rbytes - Header
             c == [conn EXCEPT !.of = n, !.pos = pos, !.rbytes = rbytes]
             d == b.conn
  <2>1. pos \in Nat /\ rbytes \in Nat
    BY <1>1, <1>4 DEF Header, Connection
  <2>2. b \in dispatch_bin_command(c)
    BY <1>1, <1>4 DEF Connection
  <2>3. n \in 1..Len(sent) /\ n \in Nat /\ n # 0 /\ sent[n] \in Requests
    BY <1>1 DEF Beginning
  <2> HIDE DEF pos, rbytes
  <2>4. c \in Connection /\ c.of = n /\ c.authenticated = conn.authenticated
    BY <1>1, <2>1, <2>3 DEF Connection
  <2> HIDE DEF c
  <2>5. Dispatching(c)
    BY <2>3, <2>4 DEF Dispatching, Req
  <2>6. Logged(c, d) /\ (sasl => authenticated(c) \/ RefusedBy(d))
    BY <2>2, <2>5, DispatchLogged
  <2>7. conn' = d
    BY <1>4
  <2> HIDE DEF d
  <2>8. Req(d) = Req(c)
    BY <2>6 DEF Logged, Req
  <2>9. sasl /\ c.authenticated => LoggedIn(got)
    BY <1>1, <2>4 DEF LInv, Answers
  <2>10. sasl /\ d.of # 0 => Req(d).cmd \in Sasl \cup {"version"} \/ LoggedIn(got) \/ RefusedBy(d)
    BY <2>6, <2>8, <2>9 DEF authenticated
  <2>11. Sound(d)
    BY <1>1, <2>7, BecomesSound
  <2> QED
    BY <1>1, <2>4, <2>6, <2>7, <2>10, <2>11, Keeps
<1> QED
  BY <1>2, <1>3, <1>4 DEF try_read_command

LEMMA ResetLogin ==
  ASSUME IInv, IInv', LInv, reset_cmd_handler
  PROVE  LInv'
<1> DEFINE st == IF conn.rbytes = 0 THEN "read" ELSE "parse_cmd"
           d == [conn EXCEPT !.item = FALSE, !.substate = "none", !.state = st]
<1>1. /\ TypeOK /\ conn \in Connection /\ UNCHANGED <<sasl, mayFail, sent, ends, got>>
      /\ conn.state = "new_cmd" /\ ~Over(conn) /\ conn' = d
  BY DEF IInv, TypeOK, reset_cmd_handler, Machine, Over
<1>2. st \in {"read", "parse_cmd"}
  OBVIOUS
<1> HIDE DEF st
<1>3. Logged(conn, d)
  BY <1>1, <1>2 DEF Connection, Logged, Reads
<1> HIDE DEF d
<1> QED
  BY <1>1, <1>3, BecomesSound, Continues

\* Taking from the stream.
LEMMA TakeLogged ==
  ASSUME conn \in Connection, Reads(conn), conn.state \in {"nread", "swallow"},
         NEW c \in Connection, c.state = conn.state, c.substate = conn.substate, c.of = conn.of,
         c.noreply = conn.noreply, c.authenticated = conn.authenticated, NEW n \in Nat
  PROVE  Logged(conn, Take(c, n))
<1> DEFINE pos == c.pos + n
           rbytes == IF n < c.rbytes THEN c.rbytes - n ELSE 0
           d == [c EXCEPT !.pos = pos, !.rbytes = rbytes]
<1>1. Take(c, n) = d
  BY DEF Take, Connection
<1> HIDE DEF pos, rbytes
<1>2. /\ d.state = conn.state /\ d.substate = conn.substate /\ d.of = conn.of
      /\ d.noreply = conn.noreply /\ d.authenticated = conn.authenticated
  BY DEF Connection
<1> HIDE DEF d
<1>3. Req(d) = Req(conn)
  BY <1>2 DEF Req
<1>4. Logged(conn, d)
  BY <1>2, <1>3 DEF Logged, Reads
<1> QED
  BY <1>1, <1>4

LEMMA ReadLogin ==
  ASSUME IInv, IInv', LInv, conn_nread
  PROVE  LInv'
<1>1. /\ TypeOK /\ conn \in Connection /\ UNCHANGED <<sasl, mayFail, sent, ends, got>>
      /\ conn.state = "nread" /\ ~Over(conn) /\ sent \in Seq(Requests) /\ Len(sent) \in Nat
      /\ conn.rlbytes \in Int /\ conn.rbytes \in Nat /\ Reads(conn)
  BY DEF IInv, TypeOK, conn_nread, Machine, Over, Connection, LInv
<1>2. ASSUME NEW b \in complete_nread_binary(conn), conn' = b.conn
      PROVE  LInv'
  <2> DEFINE d == b.conn
  <2>1. conn.of \in 1..Len(sent) /\ conn.of # 0 /\ conn.substate # "none"
    BY <1>1 DEF IInv, Sound, Serves, Placed, Holds
  <2>2. Reading(conn)
    BY <1>1, <2>1 DEF Reading, Req
  <2>3. Logged(conn, d)
    BY <1>2, <2>1, <2>2, CompleteLogged
  <2>4. conn' = d
    BY <1>2
  <2> HIDE DEF d
  <2> QED
    BY <1>1, <2>3, <2>4, BecomesSound, Continues
<1>3. ASSUME Ends
      PROVE  LInv'
  BY <1>1, <1>3, Closes DEF Ends, Connection
<1>4. ASSUME conn.rlbytes > 0, NEW n \in Takes(conn.rlbytes), conn' = Take([conn EXCEPT !.rlbytes = @ - n], n)
      PROVE  LInv'
  <2> DEFINE rest == conn.rlbytes - n
             c == [conn EXCEPT !.rlbytes = rest]
             d == Take(c, n)
  <2>1. n \in 1..conn.rlbytes /\ n \in Nat
    <3>1. conn.rlbytes \in Nat
      BY <1>1, <1>4
    <3> QED
      BY <1>1, <1>4, <3>1, TakesBounds
  <2>2. conn' = d
    BY <1>1, <1>4 DEF Connection
  <2>3. rest \in Int
    BY <1>1, <2>1
  <2> HIDE DEF rest
  <2>4. /\ c \in Connection /\ c.state = conn.state /\ c.substate = conn.substate /\ c.of = conn.of
        /\ c.noreply = conn.noreply /\ c.authenticated = conn.authenticated
    BY <1>1, <2>3 DEF Connection
  <2> HIDE DEF c
  <2>5. Logged(conn, d)
    BY <1>1, <2>1, <2>4, TakeLogged
  <2> HIDE DEF d
  <2> QED
    BY <1>1, <2>2, <2>5, BecomesSound, Continues
<1>5. ASSUME conn' = [conn EXCEPT !.state = "closing"]
      PROVE  LInv'
  BY <1>1, <1>5, Closes DEF Connection
<1> QED
  BY <1>2, <1>3, <1>4, <1>5 DEF conn_nread

LEMMA SwallowLogin ==
  ASSUME IInv, IInv', LInv, conn_swallow
  PROVE  LInv'
<1>1. /\ TypeOK /\ conn \in Connection /\ UNCHANGED <<sasl, mayFail, sent, ends, got>>
      /\ conn.state = "swallow" /\ ~Over(conn) /\ conn.sbytes \in Nat /\ conn.rbytes \in Nat /\ Reads(conn)
  BY DEF IInv, TypeOK, conn_swallow, Machine, Over, Connection, LInv
<1>2. ASSUME conn' = [conn EXCEPT !.state = "new_cmd"]
      PROVE  LInv'
  <2> DEFINE d == [conn EXCEPT !.state = "new_cmd"]
  <2>1. Logged(conn, d) /\ conn' = d
    BY <1>1, <1>2, NewCommandLogged
  <2> HIDE DEF d
  <2> QED
    BY <1>1, <2>1, BecomesSound, Continues
<1>3. ASSUME Ends
      PROVE  LInv'
  BY <1>1, <1>3, Closes DEF Ends, Connection
<1>4. ASSUME conn.sbytes > 0, NEW n \in Takes(conn.sbytes), conn' = Take([conn EXCEPT !.sbytes = @ - n], n)
      PROVE  LInv'
  <2> DEFINE rest == conn.sbytes - n
             c == [conn EXCEPT !.sbytes = rest]
             d == Take(c, n)
  <2>1. n \in 1..conn.sbytes /\ n \in Nat
    BY <1>1, <1>4, TakesBounds
  <2>2. conn' = d
    BY <1>1, <1>4 DEF Connection
  <2>3. rest \in Nat
    BY <1>1, <2>1
  <2> HIDE DEF rest
  <2>4. /\ c \in Connection /\ c.state = conn.state /\ c.substate = conn.substate /\ c.of = conn.of
        /\ c.noreply = conn.noreply /\ c.authenticated = conn.authenticated
    BY <1>1, <2>3 DEF Connection
  <2> HIDE DEF c
  <2>5. Logged(conn, d)
    BY <1>1, <2>1, <2>4, TakeLogged
  <2> HIDE DEF d
  <2> QED
    BY <1>1, <2>2, <2>5, BecomesSound, Continues
<1> QED
  BY <1>2, <1>3, <1>4 DEF conn_swallow

\* The answer comes to be one of those sent.
LEMMA WriteLogin ==
  ASSUME IInv, LInv, conn_mwrite
  PROVE  LInv'
<1>1. /\ conn \in Connection /\ UNCHANGED <<sasl, sent>> /\ got \in Seq(Replies)
      /\ conn.state = "mwrite" /\ conn.out \in Replies /\ Known(conn.out) /\ conn.out.of = conn.of
  BY DEF IInv, TypeOK, conn_mwrite, Machine, Sound, Holds, LInv
<1>2. ASSUME conn' = [conn EXCEPT !.out = None, !.state = "closing"], got' = got
      PROVE  LInv'
  BY <1>1, <1>2, Closes DEF Connection
<1>3. ASSUME conn' = [conn EXCEPT !.out = None, !.item = FALSE, !.state = conn.write_and_go],
             got' = Append(got, conn.out)
      PROVE  LInv'
  <2> DEFINE all == Append(got, conn.out)
  <2>1. /\ conn'.state = conn.write_and_go /\ conn'.state \in {"new_cmd", "swallow", "closing"}
        /\ conn'.of = conn.of /\ conn'.authenticated = conn.authenticated
    BY <1>1, <1>3 DEF Connection
  <2>2. got' = all /\ \A i \in DOMAIN all : (i \in DOMAIN got /\ all[i] = got[i]) \/ all[i] = conn.out
    BY <1>1, <1>3
  <2>3. Answers = all /\ Answers' = all
    BY <1>1, <1>3, <2>1 DEF Answers
  <2>4. LoggedIn(got) /\ ~Exchange(conn.out) => LoggedIn(all)
    BY <1>1, LoggedInAppend
  <2> HIDE DEF all
  <2>5. (\A i \in DOMAIN got : Known(got[i]))'
    BY <1>1, <2>2 DEF LInv, Known
  <2>6. Reads(conn)' /\ (conn.state = "mwrite" => Known(conn.out) /\ conn.out.of = conn.of)'
    BY <2>1 DEF Reads
  <2>7. (sasl /\ conn.authenticated /\ ~Over(conn) => LoggedIn(Answers))'
    <3>1. SUFFICES ASSUME sasl, conn.authenticated PROVE LoggedIn(Answers)'
      BY <1>1, <2>1
    <3>2. LoggedIn(all)
      BY <1>1, <2>3, <3>1 DEF LInv, Over
    <3> QED
      BY <1>1, <2>3, <3>2 DEF LoggedIn, LogsIn, Exchange
  <2>8. AuthenticatedOnly'
    <3>1. SUFFICES ASSUME sasl, conn.of # 0
                   PROVE  (Req(conn).cmd \in Sasl \cup {"version"} \/ LoggedIn(got) \/ Refused)'
      BY <1>1, <2>1 DEF AuthenticatedOnly
    <3>2. Req(conn)' = Req(conn)
      BY <1>1, <2>1 DEF Req
    <3>3. CASE Req(conn).cmd \in Sasl \cup {"version"}
      BY <3>2, <3>3
    <3>4. CASE Refused
      BY <1>1, <2>1, <3>4 DEF Refused
    <3>5. CASE LoggedIn(got) /\ Req(conn).cmd \notin Sasl
      <4>1. ~Exchange(conn.out)
        BY <1>1, <3>5 DEF Exchange, Req
      <4>2. LoggedIn(all)
        BY <2>4, <3>5, <4>1
      <4> QED
        BY <1>1, <2>2, <4>2 DEF LoggedIn, LogsIn, Exchange
    <3> QED
      BY <3>1, <3>3, <3>4, <3>5 DEF LInv, AuthenticatedOnly
  <2> QED
    BY <2>5, <2>6, <2>7, <2>8 DEF LInv
<1> QED
  BY <1>2, <1>3 DEF conn_mwrite

LEMMA CloseLogin ==
  ASSUME IInv, LInv, conn_close
  PROVE  LInv'
<1>1. conn \in Connection /\ UNCHANGED <<sent, got>> /\ conn' = [conn EXCEPT !.item = FALSE, !.state = "closed"]
  BY DEF IInv, TypeOK, conn_close, Machine
<1>2. conn'.state = "closed"
  BY <1>1 DEF Connection
<1> QED
  BY <1>1, <1>2, Closes

LEMMA NextLogin == IInv /\ IInv' /\ LInv /\ [Next]_vars => LInv'
<1> SUFFICES ASSUME IInv, IInv', LInv, [Next]_vars PROVE LInv'
  OBVIOUS
<1>1. CASE UNCHANGED vars \/ Leave
  <2>1. UNCHANGED <<sasl, sent, conn, got>>
    BY <1>1 DEF vars, Leave
  <2>2. (\A i \in DOMAIN got : Known(got[i]))' /\ (conn.state = "mwrite" => Known(conn.out) /\ conn.out.of = conn.of)'
    BY <2>1 DEF LInv, Known
  <2>3. Reads(conn)'
    BY <2>1 DEF LInv, Reads, Req
  <2>4. (sasl /\ conn.authenticated /\ ~Over(conn) => LoggedIn(Answers))'
    BY <2>1 DEF LInv, Answers, Over, LoggedIn, LogsIn, Exchange
  <2>5. AuthenticatedOnly'
    BY <2>1 DEF LInv, AuthenticatedOnly, Refused, Req, LoggedIn, LogsIn, Exchange
  <2> QED
    BY <2>2, <2>3, <2>4, <2>5 DEF LInv
<1>2. CASE \E r \in Requests : Send(r)
  BY <1>2, SendLogin
<1>3. CASE conn_new
  BY <1>3, NewConnLogin
<1>4. CASE drive_machine
  BY <1>4, NetworkLogin, CommandLogin, ResetLogin, ReadLogin, SwallowLogin, WriteLogin, CloseLogin DEF drive_machine
<1> QED
  BY <1>1, <1>2, <1>3, <1>4 DEF Next

-----------------------------------------------------------------------------
(***************************************************************************)
(* The theorem of the login.                                               *)
(***************************************************************************)
\* With SASL enabled, dispatch_bin_command runs a command that needs a login only when the
\* last exchange answered (process_bin_complete_sasl_auth, bin_list_sasl_mechs) was one that
\* succeeded: whatever else the client sent in between, also half an exchange, or a second one
\* that failed, and whether or not there was memory.
THEOREM AuthenticatedOnlyHolds == Spec => []AuthenticatedOnly
<1>1. LInv => AuthenticatedOnly
  BY DEF LInv
<1> QED
  BY <1>1, InitLogin, NextLogin, Invariance, PTL DEF Spec
-----------------------------------------------------------------------------
(***************************************************************************)
(* The answers and the requests: the inductive invariant.                  *)
(***************************************************************************)
\* A quiet request has been answered only as it may be.
Honest(a) ==
  LET r == sent[a.of] IN
  r.quiet /\ Fits(r) /\ a.status # "auth_error" => (a.status = "ok" <=> r.cmd \in {"get", "touch"})

InOrder == \A i, j \in DOMAIN got : i < j => got[i].of < got[j].of

Done(n) == sent[n].quiet \/ n \in Answered

\* What the connection is at has been answered, or is going to be.
Attends(c) ==
  /\ \A i \in DOMAIN got : got[i].of \in 1..c.of /\ Honest(got[i])
  /\ \A n \in 1..c.of : n < c.of => Done(n)
  /\ c.state \in {"new_cmd", "read", "parse_cmd", "swallow"} /\ c.of # 0 => Done(c.of)
  /\ c.state \in {"nread", "mwrite"} => c.of # 0 /\ \A i \in DOMAIN got : got[i].of < c.of
  /\ c.state = "mwrite" => c.out.of = c.of /\ Honest(c.out)
  /\ c.state = "nread" => c.noreply = Req(c).quiet

TInv == Trusted(conn) => InOrder /\ Attends(conn)

-----------------------------------------------------------------------------
(***************************************************************************)
(* What a command that has memory tells of its request.                    *)
(***************************************************************************)
Told(c, d) ==
  /\ d.of = c.of /\ d.state \in {"mwrite", "new_cmd", "nread", "closing"}
  /\ d.state = "mwrite" => d.out.of = c.of /\ Honest(d.out)
  /\ d.state = "new_cmd" => Req(c).quiet
  /\ d.state = "nread" => d.noreply = Req(c).quiet

Serving(c) ==
  /\ ~mayFail /\ c \in Connection /\ c.of # 0 /\ Req(c) \in Requests
  /\ c.noreply = Req(c).quiet

LEMMA SaysTold ==
  ASSUME NEW c, NEW d, NEW status, Says(c, d, status),
         Req(c).quiet /\ Fits(Req(c)) /\ status # "auth_error" => (status = "ok" <=> Req(c).cmd \in {"get", "touch"})
  PROVE  Told(c, d)
BY DEF Says, Told, Honest, Req

LEMMA ErrorTold ==
  ASSUME NEW c, Serving(c), NEW status \in Statuses, NEW swallow \in Int, status # "ok",
         Req(c).cmd \notin {"get", "touch"} \/ ~Req(c).quiet \/ ~Fits(Req(c)) \/ status = "auth_error"
  PROVE  Told(c, write_bin_error(c, status, swallow)) /\ Told(c, SwallowAfter(c, status, swallow))
BY ErrorSays, SwallowSays, SaysTold DEF Serving

\* A quiet request that comes to this has succeeded, and says nothing.
LEMMA ResponseTold ==
  ASSUME NEW c, Serving(c)
  PROVE  Told(c, write_bin_response(c))
<1>1. c \in Connection /\ c.noreply = Req(c).quiet /\ "ok" \in Statuses /\ Req(c).quiet \in BOOLEAN
  BY RequestLengths DEF Serving, Statuses, Request
<1>2. CASE ~c.noreply
  BY <1>1, <1>2, AnswerSays, SaysTold DEF write_bin_response
<1>3. CASE c.noreply
  <2> DEFINE d == [c EXCEPT !.state = "new_cmd"]
  <2>1. d.of = c.of /\ d.state = "new_cmd"
    BY <1>1 DEF Connection
  <2>2. write_bin_response(c) = d
    BY <1>3 DEF write_bin_response
  <2> HIDE DEF d
  <2> QED
    BY <1>1, <1>3, <2>1, <2>2 DEF Told
<1> QED
  BY <1>2, <1>3

LEMMA UnlessTold ==
  ASSUME NEW c, Serving(c), Req(c).cmd \notin {"get", "touch"}, NEW d, Told(c, d), NEW b \in Unless(d, c)
  PROVE  Told(c, b.conn)
<1>1. "error" \in Statuses /\ 0 \in Int
  BY DEF Statuses
<1>2. Told(c, write_bin_error(c, "error", 0))
  BY <1>1, ErrorTold
<1>3. b.conn = d \/ b.conn = write_bin_error(c, "error", 0)
  BY DEF Unless, Becomes
<1> QED
  BY <1>2, <1>3

LEMMA GetTold ==
  ASSUME NEW c, Serving(c), Req(c).cmd \in {"get", "touch"}, NEW b \in process_bin_get_or_touch(c)
  PROVE  Told(c, b.conn)
<1>1. c \in Connection /\ c.noreply = Req(c).quiet /\ "ok" \in Statuses /\ "error" \in Statuses /\ 0 \in Int
  BY DEF Serving, Statuses
<1>2. CASE b = [conn |-> [Answer(c, "ok") EXCEPT !.item = TRUE], taken |-> 1]
  <2> DEFINE e == Answer(c, "ok")
             d == [e EXCEPT !.item = TRUE]
  <2>1. Says(c, e, "ok")
    BY <1>1, AnswerSays
  <2> HIDE DEF e
  <2>2. Says(c, d, "ok")
    BY <2>1 DEF Connection, Says
  <2>3. b.conn = d
    BY <1>2 DEF e
  <2> HIDE DEF d
  <2> QED
    BY <2>2, <2>3, SaysTold
<1>3. CASE ~c.noreply /\ b = Becomes(write_bin_error(c, "error", 0))
  <2>1. Told(c, write_bin_error(c, "error", 0))
    BY <1>1, <1>3, ErrorTold
  <2> QED
    BY <1>3, <2>1 DEF Becomes
<1>4. CASE c.noreply /\ b = Becomes([c EXCEPT !.state = "new_cmd"])
  <2>1. b.conn = write_bin_response(c)
    BY <1>4 DEF Becomes, write_bin_response
  <2> QED
    BY <2>1, ResponseTold
<1> QED
  BY <1>2, <1>3, <1>4 DEF process_bin_get_or_touch

LEMMA UploadTold ==
  ASSUME NEW c, Serving(c), NEW substate
  PROVE  Told(c, Upload(c, substate).conn)
<1> DEFINE d == Upload(c, substate).conn
<1>1. d.state = "nread" /\ d.of = c.of /\ d.noreply = c.noreply
  BY DEF Serving, Upload, Connection
<1> HIDE DEF d
<1>2. Told(c, d)
  BY <1>1 DEF Serving, Told
<1> QED
  BY <1>2 DEF d

LEMMA TooLargeTold ==
  ASSUME NEW c, Serving(c), Req(c).cmd \notin {"get", "touch"}, NEW status \in {"E2BIG", "ENOMEM"},
         NEW b \in TooLarge(c, status)
  PROVE  Told(c, b.conn)
<1>1. status \in Statuses /\ vlen(c) \in Int
  BY RequestLengths DEF Serving, Statuses, vlen
<1>2. b.conn = SwallowAfter(c, status, vlen(c))
  BY DEF TooLarge, Becomes
<1> QED
  BY <1>1, <1>2, ErrorTold

LEMMA UpdateTold ==
  ASSUME NEW c, Serving(c), Req(c).cmd \in {"set", "append"}, NEW b \in process_bin_update(c)
  PROVE  Told(c, b.conn)
<1>1. b = Upload(c, "value") \/ b \in TooLarge(c, "E2BIG")
  BY DEF Serving, process_bin_update, Without
<1> QED
  BY <1>1, UploadTold, TooLargeTold

LEMMA SaslAuthTold ==
  ASSUME NEW c, Serving(c), Req(c).cmd \in {"sasl_auth", "sasl_step"}, NEW b \in process_bin_sasl_auth(c)
  PROVE  Told(c, b.conn)
<1>1. {"unknown", "EINVAL"} \subseteq Statuses /\ vlen(c) \in Int
  BY RequestLengths DEF Serving, Statuses, vlen
<1>2. /\ Told(c, write_bin_error(c, "unknown", vlen(c))) /\ Told(c, SwallowAfter(c, "EINVAL", vlen(c)))
      /\ Told(c, Upload(c, "auth_data").conn)
  BY <1>1, ErrorTold, UploadTold
<1>3. \/ b \in TooLarge(c, "ENOMEM")
      \/ b.conn \in {write_bin_error(c, "unknown", vlen(c)), SwallowAfter(c, "EINVAL", vlen(c)),
                     Upload(c, "auth_data").conn}
  BY DEF Serving, process_bin_sasl_auth, Without, Becomes
<1> QED
  BY <1>2, <1>3, TooLargeTold

\* One that has been changed in what is of no matter to its request.
LEMMA ServingFrom ==
  ASSUME NEW c, Serving(c), NEW e \in Connection, e.of = c.of, e.noreply = c.noreply
  PROVE  Serving(e) /\ Req(e) = Req(c) /\ (\A d : Told(e, d) => Told(c, d))
<1>1. Req(e) = Req(c)
  BY DEF Req
<1> QED
  BY <1>1 DEF Serving, Told

LEMMA CompleteUpdateTold ==
  ASSUME NEW c, Serving(c), Req(c).cmd \in {"set", "append"}, NEW b \in complete_update_bin(c)
  PROVE  Told(c, b.conn)
<1> DEFINE e == [c EXCEPT !.item = FALSE]
<1>1. e \in Connection /\ e.of = c.of /\ e.noreply = c.noreply
  BY DEF Serving, Connection
<1>2. PICK u \in Unless(write_bin_response(e), e) : b = [u EXCEPT !.taken = -1]
  BY DEF complete_update_bin
<1> HIDE DEF e
<1>3. Serving(e) /\ Req(e) = Req(c) /\ (\A d : Told(e, d) => Told(c, d))
  BY <1>1, ServingFrom
<1>4. Told(e, u.conn)
  BY <1>2, <1>3, ResponseTold, UnlessTold
<1>5. b.conn = u.conn
  BY <1>2 DEF Unless, Becomes
<1> QED
  BY <1>3, <1>4, <1>5

\* An exchange is of a request that is not quiet.
LEMMA CompleteSaslTold ==
  ASSUME NEW c, Serving(c), Req(c).cmd \in {"sasl_auth", "sasl_step"},
         NEW b \in process_bin_complete_sasl_auth(c)
  PROVE  Told(c, b.conn)
<1> DEFINE e == init_sasl_conn(c)
           f == [e EXCEPT !.authenticated = TRUE]
<1>1. ~Req(c).quiet /\ {"continue", "auth_error"} \subseteq Statuses /\ 0 \in Int
  BY RequestsAssumption DEF Serving, Statuses
<1>2. e \in Connection /\ e.of = c.of /\ e.noreply = c.noreply
  BY DEF Serving, init_sasl_conn, Connection
<1>3. b.conn \in {write_bin_response(f), Answer(e, "continue"), write_bin_error(e, "auth_error", 0)}
  BY DEF process_bin_complete_sasl_auth, Becomes
<1> HIDE DEF e
<1>4. f \in Connection /\ f.of = c.of /\ f.noreply = c.noreply
  BY <1>2 DEF Connection
<1> HIDE DEF f
<1>5. Serving(e) /\ Serving(f) /\ Req(e) = Req(c) /\ (\A d : Told(e, d) \/ Told(f, d) => Told(c, d))
  BY <1>2, <1>4, ServingFrom
<1>6. Told(f, write_bin_response(f)) /\ Told(e, write_bin_error(e, "auth_error", 0))
  BY <1>1, <1>5, ResponseTold, ErrorTold
<1>7. Told(e, Answer(e, "continue"))
  BY <1>1, <1>2, <1>5, AnswerSays, SaysTold
<1> QED
  BY <1>3, <1>5, <1>6, <1>7

LEMMA CompleteTold ==
  ASSUME NEW c, Serving(c), Reading(c), c.substate # "none", NEW b \in complete_nread_binary(c)
  PROVE  Told(c, b.conn)
<1>1. c.substate \in {"key", "value", "auth_data"} /\ "ok" \in Statuses /\ c \in Connection
  BY DEF Reading, Connection, Statuses
<1>2. CASE c.substate = "value"
  BY <1>2, CompleteUpdateTold DEF complete_nread_binary, Reading, Reads
<1>3. CASE c.substate = "auth_data"
  BY <1>3, CompleteSaslTold DEF complete_nread_binary, Reading, Reads
<1>4. CASE c.substate = "key"
  <2>1. Req(c).cmd \in Keyed
    BY <1>4 DEF Reading, Reads
  <2>2. CASE Req(c).cmd \in {"delete", "incr", "flush"}
    <3>1. b \in Unless(write_bin_response(c), c)
      BY <1>4, <2>2 DEF complete_nread_binary, complete_incr_bin, process_bin_delete, process_bin_flush, Serving, Without
    <3> QED
      BY <2>2, <3>1, ResponseTold, UnlessTold
  <2>3. CASE Req(c).cmd = "stat"
    <3>1. b \in Unless(Answer(c, "ok"), c)
      BY <1>4, <2>3 DEF complete_nread_binary, process_bin_stat, Serving, Without
    <3>2. ~Req(c).quiet
      BY <2>3, RequestsAssumption DEF Serving
    <3>3. Told(c, Answer(c, "ok"))
      BY <1>1, <3>2, AnswerSays, SaysTold
    <3> QED
      BY <2>3, <3>1, <3>3, UnlessTold
  <2>4. CASE Req(c).cmd \in {"get", "touch"}
    BY <1>4, <2>4, GetTold DEF complete_nread_binary
  <2>5. CASE Req(c).cmd \in {"set", "append"}
    BY <1>4, <2>5, UpdateTold DEF complete_nread_binary
  <2>6. CASE Req(c).cmd \in {"sasl_auth", "sasl_step"}
    BY <1>4, <2>6, SaslAuthTold DEF complete_nread_binary
  <2> QED
    BY <2>1, <2>2, <2>3, <2>4, <2>5, <2>6 DEF Keyed
<1> QED
  BY <1>1, <1>2, <1>3, <1>4

LEMMA ListTold ==
  ASSUME NEW c, Serving(c), Req(c).cmd = "sasl_list", NEW b \in bin_list_sasl_mechs(c)
  PROVE  Told(c, b.conn)
<1> DEFINE e == init_sasl_conn(c)
<1>1. {"unknown", "auth_error"} \subseteq Statuses /\ vlen(c) \in Int /\ 0 \in Int
  BY RequestLengths DEF Serving, Statuses, vlen
<1>2. e \in Connection /\ e.of = c.of /\ e.noreply = c.noreply
  BY DEF Serving, init_sasl_conn, Connection
<1>3. b.conn \in {write_bin_error(c, "unknown", vlen(c)), write_bin_response(e), write_bin_error(e, "auth_error", 0)}
  BY DEF bin_list_sasl_mechs, Becomes
<1> HIDE DEF e
<1>4. Serving(e) /\ (\A d : Told(e, d) => Told(c, d)) /\ Req(e) = Req(c)
  BY <1>2, ServingFrom
<1>5. Told(c, write_bin_error(c, "unknown", vlen(c))) /\ Told(e, write_bin_error(e, "auth_error", 0))
      /\ Told(e, write_bin_response(e))
  BY <1>1, <1>4, ErrorTold, ResponseTold
<1> QED
  BY <1>3, <1>4, <1>5

LEMMA ClosingTold ==
  ASSUME NEW c \in Connection
  PROVE  Told(c, [c EXCEPT !.state = "closing"])
<1> DEFINE d == [c EXCEPT !.state = "closing"]
<1>1. d.of = c.of /\ d.state = "closing"
  BY DEF Connection
<1> HIDE DEF d
<1>2. Told(c, d)
  BY <1>1 DEF Told
<1> QED
  BY <1>2 DEF d

LEMMA QuitTold ==
  ASSUME NEW c, Serving(c), Req(c).cmd = "quit"
  PROVE  Told(c, quit(c))
<1>1. c \in Connection /\ "ok" \in Statuses /\ c.noreply = Req(c).quiet
  BY DEF Serving, Statuses
<1>2. CASE c.noreply
  BY <1>1, <1>2, ClosingTold DEF quit
<1>3. CASE ~c.noreply
  <2>1. Says(c, write_bin_response(c), "ok")
    BY <1>1, <1>3, AnswerSays DEF write_bin_response
  <2>2. Says(c, [write_bin_response(c) EXCEPT !.write_and_go = "closing"], "ok")
    BY <2>1, GoesOn
  <2> QED
    BY <1>1, <1>3, <2>2, SaysTold DEF quit
<1> QED
  BY <1>2, <1>3

LEMMA ReadKeyTold ==
  ASSUME NEW c, Serving(c), NEW b \in bin_read_key(c, "key")
  PROVE  Told(c, b.conn)
<1> DEFINE d == [c EXCEPT !.substate = "key", !.rlbytes = Req(c).key, !.state = "nread"]
<1>1. d.of = c.of /\ d.state = "nread" /\ d.noreply = c.noreply
  BY DEF Serving, Connection
<1>2. b.conn = d
  BY DEF bin_read_key, Without, Becomes, Serving
<1> HIDE DEF d
<1> QED
  BY <1>1, <1>2 DEF Told, Serving

\* Whichever command was served before, what it told counts no more.
LEMMA DispatchTold ==
  ASSUME NEW c, ~mayFail, Dispatching(c), NEW b \in dispatch_bin_command(c)
  PROVE  Told(c, b.conn)
<1> DEFINE r == Req(c)
           d == [c EXCEPT !.noreply = r.quiet]
           refusal == [write_bin_error(c, "auth_error", 0) EXCEPT !.write_and_go = "closing"]
           invalid == [write_bin_error(d, "EINVAL", 0) EXCEPT !.write_and_go = "closing"]
<1>1. /\ c \in Connection /\ c.of # 0 /\ r \in Requests /\ r.quiet \in BOOLEAN /\ r.cmd \in Commands
      /\ {"auth_error", "EINVAL", "unknown"} \subseteq Statuses /\ 0 \in Int
      /\ "closing" \in {"new_cmd", "swallow", "closing"} /\ AsInt(r.key + r.value) \in Int
  BY RequestLengths DEF Dispatching, Statuses, Request
<1>2. d \in Connection /\ d.of = c.of /\ d.noreply = r.quiet
  BY <1>1 DEF Connection
<1>3. Req(d) = r
  BY <1>2 DEF Req
<1> HIDE DEF d
<1>4. Serving(d) /\ (\A e : Told(d, e) => Told(c, e))
  BY <1>1, <1>2, <1>3 DEF Serving, Told
<1>5. Told(c, refusal)
  <2>1. Says(c, write_bin_error(c, "auth_error", 0), "auth_error")
    BY <1>1, ErrorSays
  <2>2. Says(c, refusal, "auth_error")
    BY <1>1, <2>1, GoesOn
  <2> HIDE DEF refusal
  <2> QED
    BY <2>2, SaysTold
<1>6. ASSUME ~Fits(r) PROVE Told(d, invalid)
  <2>1. Says(d, write_bin_error(d, "EINVAL", 0), "EINVAL")
    BY <1>1, <1>2, ErrorSays
  <2>2. Says(d, invalid, "EINVAL")
    BY <1>1, <2>1, GoesOn
  <2> HIDE DEF invalid
  <2> QED
    BY <1>3, <1>6, <2>2, SaysTold
<1>7. \/ b.conn = refusal
      \/ ~Fits(r) /\ b.conn = invalid
      \/ b.conn = write_bin_response(d)
      \/ r.cmd = "quit" /\ b.conn = quit(d)
      \/ r.cmd = "sasl_list" /\ b \in bin_list_sasl_mechs(d)
      \/ r.cmd = "unknown" /\ b.conn = write_bin_error(d, "unknown", AsInt(r.key + r.value))
      \/ b \in bin_read_key(d, "key")
  BY DEF dispatch_bin_command, handle_binary_protocol_error, Becomes, d
<1> HIDE DEF refusal, invalid
<1>8. r.cmd = "unknown" => Told(d, write_bin_error(d, "unknown", AsInt(r.key + r.value)))
  BY <1>1, <1>3, <1>4, ErrorTold
<1> QED
  BY <1>3, <1>4, <1>5, <1>6, <1>7, <1>8, ResponseTold, QuitTold, ListTold, ReadKeyTold

-----------------------------------------------------------------------------
(***************************************************************************)
(* Steps.                                                                  *)
(***************************************************************************)
\* Nothing has been answered in this step, and d is what has become of the connection.
LEMMA KeepsTurn ==
  ASSUME TInv, UNCHANGED <<sasl, mayFail, sent, got>>, NEW d, conn' = d,
         Trusted(d) => Trusted(conn) /\ Attends(d)
  PROVE  TInv'
<1>1. Trusted(conn)' => Trusted(d)
  BY DEF Trusted, ProperUpTo, Proper
<1>2. ASSUME Trusted(d) PROVE Attends(conn)'
  BY <1>2 DEF Attends, Done, Answered, Honest, Req
<1>3. ASSUME Trusted(d) PROVE InOrder'
  BY <1>3 DEF TInv, InOrder
<1> QED
  BY <1>1, <1>2, <1>3 DEF TInv

\* A request that has not been answered, while those before it have.
Fresh(c) ==
  /\ c.of # 0
  /\ \A i \in DOMAIN got : got[i].of \in 1..c.of /\ got[i].of < c.of /\ Honest(got[i])
  /\ \A n \in 1..c.of : n < c.of => Done(n)

LEMMA ToldAttends ==
  ASSUME NEW c, Fresh(c), NEW d, Told(c, d)
  PROVE  Attends(d)
BY DEF Fresh, Told, Attends, Done, Req

LEMMA TurnIsFresh ==
  ASSUME Trusted(conn), TInv, conn.state \in {"nread", "mwrite"}
  PROVE  Fresh(conn)
BY DEF TInv, Attends, Fresh

\* The request stays, and what has been said of it.
LEMMA StaysInTurn ==
  ASSUME TInv, UNCHANGED <<sasl, mayFail, sent, got>>, NEW d, conn' = d,
         ~mayFail =>
           /\ d.of = conn.of
           /\ \/ conn.state \in {"new_cmd", "read", "parse_cmd", "swallow"}
                 /\ d.state \in {"new_cmd", "read", "parse_cmd", "swallow", "closing"}
              \/ conn.state = "nread" /\ d.state = "nread" /\ d.noreply = conn.noreply
              \/ d.state \in {"closing", "closed"}
  PROVE  TInv'
<1>1. ASSUME Trusted(d) PROVE Trusted(conn) /\ Attends(d)
  <2>1. ~mayFail /\ d.of = conn.of
    BY <1>1 DEF Trusted
  <2>2. Trusted(conn) /\ Req(d) = Req(conn)
    BY <1>1, <2>1, SameTrust DEF Req
  <2> QED
    BY <2>1, <2>2 DEF TInv, Attends
<1> QED
  BY <1>1, KeepsTurn

LEMMA InitTurn == Init => TInv
<1> SUFFICES ASSUME Init PROVE TInv
  OBVIOUS
<1>1. got = <<>> /\ conn.state = "new_cmd" /\ conn.of = 0
  BY DEF Init, Calloced
<1>2. DOMAIN got = {} /\ 1..conn.of = {}
  BY <1>1
<1> QED
  BY <1>1, <1>2 DEF TInv, InOrder, Attends

\* The next client has not been answered anything.
LEMMA NewConnTurn ==
  ASSUME conn_new
  PROVE  TInv'
<1>1. got' = <<>> /\ conn'.state = "new_cmd" /\ conn'.of = 0
  BY DEF conn_new, Calloced
<1>2. DOMAIN got' = {} /\ 1..conn'.of = {}
  BY <1>1
<1> QED
  BY <1>1, <1>2 DEF TInv, InOrder, Attends

LEMMA SendTurn ==
  ASSUME IInv, TInv, NEW r \in Requests, Send(r)
  PROVE  TInv'
<1>1. /\ sent \in Seq(Requests) /\ Len(sent) \in Nat /\ got \in Seq(Replies)
      /\ sent' = Append(sent, r) /\ UNCHANGED <<mayFail, conn, got>>
  BY DEF IInv, TypeOK, Send
<1>2. conn.of \in 0..Len(sent)
  BY DEF IInv, Sound, Serves, Placed
<1>3. Len(sent') = Len(sent) + 1 /\ \A n \in 1..Len(sent) : sent'[n] = sent[n]
  BY <1>1
<1>4. ASSUME Trusted(conn)' PROVE Attends(conn)' /\ InOrder'
  <2> Trusted(conn)
    BY <1>4, SendTrust
  <2>1. \A n \in 1..conn.of : sent'[n] = sent[n] /\ (Done(n) => Done(n)')
    BY <1>1, <1>2, <1>3 DEF Done, Answered
  <2>2. \A i \in DOMAIN got : got[i].of \in 1..conn.of /\ Honest(got[i])'
    BY <1>1, <2>1 DEF TInv, Attends, Honest
  <2>3. (conn.state = "mwrite" => conn.out.of = conn.of /\ Honest(conn.out))'
    BY <1>1, <1>2, <2>1 DEF TInv, Attends, Honest
  <2>4. (conn.state = "nread" => conn.noreply = Req(conn).quiet)'
    BY <1>1, <1>2, <2>1 DEF TInv, Attends, Req
  <2>5. (conn.state \in {"new_cmd", "read", "parse_cmd", "swallow"} /\ conn.of # 0 => Done(conn.of))'
    <3>1. conn.of # 0 => conn.of \in 1..conn.of
      BY <1>2
    <3> QED
      BY <1>1, <2>1, <3>1 DEF TInv, Attends
  <2>6. InOrder'
    BY <1>1 DEF TInv, InOrder
  <2> QED
    BY <1>1, <2>1, <2>2, <2>3, <2>4, <2>5, <2>6 DEF TInv, Attends
<1> QED
  BY <1>4 DEF TInv

LEMMA NetworkTurn ==
  ASSUME IInv, TInv, try_read_network
  PROVE  TInv'
<1>1. conn \in Connection /\ UNCHANGED <<sasl, mayFail, sent, got>> /\ conn.state = "read"
  BY DEF IInv, TypeOK, try_read_network, Machine
<1>2. ~mayFail => conn'.of = conn.of /\ conn'.state \in {"parse_cmd", "closing"}
  BY <1>1 DEF try_read_network, Connection
<1> DEFINE d == conn'
<1>3. conn' = d /\ (~mayFail => d.of = conn.of /\ d.state \in {"parse_cmd", "closing"})
  BY <1>2
<1> HIDE DEF d
<1> QED
  BY <1>1, <1>3, StaysInTurn

\* A request that begins where reading goes on comes after that which is being served.
LEMMA BeginsAfter ==
  ASSUME IInv, NEW n \in Beginning, conn.of # 0
  PROVE  conn.of < n
<1>1. /\ n \in 1..Len(sent) /\ End(n - 1) = conn.pos /\ conn.of \in 0..Len(sent) /\ Len(sent) \in Nat
      /\ End(conn.of - 1) < conn.pos
  BY DEF IInv, TypeOK, Sound, Serves, Placed, Beginning
<1>2. n - 1 \in 0..Len(sent) /\ conn.of - 1 \in 0..Len(sent)
  BY <1>1
<1>3. End(n - 1) \in Nat /\ End(conn.of - 1) \in Nat
  BY <1>2, EndIsNat DEF IInv
<1>4. ~(n - 1 < conn.of - 1)
  <2>1. n - 1 < conn.of - 1 => End(n - 1) < End(conn.of - 1)
    BY <1>2 DEF IInv, Stream, Increasing
  <2> QED
    BY <1>1, <1>3, <2>1
<1>5. n - 1 # conn.of - 1
  BY <1>1, <1>3
<1> QED
  BY <1>1, <1>4, <1>5

\* It is the next one.
LEMMA CommandTurn ==
  ASSUME IInv, TInv, try_read_command
  PROVE  TInv'
<1>1. /\ TypeOK /\ conn \in Connection /\ UNCHANGED <<sasl, mayFail, sent, got>>
      /\ conn.state = "parse_cmd" /\ sent \in Seq(Requests) /\ Len(sent) \in Nat
  <2>1. UNCHANGED <<sasl, mayFail, sent, got>> /\ conn.state = "parse_cmd"
    BY DEF try_read_command, Machine
  <2> QED
    BY <2>1 DEF IInv, TypeOK
<1>2. ASSUME NEW st \in {"read", "closing"}, conn' = [conn EXCEPT !.state = st]
      PROVE  TInv'
  <2> DEFINE d == [conn EXCEPT !.state = st]
  <2>1. conn' = d /\ d.of = conn.of /\ d.state = st
    BY <1>1, <1>2 DEF Connection
  <2> HIDE DEF d
  <2> QED
    BY <1>1, <2>1, StaysInTurn
<1>3. ASSUME conn.rbytes >= Header, NEW n \in Beginning,
             NEW b \in dispatch_bin_command([conn EXCEPT !.of = n, !.pos = @ + Header, !.rbytes = @ - Header]),
             conn' = b.conn
      PROVE  TInv'
  <2> DEFINE pos == conn.pos + Header
             rbytes == conn.rbytes - Header
             c == [conn EXCEPT !.of = n, !.pos = pos, !.rbytes = rbytes]
             d == b.conn
  <2>1. pos \in Nat /\ rbytes \in Nat
    BY <1>1, <1>3 DEF Header, Connection
  <2>2. b \in dispatch_bin_command(c)
    BY <1>1, <1>3 DEF Connection
  <2>3. n \in 1..Len(sent) /\ n \in Nat /\ n # 0 /\ sent[n] \in Requests /\ End(n - 1) = conn.pos
    BY <1>1 DEF Beginning
  <2> HIDE DEF pos, rbytes
  <2>4. c \in Connection /\ c.of = n
    BY <1>1, <2>1, <2>3 DEF Connection
  <2> HIDE DEF c
  <2>5. Dispatching(c)
    BY <2>3, <2>4 DEF Dispatching, Req
  <2>6. conn.of \in 0..Len(sent) /\ (conn.of # 0 => conn.of < n)
    BY BeginsAfter DEF IInv, Sound, Serves, Placed
  <2>7. ASSUME Trusted(d) PROVE Trusted(conn) /\ Attends(d)
    <3>1. d.of = n /\ ~mayFail
      BY <2>2, <2>4, <2>5, <2>7, DispatchLogged DEF Logged, Trusted
    <3>2. Trusted(conn)
      <4>1. \A m \in 1..conn.of : m \in 1..n
        BY <2>3, <2>6
      <4> QED
        BY <2>7, <3>1, <4>1 DEF Trusted, ProperUpTo
    <3>3. End(conn.of) = End(n - 1)
      BY <1>1, <2>3, <3>2 DEF IInv, Sound, Located
    <3>4. n = conn.of + 1
      <4>1. n - 1 \in 0..Len(sent) /\ conn.of \in 0..Len(sent)
        BY <1>1, <2>3, <2>6
      <4>2. conn.of < n - 1 => End(conn.of) < End(n - 1)
        BY <4>1 DEF IInv, Stream, Increasing
      <4>3. End(n - 1) \in Nat
        BY <1>1, <4>1, EndIsNat DEF IInv
      <4> QED
        BY <2>3, <2>6, <3>3, <4>1, <4>2, <4>3
    <3>5. \A i \in DOMAIN got : got[i].of \in 1..n /\ got[i].of < n /\ Honest(got[i])
      BY <2>6, <3>2, <3>4 DEF TInv, Attends
    <3>6. ASSUME NEW m \in 1..n, m < n PROVE Done(m)
      <4>1. m \in 1..conn.of /\ conn.of # 0
        BY <2>6, <3>4, <3>6
      <4>2. m = conn.of \/ m < conn.of
        BY <2>6, <4>1
      <4> QED
        BY <1>1, <3>2, <4>1, <4>2 DEF TInv, Attends
    <3>7. Fresh(c)
      BY <2>3, <2>4, <3>5, <3>6 DEF Fresh
    <3> QED
      BY <2>2, <2>5, <3>1, <3>2, <3>7, DispatchTold, ToldAttends
  <2>8. conn' = d
    BY <1>3
  <2> HIDE DEF d
  <2> QED
    BY <1>1, <2>7, <2>8, KeepsTurn
<1> QED
  BY <1>2, <1>3 DEF try_read_command

LEMMA ResetTurn ==
  ASSUME IInv, TInv, reset_cmd_handler
  PROVE  TInv'
<1> DEFINE d == conn'
<1>1. conn \in Connection /\ UNCHANGED <<sasl, mayFail, sent, got>> /\ conn.state = "new_cmd"
  BY DEF IInv, TypeOK, reset_cmd_handler, Machine
<1>2. d.of = conn.of /\ d.state \in {"read", "parse_cmd"} /\ conn' = d
  BY <1>1 DEF reset_cmd_handler, Connection
<1> HIDE DEF d
<1> QED
  BY <1>1, <1>2, StaysInTurn

LEMMA CloseTurn ==
  ASSUME IInv, TInv, conn_close
  PROVE  TInv'
<1> DEFINE d == conn'
<1>1. conn \in Connection /\ UNCHANGED <<sasl, mayFail, sent, got>>
  BY DEF IInv, TypeOK, conn_close, Machine
<1>2. d.of = conn.of /\ d.state = "closed" /\ conn' = d
  BY <1>1 DEF conn_close, Connection
<1> HIDE DEF d
<1> QED
  BY <1>1, <1>2, StaysInTurn

LEMMA TakeKeeps ==
  ASSUME NEW c \in Connection, NEW n \in Nat
  PROVE  Take(c, n).of = c.of /\ Take(c, n).state = c.state /\ Take(c, n).noreply = c.noreply
BY DEF Take, Connection

LEMMA ReadTurn ==
  ASSUME IInv, LInv, TInv, conn_nread
  PROVE  TInv'
<1>1. /\ TypeOK /\ conn \in Connection /\ UNCHANGED <<sasl, mayFail, sent, got>>
      /\ conn.state = "nread" /\ sent \in Seq(Requests) /\ Len(sent) \in Nat
      /\ conn.rlbytes \in Int /\ conn.rbytes \in Nat /\ Reads(conn)
  BY DEF IInv, TypeOK, conn_nread, Machine, Connection, LInv
<1>2. ASSUME NEW b \in complete_nread_binary(conn), conn' = b.conn
      PROVE  TInv'
  <2> DEFINE d == b.conn
  <2>1. conn.of \in 1..Len(sent) /\ conn.of # 0 /\ conn.substate # "none"
    BY <1>1 DEF IInv, Sound, Serves, Placed, Holds
  <2>2. Reading(conn)
    BY <1>1, <2>1 DEF Reading, Req
  <2>3. ASSUME Trusted(d) PROVE Trusted(conn) /\ Attends(d)
    <3>1. d.of = conn.of
      BY <1>2, <2>1, <2>2, CompleteLogged DEF Logged
    <3>2. Trusted(conn) /\ ~mayFail
      BY <2>3, <3>1, SameTrust DEF Trusted
    <3>3. Fresh(conn)
      BY <1>1, <3>2, TurnIsFresh
    <3>4. Serving(conn)
      BY <1>1, <2>1, <2>2, <3>2 DEF Serving, Reading, TInv, Attends
    <3> QED
      BY <1>2, <2>1, <2>2, <3>2, <3>3, <3>4, CompleteTold, ToldAttends
  <2>4. conn' = d
    BY <1>2
  <2> HIDE DEF d
  <2> QED
    BY <1>1, <2>3, <2>4, KeepsTurn
<1>3. ASSUME conn' = [conn EXCEPT !.state = "closing"]
      PROVE  TInv'
  <2> DEFINE d == conn'
  <2>1. d.of = conn.of /\ d.state = "closing" /\ conn' = d
    BY <1>1, <1>3 DEF Connection
  <2> HIDE DEF d
  <2> QED
    BY <1>1, <2>1, StaysInTurn
<1>4. ASSUME conn.rlbytes > 0, NEW n \in Takes(conn.rlbytes), conn' = Take([conn EXCEPT !.rlbytes = @ - n], n)
      PROVE  TInv'
  <2> DEFINE rest == conn.rlbytes - n
             c == [conn EXCEPT !.rlbytes = rest]
             d == Take(c, n)
  <2>1. n \in 1..conn.rlbytes /\ n \in Nat
    <3>1. conn.rlbytes \in Nat
      BY <1>1, <1>4
    <3> QED
      BY <1>1, <1>4, <3>1, TakesBounds
  <2>2. conn' = d
    BY <1>1, <1>4 DEF Connection
  <2>3. rest \in Int
    BY <1>1, <2>1
  <2> HIDE DEF rest
  <2>4. c \in Connection /\ c.state = conn.state /\ c.of = conn.of /\ c.noreply = conn.noreply
    BY <1>1, <2>3 DEF Connection
  <2> HIDE DEF c
  <2>5. d.state = "nread" /\ d.of = conn.of /\ d.noreply = conn.noreply
    BY <1>1, <2>1, <2>4, TakeKeeps
  <2> HIDE DEF d
  <2> QED
    BY <1>1, <2>2, <2>5, StaysInTurn
<1> QED
  BY <1>2, <1>3, <1>4 DEF conn_nread, Ends

LEMMA SwallowTurn ==
  ASSUME IInv, TInv, conn_swallow
  PROVE  TInv'
<1>1. /\ conn \in Connection /\ UNCHANGED <<sasl, mayFail, sent, got>>
      /\ conn.state = "swallow" /\ conn.sbytes \in Nat /\ conn.rbytes \in Nat
  BY DEF IInv, TypeOK, conn_swallow, Machine, Connection
<1>2. ASSUME NEW st \in {"new_cmd", "closing"}, conn' = [conn EXCEPT !.state = st]
      PROVE  conn'.of = conn.of /\ conn'.state \in {"new_cmd", "swallow", "closing"}
  BY <1>1, <1>2 DEF Connection
<1>3. ASSUME conn.sbytes > 0, NEW n \in Takes(conn.sbytes), conn' = Take([conn EXCEPT !.sbytes = @ - n], n)
      PROVE  conn'.of = conn.of /\ conn'.state \in {"new_cmd", "swallow", "closing"}
  <2> DEFINE rest == conn.sbytes - n
             c == [conn EXCEPT !.sbytes = rest]
  <2>1. n \in 1..conn.sbytes /\ n \in Nat
    BY <1>1, <1>3, TakesBounds
  <2>2. conn' = Take(c, n)
    BY <1>1, <1>3 DEF Connection
  <2>3. rest \in Nat
    BY <1>1, <2>1
  <2> HIDE DEF rest
  <2>4. c \in Connection /\ c.state = conn.state /\ c.of = conn.of
    BY <1>1, <2>3 DEF Connection
  <2> HIDE DEF c
  <2> QED
    BY <1>1, <2>1, <2>2, <2>4, TakeKeeps
<1> DEFINE d == conn'
<1>4. d.of = conn.of /\ d.state \in {"new_cmd", "swallow", "closing"} /\ conn' = d
  BY <1>2, <1>3 DEF conn_swallow, Ends
<1> HIDE DEF d
<1> QED
  BY <1>1, <1>4, StaysInTurn

\* The answer is the first to its request, and the last so far.
LEMMA WriteTurn ==
  ASSUME IInv, TInv, conn_mwrite
  PROVE  TInv'
<1>1. /\ conn \in Connection /\ UNCHANGED <<sasl, mayFail, sent>> /\ got \in Seq(Replies)
      /\ conn.state = "mwrite" /\ conn.out \in Replies /\ conn.of \in Nat
  BY DEF IInv, TypeOK, conn_mwrite, Machine, Sound, Holds, Connection
<1>2. ASSUME conn' = [conn EXCEPT !.out = None, !.state = "closing"], got' = got
      PROVE  TInv'
  <2> DEFINE d == conn'
  <2>1. d.of = conn.of /\ d.state = "closing" /\ conn' = d
    BY <1>1, <1>2 DEF Connection
  <2> HIDE DEF d
  <2> QED
    BY <1>1, <1>2, <2>1, StaysInTurn
<1>3. ASSUME conn' = [conn EXCEPT !.out = None, !.item = FALSE, !.state = conn.write_and_go],
             got' = Append(got, conn.out)
      PROVE  TInv'
  <2> DEFINE d == conn'
             all == Append(got, conn.out)
  <2>1. d.of = conn.of /\ d.state \in {"new_cmd", "swallow", "closing"}
    BY <1>1, <1>3 DEF Connection
  <2>2. \A i \in DOMAIN all : (i \in DOMAIN got /\ all[i] = got[i]) \/ (i = Len(got) + 1 /\ all[i] = conn.out)
    BY <1>1
  <2>3. Len(got) \in Nat /\ DOMAIN got = 1..Len(got) /\ DOMAIN all = 1..(Len(got) + 1)
        /\ (\A i \in DOMAIN got : all[i] = got[i]) /\ all[Len(got) + 1] = conn.out
    BY <1>1
  <2>4. conn' = d /\ got' = all
    BY <1>3
  <2> HIDE DEF d
  <2> HIDE DEF all
  <2>5. Trusted(conn)' => Trusted(conn)
    BY <1>1, <2>1, <2>4 DEF Trusted, ProperUpTo, Proper
  <2>6. ASSUME Trusted(conn) PROVE InOrder' /\ Attends(conn)'
    <3>1. /\ conn.out.of = conn.of /\ Honest(conn.out) /\ conn.of # 0
          /\ \A i \in DOMAIN got : got[i].of \in 1..conn.of /\ got[i].of < conn.of /\ Honest(got[i])
      BY <1>1, <2>6 DEF TInv, Attends
    <3>2. \A n : n \in Answered \/ n = conn.of => n \in Answered'
      BY <2>3, <2>4, <3>1 DEF Answered
    <3>3. \A n : Done(n) \/ n = conn.of => Done(n)'
      BY <1>1, <3>2 DEF Done
    <3>4. InOrder'
      <4>1. SUFFICES ASSUME NEW i \in DOMAIN all, NEW j \in DOMAIN all, i < j
                     PROVE  all[i].of < all[j].of
        BY <2>4 DEF InOrder
      <4>2. i \in DOMAIN got /\ all[i] = got[i]
        BY <2>3, <4>1
      <4>3. CASE j \in DOMAIN got
        BY <2>3, <2>6, <4>1, <4>2, <4>3 DEF TInv, InOrder
      <4>4. CASE j = Len(got) + 1
        BY <2>3, <3>1, <4>2, <4>4
      <4> QED
        BY <2>2, <4>3, <4>4
    <3>5. \A i \in DOMAIN all : all[i].of \in 1..conn.of /\ Honest(all[i])
      BY <1>1, <2>2, <3>1
    <3>6. (\A i \in DOMAIN got : got[i].of \in 1..conn.of /\ Honest(got[i]))'
      BY <1>1, <2>1, <2>4, <3>5 DEF Honest
    <3>7. \A n \in 1..conn.of : n < conn.of => Done(n)
      BY <2>6 DEF TInv, Attends
    <3>8. (\A n \in 1..conn.of : n < conn.of => Done(n))'
      BY <2>1, <2>4, <3>3, <3>7
    <3>9. (conn.state \in {"new_cmd", "read", "parse_cmd", "swallow"} /\ conn.of # 0 => Done(conn.of))'
      BY <2>1, <2>4, <3>3
    <3>10. Attends(conn)'
      BY <2>1, <2>4, <3>6, <3>8, <3>9 DEF Attends
    <3> QED
      BY <3>4, <3>10
  <2> QED
    BY <2>5, <2>6 DEF TInv
<1> QED
  BY <1>2, <1>3 DEF conn_mwrite

LEMMA NextTurn == IInv /\ LInv /\ TInv /\ [Next]_vars => TInv'
<1> SUFFICES ASSUME IInv, LInv, TInv, [Next]_vars PROVE TInv'
  OBVIOUS
<1>1. CASE UNCHANGED vars \/ Leave
  <2> DEFINE d == conn
  <2>1. UNCHANGED <<sasl, mayFail, sent, got>> /\ conn' = d /\ (Trusted(d) => Trusted(conn) /\ Attends(d))
    BY <1>1 DEF vars, Leave, TInv
  <2> HIDE DEF d
  <2> QED
    BY <2>1, KeepsTurn
<1>2. CASE \E r \in Requests : Send(r)
  BY <1>2, SendTurn
<1>3. CASE conn_new
  BY <1>3, NewConnTurn
<1>4. CASE drive_machine
  BY <1>4, NetworkTurn, CommandTurn, ResetTurn, ReadTurn, SwallowTurn, WriteTurn, CloseTurn DEF drive_machine
<1> QED
  BY <1>1, <1>2, <1>3, <1>4 DEF Next

-----------------------------------------------------------------------------
(***************************************************************************)
(* The theorem of the answers.                                             *)
(***************************************************************************)
\* Unless the process runs out of memory, the answers a client gets that keeps to Proper come in
\* the order in which drive_machine read its requests, none twice; when it looks for the next
\* request, each before has been answered but quiet ones; and by what a quiet request says or does
\* not say, its client can tell how it went (write_bin_response, write_bin_error,
\* process_bin_get_or_touch): however many requests there are, however the stream was cut, and
\* whatever the connection has kept of the clients before (conn_new).
THEOREM AnswersInTurnHolds == Spec => []AnswersInTurn
<1>1. IInv /\ TInv => AnswersInTurn
  <2> SUFFICES ASSUME IInv, TInv, Trusted(conn)
               PROVE  /\ InOrder
                      /\ \A n \in 1..conn.of : ~sent[n].quiet /\ (n < conn.of \/ BetweenCommands) => n \in Answered
                      /\ \A i \in DOMAIN got : Honest(got[i])
    BY DEF AnswersInTurn, InOrder, Honest, Trusted
  <2>1. Attends(conn) /\ InOrder /\ conn.of \in Nat
    BY DEF TInv, IInv, Sound, Connection
  <2>2. ASSUME NEW n \in 1..conn.of, ~sent[n].quiet, n < conn.of \/ BetweenCommands PROVE n \in Answered
    <3>1. n < conn.of \/ (n = conn.of /\ conn.of # 0 /\ BetweenCommands)
      BY <2>1, <2>2
    <3>2. Done(n)
      BY <2>1, <3>1 DEF Attends, BetweenCommands
    <3> QED
      BY <2>2, <3>2 DEF Done
  <2> QED
    BY <2>1, <2>2 DEF Attends
<1> QED
  BY <1>1, InitLogin, NextLogin, InitTurn, NextTurn, Invariance, PTL DEF Spec
=============================================================================
