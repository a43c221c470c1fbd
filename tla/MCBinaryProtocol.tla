---------------------------- MODULE MCBinaryProtocol ----------------------------
EXTENDS BinaryProtocol

Loud(cmd, key, value) == [cmd |-> cmd, quiet |-> FALSE, key |-> key, value |-> value, long |-> FALSE]
Quiet(cmd, key, value) == [Loud(cmd, key, value) EXCEPT !.quiet = TRUE]
LongName(cmd, value) == [Loud(cmd, 1, value) EXCEPT !.long = TRUE]

\* Every command, those with a quiet variant in one of the two or in both.
EveryCommand ==
  {Loud("get", 1, 0), Quiet("get", 1, 0), Quiet("touch", 1, 0), Loud("set", 1, 2), Quiet("set", 1, 1),
   Quiet("delete", 1, 0), Loud("incr", 1, 0), Loud("noop", 0, 0), Loud("version", 0, 0), Quiet("flush", 1, 0),
   Loud("stat", 0, 0), Loud("quit", 0, 0), Quiet("quit", 0, 0), Loud("unknown", 1, 1),
   Loud("sasl_list", 0, 0), Loud("sasl_auth", 1, 1), Loud("sasl_step", 1, 0), LongName("sasl_auth", 1)}
  \cup {Loud("noop", 1, 0)}       \* with lengths it does not take

\* What no client should send: a name that is too long without data, a body shorter than its key,
\* values where there are none, and bodies of half a word and more.
Improper ==
  {LongName("sasl_auth", 0), Loud("append", 1, -1), Loud("touch", 1, 1), Loud("set", 1, 3), Loud("unknown", 1, 2)}

AnyRequest == EveryCommand \cup Improper
=============================================================================
