------------------------------- MODULE MCConfig -------------------------------
(***************************************************************************)
(* Instances of Config for TLC.  Times are in ticks of 10 s: the defaults  *)
(* write_timeout 30 s and exec.default_timeout_ms 30000 are 3 of them; 5 s *)
(* of waitDelay and 200 ms of reaping are within one.                      *)
(***************************************************************************)
EXTENDS Config

Text(k) == [kind |-> "text", n |-> k]
Number(k) == [kind |-> "number", n |-> k]
Bad == [kind |-> "bad", n |-> 0]

\* 0600; an upload limit below the ceiling; a maximum timeout of 50 s.
Defaults == [addr |-> TRUE, read |-> Text(3), write |-> Text(3),
             body |-> 14, file |-> 5, total |-> 0, mode |-> 384,
             defaultTimeout |-> 3, maxTimeout |-> 5]

\* Any two sizes; any two timeouts; or one other key changed.
AnyWritten ==
    {[Defaults EXCEPT !.body = b, !.file = f] : b \in Int64, f \in -1 .. 9}
    \cup {[Defaults EXCEPT !.write = w, !.defaultTimeout = d, !.maxTimeout = m] :
            w \in {Text(0), Text(2), Text(7), Number(5), Bad},
            d \in {-1, 2, 4}, m \in {0, 1, 3}}
    \cup {[Defaults EXCEPT !.mode = m] : m \in {-1, 384, 438, 511, 1536, 4096}}
    \cup {[Defaults EXCEPT !.addr = FALSE], [Defaults EXCEPT !.read = Bad],
          [Defaults EXCEPT !.total = -1], [Defaults EXCEPT !.total = 1]}

NoneWritten == {Defaults}
SomeSizes == 0 .. 12
SomeBreaks == {0, 1, 4}
SomeEnvelopes == {0, 1, 2, 5}
SomeRuns == {0, 1, 3, 9}
SomeAsked == {-1, 0, 1, 5, 6}
===============================================================================
