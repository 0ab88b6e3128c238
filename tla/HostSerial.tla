----------------------------- MODULE HostSerial -----------------------------
(***************************************************************************)
(* pkg/converter/converter.go, GroupHostBySerial: how the hosts of a play  *)
(* are cut into batches that run one after the other.  An entry of serial  *)
(* is a number of hosts, or a percentage of them; the last entry repeats.  *)
(* The Go function returns batches or an error, or panics on a slice whose *)
(* bounds are out of order.                                                *)
(***************************************************************************)
EXTENDS Integers, Sequences

\* A batch size as it is written: int (or a string of digits), or percent.
SerialEntry(nums) == [percent : BOOLEAN, n : nums]

CeilDiv(x, y) == (x + y - 1) \div y

\* math.Ceil(len(hosts) * b / 100).
SizeOf(e, n) == IF e.percent THEN CeilDiv(n * e.n, 100) ELSE e.n

Sizes(serial, n) == [i \in DOMAIN serial |-> SizeOf(serial[i], n)]

\* The sum of the first k sizes.
SumUpTo(sizes) ==
    LET sum[k \in 0..Len(sizes)] == IF k = 0 THEN 0 ELSE sum[k - 1] + sizes[k]
    IN sum

\* Mutant: the rest of the hosts is divided without rounding up.
RepeatsRoundedDown(sizes, n) ==
    LET left == n - SumUpTo(sizes)[Len(sizes)]
        last == sizes[Len(sizes)]
    IN IF left > 0 /\ last > 0 THEN left \div last ELSE 0

\* How often the last size is appended until the hosts are used up.
Repeats(sizes, n) ==
    LET left == n - SumUpTo(sizes)[Len(sizes)]
        last == sizes[Len(sizes)]
    IN IF left > 0 /\ last > 0 THEN CeilDiv(left, last) ELSE 0

Extended(sizes, n) ==
    sizes \o [i \in 1..Repeats(sizes, n) |-> sizes[Len(sizes)]]

\* The ends of the slices: clamped to the number of hosts at every step.
Ends(sizes, n) ==
    LET end[k \in 0..Len(sizes)] ==
          IF k = 0 THEN 0
          ELSE IF end[k - 1] + sizes[k] > n THEN n ELSE end[k - 1] + sizes[k]
    IN end

\* The begins of the slices: never clamped.
Begins(sizes) == [k \in DOMAIN sizes |-> SumUpTo(sizes)[k - 1]]

\* The outcomes of the call: batches, an error, or a panic.
Batches(b) == [kind |-> "ok", batches |-> b]
SerialError == [kind |-> "error", batches |-> << >>]
SerialPanic == [kind |-> "panic", batches |-> << >>]

GroupHostBySerial(hosts, serial) ==
    LET n     == Len(hosts)
        given == Sizes(serial, n)
        sizes == Extended(given, n)
        begin == Begins(sizes)
        end   == Ends(sizes, n)
    IN IF serial = << >> THEN Batches(<<hosts>>)
       ELSE IF \E i \in DOMAIN given : given[i] = 0 THEN SerialError
       ELSE IF \E i \in DOMAIN sizes : begin[i] < 0 \/ begin[i] > end[i] THEN SerialPanic
       ELSE Batches([i \in DOMAIN sizes |-> SubSeq(hosts, begin[i] + 1, end[i])])
=============================================================================
