---------------------------- MODULE ChangefeedLog ----------------------------
(***************************************************************************)
(* What the changefeed promises, without files, transactions or ids: every *)
(* host has a log that only grows; a consumer's cursor and a destination's *)
(* checkpoint only move forward, the second never past the first; a        *)
(* receiver always holds a prefix of the log of one host, which only grows.*)
(***************************************************************************)
EXTENDS Integers, Sequences

CONSTANTS Hosts, Consumers, Destinations, Receivers, Event

VARIABLES
  log,       \* journal of each host
  cursor,    \* how much of it each consumer has exported
  durable,   \* how much of that each destination is proved to hold
  received   \* what each receiver has replayed

vars == <<log, cursor, durable, received>>

Init ==
  /\ log = [h \in Hosts |-> <<>>]
  /\ cursor = [h \in Hosts |-> [c \in Consumers |-> 0]]
  /\ durable = [h \in Hosts |-> [d \in Destinations |-> [c \in Consumers |-> 0]]]
  /\ received = [r \in Receivers |-> <<>>]

Capture(h) ==
  /\ \E e \in Event : log' = [log EXCEPT ![h] = Append(@, e)]
  /\ UNCHANGED <<cursor, durable, received>>

Ship(h, c) ==
  /\ \E n \in cursor[h][c] + 1 .. Len(log[h]) : cursor' = [cursor EXCEPT ![h][c] = n]
  /\ UNCHANGED <<log, durable, received>>

Prove(h, d, c) ==
  /\ \E n \in durable[h][d][c] + 1 .. cursor[h][c] :
       durable' = [durable EXCEPT ![h][d][c] = n]
  /\ UNCHANGED <<log, cursor, received>>

Receive(r) ==
  /\ \E h \in Hosts : \E n \in Len(received[r]) + 1 .. Len(log[h]) :
       /\ received[r] = SubSeq(log[h], 1, Len(received[r]))
       /\ received' = [received EXCEPT ![r] = SubSeq(log[h], 1, n)]
  /\ UNCHANGED <<log, cursor, durable>>

\* A copy starts from all that its original has; it had nothing before.
Fork(g, h) ==
  /\ log[h] = <<>> /\ cursor[h] = [c \in Consumers |-> 0]
  /\ log' = [log EXCEPT ![h] = log[g]]
  /\ cursor' = [cursor EXCEPT ![h] = cursor[g]]
  /\ durable' = [durable EXCEPT ![h] = durable[g]]
  /\ UNCHANGED received

Next ==
  \/ \E h \in Hosts : Capture(h)
  \/ \E h \in Hosts, c \in Consumers : Ship(h, c)
  \/ \E h \in Hosts, d \in Destinations, c \in Consumers : Prove(h, d, c)
  \/ \E r \in Receivers : Receive(r)
  \/ \E g, h \in Hosts : Fork(g, h)

Spec == Init /\ [][Next]_vars

=============================================================================
