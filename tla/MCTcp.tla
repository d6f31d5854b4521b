------------------------------- MODULE MCTcp -------------------------------
EXTENDS Tcp

Sends(c, s) == [h \in Ends |-> IF h = client THEN c ELSE s]

Quiet == [send |-> Sends(1, 1), rx_window |-> 2, expires |-> FALSE, reorder |-> FALSE,
          early |-> TRUE, loss |-> 0, dup |-> 0, timeout |-> 0]

\* A segment is lost and a timer expires early: two buffers into a window of one,
\* which may expire unread, and data in both directions.
Faulty(s) == [Quiet EXCEPT !.send = s, !.rx_window = 1, !.loss = 1, !.timeout = 1]
Lossy == {[Faulty(Sends(2, 0)) EXCEPT !.expires = TRUE], Faulty(Sends(1, 1))}

\* Segments overtake each other and one is duplicated.
Unordered == [Quiet EXCEPT !.send = Sends(2, 0), !.reorder = TRUE, !.dup = 1]

\* A segment is lost; every timer that is due expires, and none earlier.
Prompt == [Quiet EXCEPT !.send = Sends(1, 0), !.early = FALSE, !.loss = 1, !.timeout = 30]

\* The same without a loss, but with two buffers into a window of one.
Full == [Prompt EXCEPT !.send = Sends(2, 0), !.rx_window = 1, !.loss = 0]

MCScenarios == Lossy \cup {Unordered, Prompt, Full}
=============================================================================
