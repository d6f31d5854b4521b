------------------------------- MODULE MCUsbd -------------------------------
(***************************************************************************)
(* Packets of two units.  Answers that end with a full packet, with and    *)
(* without a further empty one, with a short one, cut to what was asked,   *)
(* and empty ones; OUT data of two packets; the requests that change the   *)
(* device, and a refused one.                                              *)
(***************************************************************************)
EXTENDS Usbd

LOCAL Get(size, wLength) == [dir |-> "in", wLength |-> wLength, size |-> size, ok |-> TRUE,
                             act |-> "none", value |-> 0]
LOCAL Put(size) == [dir |-> "out", wLength |-> size, size |-> size, ok |-> TRUE,
                    act |-> "none", value |-> 0]
LOCAL Set(act, value) == [dir |-> "out", wLength |-> 0, size |-> 0, ok |-> TRUE,
                          act |-> act, value |-> value]

MCRequests == {Get(2, 2), Get(2, 3), Get(3, 4), Get(5, 3), Get(0, 1), Put(3),
               Set("address", 1), Set("config", 0), Set("config", 1), Set("none", 0),
               [Set("none", 0) EXCEPT !.ok = FALSE]}

TwoRequests == {Get(1, 1), Set("config", 0)}
=============================================================================
