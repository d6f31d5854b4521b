------------------------------- MODULE MCMsc -------------------------------
(* Commands of a host that asks for no less than the device answers.         *)
EXTENDS Msc

Cmd(dir, len, size, exec) == [dir |-> dir, len |-> len, size |-> size, exec |-> exec]

MCCommands ==
    {Cmd("IN", n * Block, n * Block, "read") : n \in {1, 3}}
      \cup {Cmd("OUT", n * Block, n * Block, "write") : n \in {1, 3}}
      \cup {Cmd("IN", len, size, "buf") : len \in {3}, size \in {1, 2, 3}}
      \cup {Cmd("IN", 0, 1, "buf"), Cmd("OUT", 0, 0, "none"), Cmd("IN", 2, 0, "none"),
            Cmd("IN", 2, 0, "fail"), Cmd("OUT", 2, 0, "fail"), Cmd("OUT", 0, 0, "fail"),
            Cmd("OUT", 0, 0, "garbled")}

ReadCommands == {Cmd("IN", Block, Block, "read")}

\* fakefat32: it writes before it returns, and may read in the background.
Sound == [op \in {"read", "write"} |-> IF op = "read" THEN {"done", "pending"} ELSE {"done"}]

\* A medium that may fail to read.
ReadFails == [op \in {"read", "write"} |-> {"done", "failed"}]

\* embflash without direct reads: it writes in the background, too.
Background == [op \in {"read", "write"} |-> {"done", "pending"}]
=============================================================================
