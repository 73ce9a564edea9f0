----------------------------- MODULE MCPCConsole ----------------------------
EXTENDS PCConsole

MCBanks == {0, 1} \X {0, 1}
MCRomBanks == << <<1, 0>>, <<0, 1>> >>
File(n) == << <<n>> >>
MCContents == { << File(1) >>, << File(1), File(2) >> }

MCFlashRequests ==
  [op : {"end", "read"}]
  \cup [op : {"write"}, cycles : {<< Cycle("aa"), Cycle("55") >>}]
  \cup [op : {"bank"}, bank : {<<0, 1>>}]
  \cup [op : {"program"}, mode : Modes, block : {2}, data : {<<0, 1, 0, 1>>}]
  \cup [op : {"range"}, count : {1, 3}]

(* The file is there; the chip takes single bytes or the widest pages.     *)
MCInit == /\ Init
          /\ disk = [name \in Names |-> IF name = "a" THEN << File(1), File(2) >> ELSE Absent]
          /\ widest \in {1, WidePage}

(* Which cartridge is in matters to a flash session only.  One begins with *)
(* what changes the cartridge, goes on with what reads it, and ends with   *)
(* the third frame.  A second session follows one that met a fault, and is *)
(* short: a range of the cartridge, a download or a ROM.                   *)
Turn == << {"bank", "program", "write", "range"}, {"program", "range", "read"},
           {"range", "write", "end"} >>
Frame(ops) == wire' # << >> => wire'[1].req.op \in ops
MCNext ==
  /\ Next
  /\ mode = "console" /\ mode' \in {"files", "backup"} => widest = 1
  /\ mode = "flash" /\ sent' = sent + 1 => sent < 3 /\ Frame(Turn[sent + 1])
  /\ sessions = 1 /\ sessions' = 2 => faults = MaxFaults /\ result = "fail"
  /\ sessions = 2 /\ sent' = sent + 1 => sent = 0 /\ Frame({"range", "download"})
MCFairSpec == MCInit /\ [][MCNext]_vars /\ WF_vars(Mcu) /\ WF_vars(Hardware)
=============================================================================
