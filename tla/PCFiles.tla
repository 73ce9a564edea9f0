------------------------------- MODULE PCFiles ------------------------------
(* A PC's session with the SD card (pc_sd.c): plain file commands, uploads *)
(* into a temporary file that is renamed when it is verified, downloads    *)
(* over the USB stream, and the backup of the cartridge to the card, whose *)
(* detail is Backup's and which is here one step.                          *)
EXTENDS PCFrames, UsbStream

CONSTANTS
  Names,        (* of files *)
  Contents      (* of files, sequences of blocks *)

ASSUME FilesAssumption ==
  /\ Names # {}
  /\ \A c \in Contents : c # << >> /\ \A i \in DOMAIN c : c[i] # << >>

VARIABLES
  mounted,      (* SDCard_Mount succeeded *)
  disk,         (* the files of the card *)
  temp,         (* the temporary file as it is on the card, or NoFile *)
  upload,       (* Upload: the name, what was declared, what has come *)
  sdBulk,       (* BulkOpen: the session holds the engine *)
  stranded      (* history: the card refused to remove a temporary file *)

card == <<mounted, disk, temp, upload, stranded>>
fileVars == <<card, sdBulk>>

NoFile == [there |-> FALSE, data |-> << >>]
Absent == << >>
Directory == << << >> >>
Spoilt == << >>
NoUpload == [name |-> "none", content |-> << >>, got |-> << >>]
Regular(name) == disk[name] \notin {Absent, Directory}
Parts(content) == {content[i] : i \in DOMAIN content}

FileRequests ==
  [op : {"end", "status", "list", "commit"}]
  \cup [op : {"mkdir", "delete", "download", "backup"}, name : Names]
  \cup [op : {"rename"}, name : Names, to : Names]
  \cup [op : {"upload"}, name : Names, content : Contents]
  \cup [op : {"data"}, block : UNION {Parts(c) : c \in Contents}]

FilesInit ==
  /\ mounted = FALSE /\ temp = NoFile /\ upload = NoUpload
  /\ disk \in [Names -> Contents \cup {Absent}]
  /\ sdBulk = FALSE /\ stranded = FALSE

-----------------------------------------------------------------------------
(* Run of pc_sd.c mounts the card; without one only op 0 and 1 work.       *)
OpenFiles ==
  /\ Open("files", "receive")
  /\ \/ mounted' = TRUE /\ NoFault
     \/ mounted' = FALSE /\ Fault
  /\ upload' = NoUpload /\ temp' = NoFile /\ sdBulk' = FALSE
  /\ UNCHANGED <<disk, stranded, link, usbVars>>

Serving(ops) == mode = "files" /\ pc = "serve" /\ req.op \in ops

Uploading == {"data", "commit"}
Bare == {"end", "status"}

(* What an operation asks of the state before it. *)
Allowed ==
  /\ req.op \in Bare \/ mounted
  /\ IF req.op \in Uploading THEN upload # NoUpload ELSE upload = NoUpload
  /\ req.op \in {"rename", "delete"} => disk[req.name] # Absent
  /\ req.op = "rename" => disk[req.to] = Absent
  /\ req.op \in {"mkdir", "upload"} => disk[req.name] = Absent
  /\ req.op = "download" => Regular(req.name)
  /\ req.op = "backup" => ~sdBulk /\ disk[req.name] # Directory
  /\ req.op = "data" => Len(upload.got) < Len(upload.content)

FileOps == Bare \cup Uploading \cup {"list", "mkdir", "delete", "rename", "upload",
                                      "download", "backup"}

(* A ping of Keepalive, a call of FatFs or an allocation may fail, and a   *)
(* backup for what is in the slot.                                         *)
FileRefused == /\ Serving(FileOps)
               /\ \/ (~Allowed \/ req.op = "backup") /\ NoFault
                  \/ Fault
               /\ Refuse
               /\ UNCHANGED <<link, usbVars, fileVars>>

FileDone(ops) == Serving(ops) /\ Allowed /\ NoFault /\ Answer
                 /\ UNCHANGED <<link, usbVars, sdBulk>>

Look == FileDone(Bare \cup {"list"}) /\ UNCHANGED card

PlainChange ==
  /\ FileDone({"mkdir", "delete", "rename"})
  /\ disk' = CASE req.op = "mkdir"  -> [disk EXCEPT ![req.name] = Directory]
               [] req.op = "delete" -> [disk EXCEPT ![req.name] = Absent]
               [] req.op = "rename" -> [disk EXCEPT ![req.to] = disk[req.name],
                                                    ![req.name] = Absent]
  /\ UNCHANGED <<mounted, temp, upload, stranded>>

-----------------------------------------------------------------------------
(* Uploads.                                                                *)

BeginUpload ==
  /\ FileDone({"upload"})
  /\ upload' = [name |-> req.name, content |-> req.content, got |-> << >>]
  /\ temp' = [there |-> TRUE, data |-> << >>]
  /\ UNCHANGED <<mounted, disk, stranded>>

(* The card may keep something else than what it was given. *)
UploadData ==
  /\ Serving({"data"}) /\ Allowed /\ Answer
  /\ upload' = [upload EXCEPT !.got = Append(@, req.block)]
  /\ \/ NoFault /\ temp' = [temp EXCEPT !.data = Append(@, req.block)]
     \/ Fault /\ temp' = [temp EXCEPT !.data = Append(@, Spoilt)]
  /\ UNCHANGED <<link, usbVars, sdBulk, mounted, disk, stranded>>

VerifyUpload == upload.got = upload.content /\ temp.data = upload.content

CommitUpload ==
  /\ Serving({"commit"}) /\ Allowed /\ NoFault
  /\ IF VerifyUpload /\ disk[upload.name] = Absent
     THEN /\ disk' = [disk EXCEPT ![upload.name] = temp.data]
          /\ temp' = NoFile /\ upload' = NoUpload
          /\ Answer
     ELSE Refuse /\ UNCHANGED <<disk, temp, upload>>
  /\ UNCHANGED <<link, usbVars, sdBulk, mounted, stranded>>

(* CartBackup_SetPCMode(true), then StreamToSD and the publication. *)
BackupCart ==
  /\ Serving({"backup"}) /\ Allowed /\ NoFault
  /\ \E c \in Contents : disk' = [disk EXCEPT ![req.name] = c]
  /\ pcMode' = TRUE /\ fpga' = "pc" /\ Drop
  /\ Answer
  /\ UNCHANGED <<sending, line, usb, notice, vouched, sdBulk, mounted, temp, upload, stranded>>

-----------------------------------------------------------------------------
(* Downloads.  The engine's session is the PC's, of the card.              *)

LeavePCMode ==
  /\ Serving({"download"}) /\ Allowed /\ ~sdBulk
  /\ \/ /\ NoFault /\ sdBulk' = TRUE /\ pc' = "enter" /\ result' = result
        /\ pcMode' = FALSE /\ fpga' = "none"
        /\ IF fpga = "none" THEN UNCHANGED <<slots, seen>> ELSE Drop
     \/ /\ Broken /\ fpga' = "none" /\ UNCHANGED <<pcMode, sdBulk>>
        /\ IF fpga = "none" THEN UNCHANGED <<slots, seen>> ELSE Drop
  /\ UNCHANGED <<session, sending, line, usb, notice, vouched, card>>

EnterSD ==
  /\ mode = "files" /\ pc = "enter"
  /\ fpga' = "sd"
  /\ \/ NoFault /\ pc' = "header" /\ result' = result
     \/ Broken
  /\ UNCHANGED <<session, pcMode, usbVars, fileVars>>

Header ==
  /\ mode = "files"
  /\ pc = "header" \/ (Serving({"download"}) /\ Allowed /\ sdBulk)
  /\ line = "none" /\ line' = "header"
  /\ pc' = "drain"
  /\ UNCHANGED <<session, result, link, faults, slots, streamer, usb, notice, vouched,
                 fileVars>>

(* uart_wait_tx_done, then a block is staged and published: sent once.     *)
StageBlock ==
  /\ mode = "files" /\ pc \in {"drain", "next"} /\ line = "none"
  /\ step < Len(disk[req.name])
  /\ notice' = None
  /\ ram' = [ram EXCEPT ![0] = disk[req.name][step + 1]]
  /\ IF CanPublish
     THEN \/ Publish /\ NoFault /\ pc' = "wait" /\ result' = result
          \/ Publish /\ Broken
     ELSE Fail /\ NoFault /\ UNCHANGED <<ready, stream, range, event, seen>>
  /\ UNCHANGED <<session, link, sending, line, usb, vouched, fileVars>>

EventTaken ==
  /\ mode = "files" /\ pc = "wait" /\ notice # None
  /\ notice' = None /\ vouched' = Append(vouched, disk[req.name][step + 1])
  /\ \/ NoFault /\ Acknowledge /\ pc' = "next" /\ step' = step + 1 /\ result' = result
     \/ Broken /\ step' = step /\ UNCHANGED <<slots, seen>>
  /\ UNCHANGED <<mode, sequence, sent, wire, req, link, sending, line, usb, fileVars>>

(* Five seconds: less than a PC needs that does not read. *)
EventTimesOut ==
  /\ mode = "files" /\ pc = "wait" /\ notice = None
  /\ Fail
  /\ UNCHANGED <<session, link, faults, usbVars, fileVars>>

Footer ==
  /\ mode = "files" /\ pc = "next" /\ step = Len(disk[req.name])
  /\ line = "none" /\ line' = "end"
  /\ NoFault /\ Answer
  /\ UNCHANGED <<link, slots, streamer, usb, notice, vouched, fileVars>>

Downloading == LeavePCMode \/ EnterSD \/ Header \/ StageBlock \/ EventTaken
               \/ EventTimesOut \/ Footer

-----------------------------------------------------------------------------
\* Faulty variant: a session that ends does not remove its upload.
AbandonUpload == UNCHANGED <<temp, stranded>> /\ upload' = NoUpload /\ NoFault

AbortUpload ==
  /\ upload' = NoUpload
  /\ \/ temp' = NoFile /\ stranded' = stranded /\ NoFault
     \/ temp # NoFile /\ Fault /\ temp' = temp /\ stranded' = TRUE

(* Unmounting and leaving the engine may fail, a fault each.  An EXIT that *)
(* is not answered is carried out: it is sent three times.                 *)
CloseFiles ==
  /\ mode = "files" /\ pc = "close"
  /\ AbortUpload
  /\ mounted' = FALSE
  /\ \E broken \in BOOLEAN :
       /\ broken => faults < MaxFaults /\ (mounted \/ sdBulk)
       /\ Return(IF broken THEN "fail" ELSE result)
  /\ sdBulk' = FALSE
  /\ IF sdBulk THEN fpga' = "none" /\ Drop ELSE fpga' = fpga /\ UNCHANGED <<slots, seen>>
  /\ UNCHANGED <<disk, pcMode, sending, line, usb, notice, vouched>>

Files == FileRefused \/ Look \/ PlainChange \/ BeginUpload \/ UploadData
         \/ CommitUpload \/ BackupCart \/ Downloading \/ CloseFiles
=============================================================================
