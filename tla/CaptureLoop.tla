----------------------------- MODULE CaptureLoop -----------------------------
(***************************************************************************)
(* The capture loop of message_handle_mdm (those of the other chipsets     *)
(* have the same shape) on top of the write cache, with mdm.c's            *)
(* logfile_init and logfile_save: a packet is read, a log is created when  *)
(* none is open, the packet is saved through the cache, logs are rotated   *)
(* when they are full, and the loop ends when a log cannot be created, a   *)
(* packet was not saved, nothing can be read, or the user asks for it.     *)
(*                                                                         *)
(* The log is a file on a disk of limited space, or a connection (an ftp   *)
(* upload, the tcp client's).  write(2) to a regular file takes what fits  *)
(* on the disk and fails with ENOSPC after that; the first one of a packet *)
(* may be cut short by a signal, and the rest then goes through the cache, *)
(* for which there is memory.  A connection takes any part, and may be     *)
(* reset.  The diag log alone is modelled.                                 *)
(*                                                                         *)
(* With use_qmdl2_v2 a log begins with qshrink4_data, which the filter     *)
(* thread completes at some time; packets before that are not saved.       *)
(***************************************************************************)
EXTENDS Kfifo

CONSTANTS DiskSize,     \* free space at the start
          FileLimit,    \* logfile_size
          HeaderSize    \* header_length, once known

ASSUME CaptureAssumption ==
    /\ DiskSize \in Nat /\ FileLimit \in Nat \ {0}
    /\ HeaderSize \in 1 .. MaxChunk

VARIABLES pc,       \* "loop", "read", "create", "save", "packet", "left" or "ended"
          used,     \* space taken on the disk, or bytes sent
          saved,    \* savelog_size_dm
          exitReq,  \* qlog_exit_requested
          cleaned,  \* clean_filter has been called
          target,   \* where logs go: "disk", "ftp" or "tcp"
          qmdl2,    \* use_qmdl2_v2
          header,   \* qshrink4_data.header_length # 0
          miss,     \* mdm_miss_qmdlv2_logfd is the open log
          pkt,      \* size of the packet read and not dealt with yet
          rx,       \* bytes read so far
          hdr,      \* history: bytes of headers written or offered so far
          headed,   \* history: the open log begins with the header
          early,    \* history: bytes of the packets that came before the header
          unsaved   \* history: bytes of the packet for which no log was created

optVars == <<target, qmdl2>>
packetVars == <<pkt, rx, hdr, headed, early, unsaved>>
loopVars == <<pc, used, saved, exitReq, cleaned, header, miss>>
captureVars == <<vars, loopVars, optVars, packetVars>>

CaptureInit ==
    /\ Init
    /\ pc = "loop" /\ used = 0 /\ saved = 0
    /\ exitReq = FALSE /\ cleaned = FALSE
    /\ target \in {"disk", "ftp", "tcp"}
    /\ qmdl2 \in BOOLEAN
    /\ header \in {FALSE, qmdl2}
    /\ miss = FALSE
    /\ pkt = 0 /\ rx = 0 /\ hdr = 0 /\ headed = FALSE /\ early = 0 /\ unsaved = 0

\* g_donot_split_logfile is set for the tcp client.
RotationDue == isOpen /\ saved >= FileLimit /\ target # "tcp"

\* The loop goes on, and waits for a packet.
Iterate ==
    /\ pc = "loop" /\ ~RotationDue /\ ~exitReq
    /\ pc' = "read"
    /\ UNCHANGED <<vars, used, saved, exitReq, cleaned, header, miss, optVars, packetVars>>

\* A packet of n bytes is read (MaxBytes bounds what is read and written).
ReadPacket(n) ==
    /\ pc = "read"
    /\ rx + n <= MaxBytes /\ seen + HeaderSize + n <= MaxBytes
    /\ pc' = IF isOpen THEN "save" ELSE "create"
    /\ pkt' = n /\ rx' = rx + n
    /\ UNCHANGED <<vars, used, saved, exitReq, cleaned, header, miss, optVars, hdr, headed, early, unsaved>>

\* The module is gone, or silent.
ReadFails ==
    /\ pc = "read"
    /\ pc' = "left"
    /\ UNCHANGED <<vars, used, saved, exitReq, cleaned, header, miss, optVars, packetVars>>

\* A header written with write(2), not through the cache: k bytes of it, all of
\* them while the disk has room.
RawHeader(k) ==
    /\ used' = used + k
    /\ target = "disk" => used' <= DiskSize /\ (k = HeaderSize \/ used' = DiskSize)

\* That the header is missing is not noted.
CreateLogNoMiss ==
    /\ pc = "create"
    /\ KfifoAlloc
    /\ pc' = "save"
    /\ miss' = FALSE
    /\ IF qmdl2 /\ header
       THEN /\ \E k \in 0 .. HeaderSize : RawHeader(k)
            /\ hdr' = hdr + HeaderSize
       ELSE UNCHANGED <<used, hdr>>
    /\ headed' = (qmdl2 /\ header)
    /\ UNCHANGED <<saved, exitReq, cleaned, header, optVars, pkt, rx, early, unsaved>>

\* The first packet after a rotation finds logfile_fd = -1: a log is created, and
\* mdm_logfile_init writes the header, or notes that it is missing.
CreateLog ==
    /\ pc = "create"
    /\ KfifoAlloc
    /\ pc' = "save"
    /\ miss' = IF qmdl2 THEN ~header ELSE miss
    /\ IF qmdl2 /\ header
       THEN /\ \E k \in 0 .. HeaderSize : RawHeader(k)
            /\ hdr' = hdr + HeaderSize
       ELSE UNCHANGED <<used, hdr>>
    /\ headed' = (qmdl2 /\ header)
    /\ UNCHANGED <<saved, exitReq, cleaned, header, optVars, pkt, rx, early, unsaved>>

\* The log cannot be created: the loop is left, and the packet with it.
CreateFails ==
    /\ pc = "create"
    /\ pc' = "left"
    /\ unsaved' = pkt /\ pkt' = 0
    /\ UNCHANGED <<vars, used, saved, exitReq, cleaned, header, miss, optVars, rx, hdr, headed, early>>

\* A write to the disk is as long as there is room.
OnDisk ==
    /\ used' <= DiskSize
    /\ used' = DiskSize \/ Used(fifo') = 0

\* Only what reaches the file counts as room taken; a connection takes any part.
Written(n) ==
    /\ IF target = "disk"
       THEN WriteThrough(n) \/ \E k \in 0 .. n - 1 : WriteCached(n, k, TRUE, FALSE)
       ELSE KfifoWrite(n)
    /\ used' = used + Len(file') - Len(file)
    /\ target = "disk" => OnDisk

\* mdm_logfile_save before the header is known: reported as saved, and not saved.
SaveEarly ==
    /\ pc = "save" /\ qmdl2 /\ ~header
    /\ pc' = "loop"
    /\ saved' = saved + pkt
    /\ early' = early + pkt /\ pkt' = 0
    /\ UNCHANGED <<vars, used, exitReq, cleaned, header, miss, optVars, rx, hdr, headed, unsaved>>

\* The header is saved ahead of the first packet after it became known; whether
\* that worked is not looked at.
SaveHeader ==
    /\ pc = "save" /\ qmdl2 /\ header /\ miss
    /\ Written(HeaderSize)
    /\ pc' = "packet"
    /\ miss' = FALSE
    /\ hdr' = hdr + HeaderSize
    /\ headed' = (file = <<>>)
    /\ UNCHANGED <<saved, exitReq, cleaned, header, optVars, pkt, rx, early, unsaved>>

\* savelog fail: the loop is left, and qlog_exit_requested set.
CheckSaved(n) ==
    /\ saved' = saved + ret'
    /\ pc' = IF ret' # n THEN "left" ELSE "loop"
    /\ exitReq' = (exitReq \/ ret' # n)

\* The packet is saved, then the result is looked at.
SavePacket ==
    /\ pc = "packet" \/ (pc = "save" /\ (qmdl2 => header /\ ~miss))
    /\ Written(pkt)
    /\ CheckSaved(pkt)
    /\ pkt' = 0
    /\ UNCHANGED <<cleaned, header, miss, optVars, rx, hdr, headed, early, unsaved>>

Rotate ==
    /\ pc = "loop" /\ RotationDue
    /\ KfifoFree
    /\ saved' = 0
    /\ UNCHANGED <<pc, used, exitReq, cleaned, header, miss, optVars, packetVars>>

\* The log is closed; clean_filter is called when exit is requested.
EndSession ==
    /\ pc = "left" \/ (pc = "loop" /\ exitReq /\ ~RotationDue)
    /\ pc' = "ended"
    /\ cleaned' = exitReq
    /\ IF isOpen THEN KfifoFree ELSE UNCHANGED vars
    /\ UNCHANGED <<used, saved, exitReq, header, miss, optVars, packetVars>>

Interrupt ==
    /\ ~exitReq
    /\ exitReq' = TRUE
    /\ UNCHANGED <<vars, pc, used, saved, cleaned, header, miss, optVars, packetVars>>

\* The filter thread has the header together (mdm_add_qshrink4_header).
HeaderKnown ==
    /\ qmdl2 /\ ~header
    /\ header' = TRUE
    /\ UNCHANGED <<vars, pc, used, saved, exitReq, cleaned, miss, optVars, packetVars>>

\* The session is over.
Over == pc = "ended" /\ UNCHANGED captureVars

CaptureNext ==
    \/ Iterate
    \/ \E n \in 1 .. MaxChunk : ReadPacket(n)
    \/ ReadFails
    \/ CreateLog
    \/ CreateFails
    \/ SaveEarly
    \/ SaveHeader
    \/ SavePacket
    \/ Rotate
    \/ EndSession
    \/ Interrupt
    \/ HeaderKnown
    \/ Over

CaptureSpec == CaptureInit /\ [][CaptureNext]_captureVars

-----------------------------------------------------------------------------
(* Properties.                                                             *)

\* The loop's own state; a packet is at hand only between its read and its save,
\* and a log is open whenever one is being saved (message_handle_mdm).
CaptureTypeOK ==
    /\ pc \in {"loop", "read", "create", "save", "packet", "left", "ended"}
    /\ used \in Nat /\ saved \in Nat
    /\ exitReq \in BOOLEAN /\ cleaned \in BOOLEAN
    /\ target \in {"disk", "ftp", "tcp"} /\ qmdl2 \in BOOLEAN
    /\ header \in BOOLEAN /\ miss \in BOOLEAN
    /\ pkt \in 0 .. MaxChunk /\ rx \in Nat /\ hdr \in Nat /\ headed \in BOOLEAN
    /\ early \in Nat /\ unsaved \in 0 .. MaxChunk
    /\ pkt > 0 <=> pc \in {"create", "save", "packet"}
    /\ pc = "create" => ~isOpen
    /\ pc \in {"save", "packet"} => isOpen

\* Nothing is lost on a disk that has room: every byte read so far is in some log,
\* and every header, across any number of rotations, although closing a log throws
\* away what the cache still holds (message_handle_mdm, __kfifo_write, kfifo_free).
\* The exceptions are the packet at hand, those that came before the header of a
\* qmdl2 log was known (mdm_logfile_save), and one packet for which no log could
\* be created, with which the session ends.
AllOnDisk ==
    target = "disk" /\ used < DiskSize =>
        /\ used = hdr + rx - pkt - early - unsaved
        /\ early > 0 => qmdl2
        /\ unsaved > 0 => pc \in {"left", "ended"} /\ ~isOpen

\* A qmdl2 log that holds a packet, or a part of one, begins with the header,
\* whenever the filter thread completes it: the header is written when the log is
\* created, or ahead of the first packet (mdm_logfile_init, mdm_logfile_save).
HeaderFirst == qmdl2 /\ isOpen /\ file # <<>> => headed
==============================================================================
