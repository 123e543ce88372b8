------------------------------- MODULE OpenFiles -------------------------------
(***************************************************************************)
(* Open files: the list of channels the runtime keeps beside the operating *)
(* system's table of descriptors, and the statements and functions that    *)
(* open, close, read, write and position a channel.                        *)
(*                                                                         *)
(* A channel number is a file descriptor.  The byte offset belongs to the  *)
(* descriptor; the item pointer PTR# belongs to the entry of the list.     *)
(* PRINT# and INPUT# go item by item and evaluate an expression (the value *)
(* to print, the indices of the variable) between two items: that may call *)
(* a function which uses, closes or opens any channel.  pending holds      *)
(* those statements, the innermost last.                                   *)
(***************************************************************************)
EXTENDS Integers, Sequences, FiniteSets

CONSTANTS
  Files,       (* file names                                               *)
  Modes,       (* how programs open them: OPENIN, OPENUP, OPENOUT          *)
  MaxFd,       (* the system's limit on descriptors                        *)
  MaxSize,     (* bound: bytes of a file                                   *)
  MaxNested,   (* bound: PRINT# and INPUT# statements in progress          *)
  MaxItems,    (* bound: items of one such statement                       *)
  IntSize,     (* bytes of an integer: 4                                   *)
  FloatSize,   (* bytes of a double: 8                                     *)
  Values,      (* the values printed to files                              *)
  Bytes,       (* the bytes BPUT# writes                                   *)
  Wanted,      (* the values assigned to PTR#                              *)
  Disks        (* the files there may be at the start                      *)

Byte == 0..255

ASSUME FilesAssumption ==
  /\ Modes \subseteq {"in", "up", "out"}
  /\ MaxFd \in Nat /\ MaxSize \in Nat /\ MaxNested \in Nat /\ MaxItems \in Nat
  /\ IntSize \in Nat /\ FloatSize \in Nat
  /\ Values \subseteq [type: {"int", "float", "string"}, bytes: Seq(Byte)]
  /\ \A v \in Values : /\ v.type = "int" => Len(v.bytes) = IntSize
                       /\ v.type = "float" => Len(v.bytes) = FloatSize
  /\ Bytes \subseteq Byte
  /\ Wanted \subseteq Int
  /\ \A d \in Disks : DOMAIN d \subseteq Files /\ d \in [DOMAIN d -> Seq(Byte)]

STATUS_ERROR == -3

VARIABLES
  disk,           \* the files there are, with their bytes
  channels,       \* the open descriptors: file, mode and offset
  files_list,     \* the runtime's list: descriptor and item pointer
  pending,        \* PRINT# and INPUT# statements in progress
  failed,         \* whether the last operation set an error
  outcome,        \* whether the program runs, has ended or has aborted
  newest_first    \* auxiliary: CLOSE# has only closed the newest channel

vars == <<disk, channels, files_list, pending, failed, outcome, newest_first>>

Fds == 3..MaxFd

Init ==
  /\ disk \in Disks
  /\ channels = <<>> /\ files_list = <<>> /\ pending = <<>>
  /\ failed = FALSE
  /\ outcome = "running" /\ newest_first = TRUE

-----------------------------------------------------------------------------
(* The list of channels.                                                   *)

Open == DOMAIN channels
Listed == {files_list[i].fd : i \in DOMAIN files_list}

Find(fd) == CHOOSE i \in DOMAIN files_list :
              /\ files_list[i].fd = fd
              /\ \A j \in 1..(i - 1) : files_list[j].fd # fd

(* A mutant: the new entry is not linked to the old ones.                  *)
AddedAlone(fd) == <<[fd |-> fd, ptr |-> 0]>>

Added(fd) == <<[fd |-> fd, ptr |-> 0]>> \o files_list

(* A mutant: CLOSE# does not tell the list.                                *)
NotRemoved(fd) == files_list

(* prev is never set: the head moves past the entry, wherever it is.       *)
Removed(fd) ==
  IF fd \in Listed THEN SubSeq(files_list, Find(fd) + 1, Len(files_list))
                   ELSE files_list

GetPtr(fd) ==
  IF fd \in Listed THEN files_list[Find(fd)].ptr ELSE STATUS_ERROR

WithPtr(fd, n) ==
  IF fd \in Listed THEN [files_list EXCEPT ![Find(fd)].ptr = n] ELSE files_list

-----------------------------------------------------------------------------
(* How an operation ends.                                                  *)

Ok == failed' = FALSE

Fail == failed' = TRUE

Abort == outcome' = "abort" /\ UNCHANGED failed

Running == outcome = "running"

-----------------------------------------------------------------------------
(* Descriptors, as read(), write() and lseek() see them.                   *)

Content(fd) == disk[channels[fd].file]

CanRead(fd) == fd \in Open /\ channels[fd].mode \in {"in", "up"}
CanWrite(fd) == fd \in Open /\ channels[fd].mode \in {"out", "up"}

(* Bytes written at p; a gap before p is filled with zeros.                *)
Written(old, p, bytes) ==
  LET end == p + Len(bytes)
  IN  [i \in 1..(IF end > Len(old) THEN end ELSE Len(old)) |->
         IF i > p /\ i <= end THEN bytes[i - p]
         ELSE IF i <= Len(old) THEN old[i] ELSE 0]

Write(fd, bytes) ==
  LET p == channels[fd].pos
  IN  /\ p + Len(bytes) <= MaxSize
      /\ disk' = [disk EXCEPT ![channels[fd].file] = Written(@, p, bytes)]
      /\ channels' = [channels EXCEPT ![fd].pos = p + Len(bytes)]

(* A mutant: the length byte of a string is not counted.                   *)
ItemSizeShort(bytes, p) ==
  CASE bytes[p + 1] = 64 -> 1 + IntSize
    [] bytes[p + 1] = 255 -> 1 + FloatSize
    [] OTHER -> 1 + bytes[p + 2]

ItemSize(bytes, p) ==
  CASE bytes[p + 1] = 64 -> 1 + IntSize
    [] bytes[p + 1] = 255 -> 1 + FloatSize
    [] OTHER -> 2 + bytes[p + 2]

(* Reading an item: a tag and, for a string, its length; then the payload. *)
(* At the end of the file the tag is left uninitialized, and whatever it   *)
(* is the next read comes up short.  A short read leaves the offset at the *)
(* end of the file.                                                        *)
ReadItem(bytes, p) ==
  LET left == Len(bytes) - p
      tag == bytes[p + 1]
      known == tag \in {64, 255} \/ (tag = 0 /\ left > 1)
      size == ItemSize(bytes, p)
  IN  CASE left <= 0 -> [ok |-> FALSE, pos |-> p]
        [] left > 0 /\ ~known -> [ok |-> FALSE, pos |-> p + 1]
        [] left > 0 /\ known /\ left < size -> [ok |-> FALSE, pos |-> Len(bytes)]
        [] OTHER -> [ok |-> TRUE, pos |-> p + size]

Encode(v) ==
  LET n == IF Len(v.bytes) > 255 THEN 255 ELSE Len(v.bytes)
  IN  CASE v.type = "int" -> <<64>> \o v.bytes
        [] v.type = "float" -> <<255>> \o v.bytes
        [] OTHER -> <<0, n>> \o SubSeq(v.bytes, 1, n)

-----------------------------------------------------------------------------
(* Opening and closing.  open() takes the lowest free descriptor.          *)

OpenFile(f, mode) ==
  /\ Running
  /\ mode = "out" \/ f \in DOMAIN disk
  /\ \E fd \in Fds \ Open :
       /\ \A g \in Fds \ Open : fd <= g
       /\ channels' = [g \in Open \cup {fd} |->
                         IF g = fd THEN [file |-> f, mode |-> mode, pos |-> 0]
                                   ELSE channels[g]]
       /\ files_list' = Added(fd)
  /\ disk' = IF mode = "out"
             THEN [g \in DOMAIN disk \cup {f} |-> IF g = f THEN <<>> ELSE disk[g]]
             ELSE disk
  /\ Ok /\ UNCHANGED <<pending, outcome, newest_first>>

(* OPENIN, OPENUP and OPENOUT are 0: the file or a descriptor is missing.  *)
OpenFails(f, mode) ==
  /\ Running
  /\ (mode # "out" /\ f \notin DOMAIN disk) \/ Fds \subseteq Open
  /\ Ok
  /\ UNCHANGED <<disk, channels, files_list, pending, outcome, newest_first>>

(* open_files_close_all: close() of every entry of the list must succeed.  *)
CloseAll(then) ==
  /\ channels' = [fd \in Open \ Listed |-> channels[fd]]
  /\ files_list' = <<>>
  /\ outcome' = IF Listed \subseteq Open THEN then ELSE "abort"
  /\ Ok

Close(fd) ==
  /\ Running /\ fd \in Open
  /\ channels' = [g \in Open \ {fd} |-> channels[g]]
  /\ files_list' = Removed(fd)
  /\ newest_first' = (newest_first /\ (fd \in Listed => files_list[1].fd = fd))
  /\ Ok /\ UNCHANGED <<disk, pending, outcome>>

CloseEvery ==
  /\ Running /\ CloseAll("running")
  /\ UNCHANGED <<disk, pending, newest_first>>

(* The program ends, normally or with an error: runtime_free().            *)
EndProgram ==
  /\ Running /\ CloseAll("ended")
  /\ pending' = <<>> /\ UNCHANGED <<disk, newest_first>>

(* Any of the statements and functions below, and CLOSE#, on a standard    *)
(* stream, on a descriptor that is not open, or not for this use.          *)
Refused ==
  /\ Running /\ Fail
  /\ UNCHANGED <<disk, channels, files_list, pending, outcome, newest_first>>

-----------------------------------------------------------------------------
(* Bytes.  They move the offset and not the item pointer.                  *)

BPut(fd, b) ==
  /\ Running /\ CanWrite(fd)
  /\ Write(fd, <<b>>)
  /\ Ok /\ UNCHANGED <<files_list, pending, outcome, newest_first>>

BGet(fd) ==
  /\ Running /\ CanRead(fd)
  /\ IF channels[fd].pos < Len(Content(fd))
     THEN channels' = [channels EXCEPT ![fd].pos = @ + 1] /\ Ok
     ELSE Fail /\ UNCHANGED channels
  /\ UNCHANGED <<disk, files_list, pending, outcome, newest_first>>

-----------------------------------------------------------------------------
(* PTR# = n: back to the start, then over the items until the pointer of   *)
(* the list is n.                                                          *)

Skip(bytes, n) ==
  LET walk[k \in 0..n] ==
        IF k = 0 THEN [ok |-> TRUE, pos |-> 0, ptr |-> 0]
        ELSE LET w == walk[k - 1]
                 r == ReadItem(bytes, w.pos)
             IN  IF ~w.ok THEN w
                 ELSE [ok |-> r.ok, pos |-> r.pos,
                       ptr |-> IF r.ok THEN w.ptr + 1 ELSE w.ptr]
  IN  walk[n]

SetPtr(fd, want) ==
  /\ Running /\ fd \in Open /\ fd \in Listed
  /\ LET n == IF want > 0 THEN want ELSE 0
         w == IF CanRead(fd) THEN Skip(Content(fd), n)
              ELSE [ok |-> n = 0, pos |-> 0, ptr |-> 0]
     IN  /\ channels' = [channels EXCEPT ![fd].pos = w.pos]
         /\ files_list' = WithPtr(fd, w.ptr)
         /\ IF w.ok THEN Ok ELSE Fail
  /\ UNCHANGED <<disk, pending, outcome, newest_first>>

(* A descriptor that is open but not in the list: setting the pointer sets *)
(* an error, the pointer then reads as STATUS_ERROR, and counting the      *)
(* first item aborts.                                                      *)
SetPtrUnlisted(fd, want) ==
  /\ Running /\ fd \in Open /\ fd \notin Listed
  /\ LET r == IF CanRead(fd) THEN ReadItem(Content(fd), 0)
              ELSE [ok |-> FALSE, pos |-> 0]
         still == want <= STATUS_ERROR
     IN  /\ channels' = [channels EXCEPT ![fd].pos = IF still THEN 0 ELSE r.pos]
         /\ IF ~still /\ r.ok THEN Abort ELSE Fail /\ UNCHANGED outcome
  /\ UNCHANGED <<disk, files_list, pending, newest_first>>

-----------------------------------------------------------------------------
(* Items.  left counts the items of the list that are still to come.       *)

Current == pending[Len(pending)]
Outer == SubSeq(pending, 1, Len(pending) - 1)

(* A mutant: a statement does not end after its last item.                 *)
InProgressStill(op, fd, left) ==
  Append(Outer, [op |-> op, fd |-> fd, left |-> left])

InProgress(op, fd, left) ==
  IF left = 0 THEN Outer ELSE Append(Outer, [op |-> op, fd |-> fd, left |-> left])

(* A mutant: PRINT# and INPUT# leave the pointer alone.                    *)
NotCounted(fd) ==
  IF fd \in Listed THEN UNCHANGED files_list /\ Ok /\ UNCHANGED outcome
                   ELSE UNCHANGED files_list /\ Abort

(* open_file_increment_ptr: the channel must be in the list.               *)
CountItem(fd) ==
  IF fd \in Listed
  THEN files_list' = WithPtr(fd, GetPtr(fd) + 1) /\ Ok /\ UNCHANGED outcome
  ELSE UNCHANGED files_list /\ Abort

PrintStart(fd, n) ==
  /\ Running /\ Len(pending) < MaxNested /\ fd \in Fds
  /\ pending' = Append(pending, [op |-> "print", fd |-> fd, left |-> n])
  /\ UNCHANGED <<disk, channels, files_list, failed, outcome, newest_first>>

PrintItem(v) ==
  /\ Running /\ pending # <<>> /\ Current.op = "print" /\ CanWrite(Current.fd)
  /\ Write(Current.fd, Encode(v))
  /\ CountItem(Current.fd)
  /\ pending' = InProgress("print", Current.fd, Current.left - 1)
  /\ UNCHANGED newest_first

(* A full disk, or a channel that is not, or no longer, open for output.   *)
PrintFails ==
  /\ Running /\ pending # <<>> /\ Current.op = "print"
  /\ pending' = Outer /\ Fail
  /\ UNCHANGED <<disk, channels, files_list, outcome, newest_first>>

(* Reads an item; what is left then starts with the assignment of it.      *)
Input(fd, rest, left) ==
  LET r == IF CanRead(fd) THEN ReadItem(Content(fd), channels[fd].pos)
           ELSE [ok |-> FALSE, pos |-> 0]
  IN  /\ channels' = IF CanRead(fd) THEN [channels EXCEPT ![fd].pos = r.pos]
                     ELSE channels
      /\ IF r.ok
         THEN /\ pending' = Append(rest, [op |-> "input", fd |-> fd, left |-> left])
              /\ CountItem(fd)
         ELSE /\ pending' = rest /\ Fail
              /\ UNCHANGED <<files_list, outcome>>

InputStart(fd, n) ==
  /\ Running /\ Len(pending) < MaxNested /\ fd \in Fds
  /\ Input(fd, pending, n)
  /\ UNCHANGED <<disk, newest_first>>

InputNext ==
  /\ Running /\ pending # <<>> /\ Current.op = "input" /\ Current.left > 1
  /\ Input(Current.fd, Outer, Current.left - 1)
  /\ UNCHANGED <<disk, newest_first>>

InputDone ==
  /\ Running /\ pending # <<>> /\ Current.op = "input" /\ Current.left = 1
  /\ pending' = Outer /\ Ok
  /\ UNCHANGED <<disk, channels, files_list, outcome, newest_first>>

(* The value to print, or the assignment of the value read, fails.         *)
OperandFails ==
  /\ Running /\ pending # <<>>
  /\ pending' = Outer /\ Fail
  /\ UNCHANGED <<disk, channels, files_list, outcome, newest_first>>

-----------------------------------------------------------------------------
Stopped == ~Running /\ UNCHANGED vars

Next ==
  \/ \E f \in Files, mode \in Modes : OpenFile(f, mode) \/ OpenFails(f, mode)
  \/ \E fd \in Fds :
       \/ Close(fd) \/ BGet(fd)
       \/ \E b \in Bytes : BPut(fd, b)
       \/ \E want \in Wanted : SetPtr(fd, want) \/ SetPtrUnlisted(fd, want)
       \/ \E n \in 1..MaxItems : PrintStart(fd, n) \/ InputStart(fd, n)
  \/ \E v \in Values : PrintItem(v)
  \/ CloseEvery \/ EndProgram \/ Refused
  \/ PrintFails \/ InputNext \/ InputDone \/ OperandFails
  \/ Stopped

Spec == Init /\ [][Next]_vars

-----------------------------------------------------------------------------
TypeOK ==
  /\ DOMAIN disk \subseteq Files /\ disk \in [DOMAIN disk -> Seq(Byte)]
  /\ Open \subseteq Fds
  /\ channels \in [Open -> [file: DOMAIN disk, mode: Modes, pos: Nat]]
  /\ files_list \in Seq([fd: Fds, ptr: Nat])
  /\ pending \in Seq([op: {"print", "input"}, fd: Fds, left: Nat \ {0}])
  /\ failed \in BOOLEAN
  /\ outcome \in {"running", "ended", "abort"}
  /\ newest_first \in BOOLEAN

(* open_files_close_all() closes each entry of the list and aborts if one  *)
(* cannot be closed: the list never names a descriptor that is closed, nor *)
(* one descriptor twice, in whatever order channels come and go.           *)
ListedAreOpen ==
  Running => /\ Listed \subseteq Open
             /\ \A i, j \in DOMAIN files_list :
                  files_list[i].fd = files_list[j].fd => i = j

(* "Adds a file to the open files list", "Closes all open files": every    *)
(* channel that is open is in the list.                                    *)
OpenAreListed == Running => Open \subseteq Listed

(* While CLOSE# only closes the newest channel, no channel is forgotten    *)
(* and no statement aborts: "failed to find open file", "close failed".    *)
NewestFirstIsSafe == newest_first => OpenAreListed /\ outcome # "abort"

(* What a file of items is, without reading it in order: the first p bytes *)
(* can be cut into n pieces, each an item.                                 *)
IsItem(s) ==
  CASE s = <<>> -> FALSE
    [] s # <<>> /\ s[1] = 64 -> Len(s) = 1 + IntSize
    [] s # <<>> /\ s[1] = 255 -> Len(s) = 1 + FloatSize
    [] s # <<>> /\ s[1] = 0 -> Len(s) > 1 /\ Len(s) = 2 + s[2]
    [] OTHER -> FALSE

Items(bytes, p, n) ==
  /\ n <= p /\ p <= Len(bytes)
  /\ \E inner \in SUBSET (1..(p - 1)) :
       LET cuts == inner \cup {0, p}
       IN  /\ Cardinality(cuts) = n + 1
           /\ \A a \in cuts \ {p} : \E b \in cuts :
                /\ b > a /\ \A c \in cuts : c <= a \/ c >= b
                /\ IsItem(SubSeq(bytes, a + 1, b))

AtItem(fd) == Items(Content(fd), channels[fd].pos, GetPtr(fd))

(* PTR# "select[s] which item in a long file is to be read or written      *)
(* next": on a channel used item by item the pointer is the number of      *)
(* items before the offset.  PRINT#, INPUT# and PTR# that succeed keep it  *)
(* so, whatever other channels do elsewhere, and whatever the functions    *)
(* called between two items do.                                            *)
Undisturbed(fd) ==
  /\ channels[fd].pos <= Len(Content(fd)) /\ channels[fd].pos <= Len(Content(fd)')
  /\ \A i \in 1..channels[fd].pos : Content(fd)'[i] = Content(fd)[i]

Moved(fd) == channels'[fd] # channels[fd] \/ GetPtr(fd)' # GetPtr(fd)

PtrCountsItems ==
  [][outcome' = "running" /\ ~failed' =>
       \A fd \in Open \cap Open' \cap Listed \cap Listed' :
         /\ Moved(fd) /\ Undisturbed(fd) /\ ~BGet(fd)
         /\ \A b \in Bytes : ~BPut(fd, b)
         /\ AtItem(fd)
         => AtItem(fd)']_vars

(* PTR# = n on a file that starts with n items finds the end of the n-th.  *)
PtrSelectsItem ==
  \A f \in DOMAIN disk : \A n \in Wanted \cap Nat : \A p \in 0..Len(disk[f]) :
    Items(disk[f], p, n) => Skip(disk[f], n) = [ok |-> TRUE, pos |-> p, ptr |-> n]
==============================================================================
